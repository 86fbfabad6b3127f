------------------------ MODULE PlatoonMembershipProofs ------------------------
(***************************************************************************)
(* The handshake of JoinAtBack and MergeAtBack serves one joiner at a      *)
(* time, for every set of platoons, joiners and merging leaders and every  *)
(* number of requests.                                                     *)
(*                                                                         *)
(* The argument.  The invariant speaks of pairs: for a vehicle v and a     *)
(* leader l, what v waits for, what l waits for and which messages of the  *)
(* handshake are on their way between the two fit together in one of nine  *)
(* stages (Stage).  A handler moves one pair from one stage to the next    *)
(* and leaves the stages of all the other pairs alone.  A stage says that  *)
(* the next message of the handshake is one its receiver waits for, so     *)
(* that none is ever disregarded but a request.                            *)
(***************************************************************************)
EXTENDS PlatoonMembership, TLAPS

AskKind  == {Request[m] : m \in Maneuver} \cup DOMAIN LeaderExpects
TellKind == DOMAIN JoinerExpects

Channels == [Vehicle -> [Vehicle -> Seq(Message)]]

(* What the one who joins asks and confirms, and what the leader tells it. *)
Ask(q)  == {msg \in ToSet(q) : msg.kind \in AskKind}
Tell(q) == {msg \in ToSet(q) : msg.kind \in TellKind}

(* No kind of handshake message is twice in a queue, and the permission    *)
(* comes before the information.                                           *)
Lone(q) ==
  \A i, j \in DOMAIN q :
    q[i].kind \in AskKind \cup TellKind /\ q[i].kind = q[j].kind => i = j

PermissionFirst(q) ==
  \A i, j \in DOMAIN q :
    q[i].kind = "JoinPlatoonResponse" /\ q[j].kind = "MoveToPosition" => i < j

Orderly(q) == Lone(q) /\ PermissionFirst(q)

-----------------------------------------------------------------------------
(* Kinds and messages *)

LEMMA Kinds ==
  /\ AskKind = {"JoinPlatoonRequest", "MergePlatoonRequest",
                "MoveToPositionAck", "JoinFormationAck"}
  /\ TellKind = {"JoinPlatoonResponse", "MoveToPosition", "JoinFormation"}
  /\ MessageKind = AskKind \cup TellKind \cup UpdateKind
  /\ UpdateKind = {"UpdatePlatoonFormation", "UpdatePlatoonData"}
  /\ Request["join"] = "JoinPlatoonRequest" /\ Request["merge"] = "MergePlatoonRequest"
  /\ Maneuver = {"join", "merge"}
BY DEF AskKind, TellKind, MessageKind, UpdateKind, Request, Maneuver, JoinerExpects, LeaderExpects

LEMMA RequestKinds ==
  ASSUME NEW m \in Maneuver
  PROVE  /\ Request[m] \in AskKind \cap MessageKind
         /\ Request[m] \notin TellKind \cup UpdateKind \cup DOMAIN LeaderExpects
         /\ \A n \in Maneuver : Request[n] = Request[m] => n = m
<1>1. m = "join" \/ m = "merge"
  BY DEF Maneuver
<1>2. Request["join"] = "JoinPlatoonRequest" /\ Request["merge"] = "MergePlatoonRequest"
  BY Kinds
<1>3. DOMAIN LeaderExpects = {"MoveToPositionAck", "JoinFormationAck"}
  BY DEF LeaderExpects
<1>4. QED
  BY <1>1, <1>2, <1>3, Kinds

LEMMA MsgType ==
  ASSUME NEW kind \in MessageKind, NEW id \in Id, NEW f \in Formation
  PROVE  /\ Msg(kind, id, f) \in Message
         /\ Msg(kind, id, f).kind = kind
         /\ Msg(kind, id, f).platoonId = id
         /\ Msg(kind, id, f).formation = f
         /\ ~Msg(kind, id, f).permitted
BY DEF Msg, Message

-----------------------------------------------------------------------------
(* Queues *)

LEMMA TailSet ==
  ASSUME NEW q \in Seq(Message), q # <<>>
  PROVE  /\ Tail(q) \in Seq(Message)
         /\ Head(q) \in Message
         /\ ToSet(q) = ToSet(Tail(q)) \cup {Head(q)}
         /\ ToSet(q) \subseteq Message
<1>1. Len(q) \in Nat /\ Len(q) > 0 /\ DOMAIN q = 1 .. Len(q)
  OBVIOUS
<1>2. Tail(q) \in Seq(Message) /\ Head(q) \in Message /\ Head(q) = q[1]
  BY <1>1
<1>3. /\ DOMAIN Tail(q) = 1 .. Len(q) - 1
      /\ \A i \in DOMAIN Tail(q) : Tail(q)[i] = q[i + 1] /\ i + 1 \in DOMAIN q
      /\ \A i \in DOMAIN q : i # 1 => i - 1 \in DOMAIN Tail(q) /\ Tail(q)[i - 1] = q[i]
  BY <1>1
<1>4. ToSet(q) \subseteq ToSet(Tail(q)) \cup {Head(q)}
  <2> SUFFICES ASSUME NEW i \in DOMAIN q
               PROVE  q[i] \in ToSet(Tail(q)) \cup {Head(q)}
    BY DEF ToSet
  <2>1. CASE i = 1
    BY <1>2, <2>1
  <2>2. CASE i # 1
    BY <1>3, <2>2 DEF ToSet
  <2>3. QED
    BY <2>1, <2>2
<1>5. ToSet(Tail(q)) \cup {Head(q)} \subseteq ToSet(q)
  BY <1>1, <1>2, <1>3 DEF ToSet
<1>6. \A i \in DOMAIN q : q[i] \in Message
  BY <1>1
<1>7. QED
  BY <1>2, <1>4, <1>5, <1>6 DEF ToSet

LEMMA TailOrderly ==
  ASSUME NEW q \in Seq(Message), q # <<>>, Orderly(q)
  PROVE  /\ Orderly(Tail(q))
         /\ Ask(Tail(q)) = Ask(q) \ {Head(q)}
         /\ Tell(Tail(q)) = Tell(q) \ {Head(q)}
         /\ Head(q).kind = "MoveToPosition" =>
              \A msg \in ToSet(q) : msg.kind # "JoinPlatoonResponse"
         /\ \A k \in AskKind \cup TellKind : (\A msg \in ToSet(q) : msg.kind # k) =>
              \A msg \in ToSet(Tail(q)) : msg.kind # k
<1>1. Len(q) \in Nat /\ Len(q) > 0 /\ DOMAIN q = 1 .. Len(q) /\ Head(q) = q[1]
  OBVIOUS
<1>2. /\ DOMAIN Tail(q) = 1 .. Len(q) - 1
      /\ \A i \in DOMAIN Tail(q) : Tail(q)[i] = q[i + 1] /\ i + 1 \in DOMAIN q /\ i + 1 # 1
  BY <1>1
<1>3. ToSet(q) = ToSet(Tail(q)) \cup {Head(q)}
  BY TailSet
<1>4. Lone(Tail(q))
  BY <1>2 DEF Orderly, Lone
<1>5. PermissionFirst(Tail(q))
  <2> SUFFICES ASSUME NEW i \in DOMAIN Tail(q), NEW j \in DOMAIN Tail(q),
                      Tail(q)[i].kind = "JoinPlatoonResponse", Tail(q)[j].kind = "MoveToPosition"
               PROVE  i < j
    BY DEF PermissionFirst
  <2>1. i + 1 < j + 1
    BY <1>2 DEF Orderly, PermissionFirst
  <2>2. i \in Int /\ j \in Int
    BY <1>1, <1>2
  <2>3. QED
    BY <2>1, <2>2
<1>6. ASSUME Head(q).kind \in AskKind \cup TellKind, NEW msg \in ToSet(Tail(q))
      PROVE  msg # Head(q)
  <2>1. PICK i \in DOMAIN Tail(q) : msg = Tail(q)[i]
    BY <1>6 DEF ToSet
  <2>2. q[i + 1] = msg /\ i + 1 \in DOMAIN q /\ i + 1 # 1 /\ 1 \in DOMAIN q
    BY <1>1, <1>2, <2>1
  <2>3. QED
    BY <1>1, <1>6, <2>2 DEF Orderly, Lone
<1>7. Ask(Tail(q)) = Ask(q) \ {Head(q)}
  BY <1>3, <1>6 DEF Ask
<1>8. Tell(Tail(q)) = Tell(q) \ {Head(q)}
  BY <1>3, <1>6 DEF Tell
<1>9. ASSUME Head(q).kind = "MoveToPosition", NEW msg \in ToSet(q)
      PROVE  msg.kind # "JoinPlatoonResponse"
  <2>1. PICK i \in DOMAIN q : msg = q[i]
    BY DEF ToSet
  <2>2. msg.kind = "JoinPlatoonResponse" => i < 1
    BY <1>1, <1>9, <2>1 DEF Orderly, PermissionFirst
  <2>3. QED
    BY <1>1, <2>1, <2>2
<1>10. QED
  BY <1>3, <1>4, <1>5, <1>7, <1>8, <1>9 DEF Orderly

LEMMA AppendSet ==
  ASSUME NEW q \in Seq(Message), NEW msg \in Message
  PROVE  /\ Append(q, msg) \in Seq(Message)
         /\ ToSet(Append(q, msg)) = ToSet(q) \cup {msg}
         /\ Ask(Append(q, msg)) = Ask(q) \cup {x \in {msg} : x.kind \in AskKind}
         /\ Tell(Append(q, msg)) = Tell(q) \cup {x \in {msg} : x.kind \in TellKind}
<1>1. /\ Append(q, msg) \in Seq(Message)
      /\ Len(q) \in Nat /\ DOMAIN q = 1 .. Len(q)
      /\ DOMAIN Append(q, msg) = 1 .. Len(q) + 1
      /\ \A i \in DOMAIN q : Append(q, msg)[i] = q[i] /\ i \in DOMAIN Append(q, msg)
      /\ \A i \in DOMAIN Append(q, msg) : i \in DOMAIN q \/ i = Len(q) + 1
      /\ Append(q, msg)[Len(q) + 1] = msg
  OBVIOUS
<1>2. ToSet(Append(q, msg)) \subseteq ToSet(q) \cup {msg}
  BY <1>1 DEF ToSet
<1>3. ToSet(q) \cup {msg} \subseteq ToSet(Append(q, msg))
  BY <1>1 DEF ToSet
<1>4. QED
  BY <1>1, <1>2, <1>3 DEF Ask, Tell

LEMMA AppendOrderly ==
  ASSUME NEW q \in Seq(Message), NEW msg \in Message, Orderly(q),
         msg.kind \in AskKind \cup TellKind => \A x \in ToSet(q) : x.kind # msg.kind,
         msg.kind = "JoinPlatoonResponse" => \A x \in ToSet(q) : x.kind # "MoveToPosition"
  PROVE  Orderly(Append(q, msg))
<1> DEFINE r == Append(q, msg)
<1>1. /\ Len(q) \in Nat /\ DOMAIN q = 1 .. Len(q)
      /\ DOMAIN r = 1 .. Len(q) + 1
      /\ \A i \in DOMAIN q : r[i] = q[i]
      /\ \A i \in DOMAIN r : i \in DOMAIN q \/ i = Len(q) + 1
      /\ r[Len(q) + 1] = msg
      /\ \A i \in DOMAIN q : i < Len(q) + 1
  OBVIOUS
<1>2. \A i \in DOMAIN q : q[i] \in ToSet(q)
  BY DEF ToSet
<1> HIDE DEF r
<1>3. Lone(r)
  <2> SUFFICES ASSUME NEW i \in DOMAIN r, NEW j \in DOMAIN r,
                      r[i].kind \in AskKind \cup TellKind, r[i].kind = r[j].kind
               PROVE  i = j
    BY DEF Lone
  <2>1. CASE i \in DOMAIN q /\ j \in DOMAIN q
    BY <1>1, <2>1 DEF Orderly, Lone
  <2>2. CASE i \in DOMAIN q /\ j = Len(q) + 1
    BY <1>1, <1>2, <2>2
  <2>3. CASE j \in DOMAIN q /\ i = Len(q) + 1
    BY <1>1, <1>2, <2>3
  <2>4. QED
    BY <1>1, <2>1, <2>2, <2>3
<1>4. PermissionFirst(r)
  <2> SUFFICES ASSUME NEW i \in DOMAIN r, NEW j \in DOMAIN r,
                      r[i].kind = "JoinPlatoonResponse", r[j].kind = "MoveToPosition"
               PROVE  i < j
    BY DEF PermissionFirst
  <2>1. CASE i \in DOMAIN q /\ j \in DOMAIN q
    BY <1>1, <2>1 DEF Orderly, PermissionFirst
  <2>2. CASE i \in DOMAIN q /\ j = Len(q) + 1
    BY <1>1, <2>2
  <2>3. CASE j \in DOMAIN q /\ i = Len(q) + 1
    BY <1>1, <1>2, <2>3
  <2>4. CASE i = Len(q) + 1 /\ j = Len(q) + 1
    BY <2>4
  <2>5. QED
    BY <1>1, <2>1, <2>2, <2>3, <2>4
<1>5. QED
  BY <1>3, <1>4 DEF Orderly, r

-----------------------------------------------------------------------------
(* Channels *)

LEMMA DequeueChannels ==
  ASSUME channel \in Channels, NEW u \in Vehicle, NEW v \in Vehicle, channel[u][v] # <<>>
  PROVE  /\ Dequeue(u, v) \in Channels
         /\ \A a, b \in Vehicle :
              Dequeue(u, v)[a][b] = IF a = u /\ b = v THEN Tail(channel[u][v]) ELSE channel[a][b]
<1>1. Tail(channel[u][v]) \in Seq(Message)
  BY TailSet DEF Channels
<1>2. QED
  BY <1>1 DEF Dequeue, Channels

LEMMA SendChannels ==
  ASSUME NEW ch \in Channels, NEW v \in Vehicle, NEW w, NEW msg \in Message
  PROVE  /\ Send(ch, v, w, msg) \in Channels
         /\ \A a, b \in Vehicle :
              Send(ch, v, w, msg)[a][b] = IF a = v /\ b = w THEN Append(ch[a][b], msg) ELSE ch[a][b]
<1>1. \A q \in Seq(Message) : Append(q, msg) \in Seq(Message)
  OBVIOUS
<1>2. QED
  BY <1>1 DEF Send, Channels

LEMMA SendToFollowersChannels ==
  ASSUME NEW ch \in Channels, NEW v \in Vehicle, NEW f, NEW msg \in Message
  PROVE  /\ SendToFollowers(ch, v, f, msg) \in Channels
         /\ \A a, b \in Vehicle :
              SendToFollowers(ch, v, f, msg)[a][b] =
                IF a = v /\ b \in ToSet(Tail(f)) THEN Append(ch[a][b], msg) ELSE ch[a][b]
<1>1. \A q \in Seq(Message) : Append(q, msg) \in Seq(Message)
  OBVIOUS
<1>2. QED
  BY <1>1 DEF SendToFollowers, Channels

-----------------------------------------------------------------------------
(* Types *)

LState == {"L_WAIT_JOINER_IN_POSITION", "L_WAIT_JOINER_TO_JOIN"}

(* The formation a merging leader takes its followers from is not empty.   *)
Led ==
  /\ \A v \in Leaders : role[v] # "FOLLOWER" => formation[v] # <<>>
  /\ \A v \in Vehicle, m \in Maneuver :
       state[v][m] \in LState => joiner[v][m].newFormation # <<>>

Typed == TypeOK /\ Led

LEMMA Constants ==
  /\ Leaders \subseteq Vehicle /\ Leaders \subseteq Registered
  /\ Leaders \subseteq Id /\ Target \subseteq Leaders /\ Merger \subseteq Leaders
  /\ Joiner \subseteq Vehicle /\ Joiner \cap Leaders = {}
  /\ None \in Id /\ None \notin Vehicle /\ Id \subseteq Vehicle \cup {None}
<1>1. \A p \in Platoons : p \in Seq(Vehicle) /\ p # <<>> /\ Head(p) \in ToSet(p)
  <2> SUFFICES ASSUME NEW p \in Platoons
               PROVE  p \in Seq(Vehicle) /\ p # <<>> /\ Head(p) \in ToSet(p)
    OBVIOUS
  <2>1. p \in Seq(Vehicle) /\ Len(p) > 0
    BY PlatoonsAssumption
  <2>2. 1 \in DOMAIN p /\ Head(p) = p[1] /\ p # <<>>
    BY <2>1
  <2>3. QED
    BY <2>1, <2>2 DEF ToSet
<1>2. Leaders \subseteq Registered
  BY <1>1 DEF Leaders, Registered
<1>3. QED
  BY <1>2, VehicleAssumption DEF Id

LEMMA AskedTarget ==
  ASSUME NEW l \in Id
  PROVE  LET asked == [NoTarget EXCEPT !.platoonId = l, !.platoonLeader = l] IN
         /\ asked \in [platoonId : Id, platoonLeader : Id, newFormation : Formation]
         /\ asked.platoonId = l /\ asked.platoonLeader = l
<1> DEFINE Targets == [platoonId : Id, platoonLeader : Id, newFormation : Formation]
           once    == [NoTarget EXCEPT !.platoonId = l]
<1>1. NoTarget \in Targets
  BY Constants DEF NoTarget, Formation
<1>2. once \in Targets /\ once.platoonId = l
  BY <1>1
<1>3. [once EXCEPT !.platoonLeader = l] \in Targets
  BY <1>2
<1>4. /\ [once EXCEPT !.platoonLeader = l].platoonLeader = l
      /\ [once EXCEPT !.platoonLeader = l].platoonId = l
  BY <1>2
<1>5. [NoTarget EXCEPT !.platoonId = l, !.platoonLeader = l] = [once EXCEPT !.platoonLeader = l]
  BY <1>1
<1>6. QED
  BY <1>3, <1>4, <1>5

LEMMA TypedStart ==
  ASSUME Typed, NEW m \in Maneuver, NEW v \in Vehicle, NEW leader \in Target,
         m = "merge" => v \in Leaders,
         StartManeuver(m, v, leader)
  PROVE  Typed'
<1>1. leader \in Leaders /\ leader \in Id
  BY Constants
<1> DEFINE members == IF m = "merge" THEN Tail(formation[v]) ELSE <<>>
<1>2. members \in Formation
  <2>1. CASE m = "merge"
    <3>1. formation[v] \in Seq(Vehicle) /\ formation[v] # <<>>
      BY <2>1 DEF Typed, TypeOK, Led, StartManeuver, Formation
    <3>2. QED
      BY <2>1, <3>1 DEF Formation
  <2>2. QED
    BY <2>1 DEF Formation
<1>3. Msg(Request[m], leader, members) \in Message
  <2>1. Request[m] \in MessageKind
    BY DEF MessageKind
  <2>2. QED
    BY <1>1, <1>2, <2>1, MsgType
<1>4. channel' = Send(channel, v, leader, Msg(Request[m], leader, members))
  BY DEF StartManeuver
<1>5. channel' \in Channels
  BY <1>3, <1>4, SendChannels DEF Typed, TypeOK, Channels
<1>6. old' \in [Vehicle -> [platoonId : Id, formation : Formation]]
  BY DEF Typed, TypeOK, StartManeuver
<1>7. target' \in [Vehicle -> [Maneuver ->
        [platoonId : Id, platoonLeader : Id, newFormation : Formation]]]
  <2>1. [NoTarget EXCEPT !.platoonId = leader, !.platoonLeader = leader]
          \in [platoonId : Id, platoonLeader : Id, newFormation : Formation]
    BY <1>1, AskedTarget
  <2>2. QED
    BY <2>1 DEF Typed, TypeOK, StartManeuver
<1>8. /\ role' \in [Vehicle -> Role] /\ active' \in [Vehicle -> Maneuver \cup {"none"}]
      /\ state' \in [Vehicle -> [Maneuver -> JoinManeuverState]]
      /\ starts' \in [Vehicle -> 0 .. MaxStarts]
  BY StartsAssumption DEF Typed, TypeOK, StartManeuver, SetRole, SetActive, SetState, Role, JoinManeuverState
<1>9. TypeOK'
  BY <1>5, <1>6, <1>7, <1>8 DEF Typed, TypeOK, StartManeuver, helperVars, Channels
<1>10. Led'
  BY Constants DEF Typed, TypeOK, Led, StartManeuver, helperVars, SetRole, SetState, LState
<1>11. QED
  BY <1>9, <1>10 DEF Typed

(* What the first message of a queue tells of the receiver's types.        *)
LEMMA Received ==
  ASSUME Typed, NEW u \in Vehicle, NEW v \in Vehicle, channel[u][v] # <<>>
  PROVE  /\ channel \in Channels
         /\ Dequeue(u, v) \in Channels
         /\ Head(channel[u][v]) \in Message
         /\ Head(channel[u][v]).kind \in MessageKind
         /\ Head(channel[u][v]).platoonId \in Id
         /\ Head(channel[u][v]).newPlatoonId \in Id
         /\ Head(channel[u][v]).formation \in Formation
<1>1. channel \in Channels
  BY DEF Typed, TypeOK, Channels
<1>2. Head(channel[u][v]) \in Message
  BY <1>1, TailSet DEF Channels
<1>3. QED
  BY <1>1, <1>2, DequeueChannels DEF Message

LEMMA TypedRequest ==
  ASSUME Typed, NEW m \in Maneuver, NEW u \in Vehicle, NEW v \in Vehicle,
         HandleRequest(m, u, v)
  PROVE  Typed'
<1> DEFINE msg  == Head(channel[u][v])
           next == NewFormation(formation[v], u, msg.formation)
<1>1. /\ channel[u][v] # <<>> /\ channel \in Channels /\ Dequeue(u, v) \in Channels
      /\ msg.platoonId \in Id /\ msg.formation \in Formation
  BY Received DEF HandleRequest, Receives
<1>2. next \in Formation /\ next # <<>>
  <2>1. formation[v] \in Seq(Vehicle) /\ msg.formation \in Seq(Vehicle)
    BY <1>1 DEF Typed, TypeOK, Formation
  <2>2. Append(formation[v], u) \in Seq(Vehicle) /\ Len(Append(formation[v], u)) > 0
    BY <2>1
  <2>3. QED
    BY <2>1, <2>2 DEF NewFormation, Formation
<1> DEFINE no  == Msg("JoinPlatoonResponse", msg.platoonId, <<>>)
           yes == [no EXCEPT !.permitted = TRUE]
           mtp == Msg("MoveToPosition", msg.platoonId, next)
<1>3. no \in Message /\ yes \in Message /\ mtp \in Message
  <2>1. <<>> \in Formation /\ "JoinPlatoonResponse" \in MessageKind /\ "MoveToPosition" \in MessageKind
    BY Kinds DEF Formation
  <2>2. no \in Message /\ mtp \in Message
    BY <1>1, <1>2, <2>1, MsgType
  <2>3. yes \in Message
    BY <2>2 DEF Message
  <2>4. QED
    BY <2>2, <2>3
<1>4. CASE IsJoinAllowed(v)
  <2>1. /\ SetActive(v, m) /\ SetRole(v, "LEADER") /\ SetState(v, m, "L_WAIT_JOINER_IN_POSITION")
        /\ joiner' = [joiner EXCEPT ![v][m] = [id |-> u, newFormation |-> next]]
        /\ channel' = Send(Send(Dequeue(u, v), v, u, yes), v, u, mtp)
        /\ UNCHANGED <<helperVars, target, mergeVars, runVars>>
    BY <1>4 DEF HandleRequest, Grant
  <2>2. channel' \in Channels
    BY <1>1, <1>3, <2>1, SendChannels
  <2>3. [id |-> u, newFormation |-> next] \in [id : Vehicle \cup {None}, newFormation : Formation]
    BY <1>2, SMTT(30)
  <2> HIDE DEF next
  <2>4. TypeOK'
    BY <2>1, <2>2, <2>3 DEF Typed, TypeOK, Channels, SetActive, SetRole, SetState, Role, JoinManeuverState,
       helperVars, mergeVars, runVars
  <2>5. role[v] # "FOLLOWER"
    BY DEF HandleRequest, ForMyPlatoon
  <2>6. Led'
    BY <1>2, <2>1, <2>5 DEF Typed, TypeOK, Led, SetRole, SetState, helperVars
  <2>7. QED
    BY <2>4, <2>6 DEF Typed
<1>5. CASE ~IsJoinAllowed(v)
  <2>1. /\ channel' = Send(Dequeue(u, v), v, u, no)
        /\ UNCHANGED <<appVars, joiner, state>>
        /\ UNCHANGED <<helperVars, target, mergeVars, runVars>>
    BY <1>5 DEF HandleRequest
  <2>2. channel' \in Channels
    BY <1>1, <1>3, <2>1, SendChannels
  <2>3. QED
    BY <2>1, <2>2 DEF Typed, TypeOK, Led, Channels, appVars, helperVars, mergeVars, runVars
<1>6. QED
  BY <1>4, <1>5

(* The handlers that only dequeue, and change the app and its manoeuvre.   *)
LEMMA TypedJoinerReply ==
  ASSUME Typed, NEW m \in Maneuver, NEW u \in Vehicle, NEW v \in Vehicle,
         \/ HandleJoinPlatoonResponse(m, u, v)
         \/ HandleMoveToPosition(m, u, v)
  PROVE  Typed'
<1>1. channel[u][v] # <<>> /\ channel' = Dequeue(u, v) /\ role[v] = "JOINER"
  BY DEF HandleJoinPlatoonResponse, HandleMoveToPosition, Receives, FromTarget
<1>2. channel' \in Channels
  BY <1>1, Received
<1>2f. Head(channel[u][v]).formation \in Formation
  BY <1>1, Received
<1>3. CASE HandleJoinPlatoonResponse(m, u, v)
  <2>1. /\ \/ UNCHANGED appVars /\ SetState(v, m, "J_WAIT_INFORMATION")
           \/ SetState(v, m, "IDLE") /\ SetRole(v, "NONE") /\ SetActive(v, "none")
        /\ UNCHANGED <<helperVars, target, joiner, mergeVars, runVars>>
    BY <1>3 DEF HandleJoinPlatoonResponse
  <2>2. /\ role' \in [Vehicle -> Role] /\ active' \in [Vehicle -> Maneuver \cup {"none"}]
        /\ state' \in [Vehicle -> [Maneuver -> JoinManeuverState]]
        /\ \A w \in Vehicle, n \in Maneuver : state'[w][n] \in LState => state[w][n] \in LState
        /\ \A w \in Vehicle : role'[w] # "FOLLOWER" => role[w] # "FOLLOWER"
    <3>1. CASE UNCHANGED appVars /\ SetState(v, m, "J_WAIT_INFORMATION")
      BY <3>1 DEF Typed, TypeOK, SetState, JoinManeuverState, LState, appVars
    <3>2. CASE SetState(v, m, "IDLE") /\ SetRole(v, "NONE") /\ SetActive(v, "none")
      <4>1. /\ role' \in [Vehicle -> Role] /\ active' \in [Vehicle -> Maneuver \cup {"none"}]
            /\ \A w \in Vehicle : role'[w] # "FOLLOWER" => role[w] # "FOLLOWER"
        BY <1>1, <3>2 DEF Typed, TypeOK, SetRole, SetActive, Role
      <4>2. /\ state' \in [Vehicle -> [Maneuver -> JoinManeuverState]]
            /\ \A w \in Vehicle, n \in Maneuver : state'[w][n] \in LState => state[w][n] \in LState
        BY <3>2 DEF Typed, TypeOK, SetState, JoinManeuverState, LState
      <4>3. QED
        BY <4>1, <4>2
    <3>3. QED
      BY <2>1, <3>1, <3>2
  <2>3. TypeOK'
    BY <1>2, <2>1, <2>2 DEF Typed, TypeOK, Channels, helperVars, mergeVars, runVars
  <2>4. Led'
    BY <2>1, <2>2, Constants DEF Typed, Led, helperVars
  <2>5. QED
    BY <2>3, <2>4 DEF Typed
<1>4. CASE HandleMoveToPosition(m, u, v)
  <2>1. /\ target' = [target EXCEPT ![v][m].newFormation = Head(channel[u][v]).formation]
        /\ SetState(v, m, "J_MOVE_IN_POSITION")
        /\ UNCHANGED <<appVars, helperVars, joiner, mergeVars, runVars>>
    BY <1>4 DEF HandleMoveToPosition
  <2>2. target' \in [Vehicle -> [Maneuver ->
          [platoonId : Id, platoonLeader : Id, newFormation : Formation]]]
    <3> DEFINE t == [target[v][m] EXCEPT !.newFormation = Head(channel[u][v]).formation]
    <3>1. target[v][m] \in [platoonId : Id, platoonLeader : Id, newFormation : Formation]
      BY DEF Typed, TypeOK
    <3>2. t \in [platoonId : Id, platoonLeader : Id, newFormation : Formation]
      BY <1>2f, <3>1
    <3>3. target' = [target EXCEPT ![v][m] = t]
      BY <2>1
    <3> HIDE DEF t
    <3>4. QED
      BY <3>2, <3>3 DEF Typed, TypeOK
  <2>3. /\ state' \in [Vehicle -> [Maneuver -> JoinManeuverState]]
        /\ \A w \in Vehicle, n \in Maneuver : state'[w][n] \in LState => state[w][n] \in LState
    BY <2>1 DEF Typed, TypeOK, SetState, JoinManeuverState, LState
  <2>4. TypeOK'
    BY <1>2, <2>1, <2>2, <2>3 DEF Typed, TypeOK, Channels, appVars, helperVars, mergeVars, runVars
  <2>5. Led'
    BY <2>1, <2>3 DEF Typed, Led, appVars, helperVars
  <2>6. QED
    BY <2>4, <2>5 DEF Typed
<1>5. QED
  BY <1>3, <1>4

LEMMA TypedInPosition ==
  ASSUME Typed, NEW m \in Maneuver, NEW v \in Vehicle, OnPlatoonBeacon(m, v)
  PROVE  Typed'
<1> DEFINE msg == Msg("MoveToPositionAck", target[v][m].platoonId, target[v][m].newFormation)
<1>1. /\ channel' = Send(channel, v, Head(target[v][m].newFormation), msg)
      /\ SetState(v, m, "J_WAIT_JOIN")
      /\ UNCHANGED <<appVars, helperVars, target, joiner, mergeVars, runVars>>
  BY DEF OnPlatoonBeacon
<1>2. msg \in Message
  BY Kinds, MsgType DEF Typed, TypeOK
<1>3. channel' \in Channels
  BY <1>1, <1>2, SendChannels DEF Typed, TypeOK, Channels
<1>4. /\ state' \in [Vehicle -> [Maneuver -> JoinManeuverState]]
      /\ \A w \in Vehicle, n \in Maneuver : state'[w][n] \in LState => state[w][n] \in LState
  BY <1>1 DEF Typed, TypeOK, SetState, JoinManeuverState, LState
<1>5. TypeOK'
  BY <1>1, <1>3, <1>4 DEF Typed, TypeOK, Channels, appVars, helperVars, mergeVars, runVars
<1>6. Led'
  BY <1>1, <1>4 DEF Typed, Led, appVars, helperVars
<1>7. QED
  BY <1>5, <1>6 DEF Typed

LEMMA TypedJoin ==
  ASSUME Typed, NEW m \in Maneuver, NEW u \in Vehicle, NEW v \in Vehicle,
         HandleJoinFormation(m, u, v)
  PROVE  Typed'
<1> DEFINE msg == Head(channel[u][v])
           ack == Msg("JoinFormationAck", msg.platoonId, msg.formation)
<1>1. /\ channel[u][v] # <<>>
      /\ platoonId' = [platoonId EXCEPT ![v] = msg.platoonId]
      /\ formation' = [formation EXCEPT ![v] = msg.formation]
      /\ channel' = Send(Dequeue(u, v), v, Head(msg.formation), ack)
      /\ role' = [role EXCEPT ![v] = "FOLLOWER"]
      /\ state' = [state EXCEPT ![v][m] = "IDLE"]
      /\ active' = [active EXCEPT ![v] = "none"]
      /\ checkDistance' = [checkDistance EXCEPT ![v] = @ \/ m = "merge"]
      /\ UNCHANGED <<target, joiner, old, runVars>>
  BY DEF HandleJoinFormation, Receives, SetFormation, SetRole, SetState, SetActive
<1>2. Dequeue(u, v) \in Channels
  BY <1>1, Received
<1>3. msg.platoonId \in Id /\ msg.formation \in Formation
  BY <1>1, Received
<1>4. ack \in Message
  BY <1>3, Kinds, MsgType
<1>5. channel' \in Channels
  BY <1>1, <1>2, <1>4, SendChannels
<1>6. /\ role' \in [Vehicle -> Role] /\ active' \in [Vehicle -> Maneuver \cup {"none"}]
      /\ platoonId' \in [Vehicle -> Id] /\ formation' \in [Vehicle -> Formation]
      /\ checkDistance' \in [Vehicle -> BOOLEAN]
  BY <1>1, <1>3 DEF Typed, TypeOK, Role
<1>7. /\ state' \in [Vehicle -> [Maneuver -> JoinManeuverState]]
      /\ \A w \in Vehicle, n \in Maneuver : state'[w][n] \in LState => state[w][n] \in LState
  BY <1>1, SMTT(30) DEF Typed, TypeOK, JoinManeuverState, LState
<1>8. TypeOK'
  BY <1>1, <1>5, <1>6, <1>7 DEF Typed, TypeOK, Channels, runVars
<1>9. \A w \in Vehicle : role'[w] # "FOLLOWER" => role[w] # "FOLLOWER" /\ formation'[w] = formation[w]
  BY <1>1 DEF Typed, TypeOK
<1>10. Led'
  BY <1>1, <1>7, <1>9, Constants DEF Typed, Led
<1>11. QED
  BY <1>8, <1>10 DEF Typed

LEMMA TypedCheckDistance ==
  ASSUME Typed, NEW v \in Vehicle, CheckDistance(v)
  PROVE  Typed'
<1> DEFINE base == Msg("UpdatePlatoonData", old[v].platoonId, target[v]["merge"].newFormation)
           data == [base EXCEPT !.newPlatoonId = target[v]["merge"].platoonId]
<1>1. /\ checkDistance' = [checkDistance EXCEPT ![v] = FALSE]
      /\ channel' = SendToFollowers(channel, v, old[v].formation, data)
      /\ UNCHANGED <<appVars, helperVars, maneuverVars, old, runVars>>
  BY DEF CheckDistance
<1>2. "merge" \in Maneuver /\ "UpdatePlatoonData" \in MessageKind
  BY Kinds
<1>3. /\ old[v].platoonId \in Id
      /\ target[v]["merge"].newFormation \in Formation /\ target[v]["merge"].platoonId \in Id
  BY <1>2 DEF Typed, TypeOK
<1>4. base \in Message
  BY <1>2, <1>3, MsgType
<1>5. data \in Message
  BY <1>3, <1>4 DEF Message
<1>6. channel' \in Channels
  BY <1>1, <1>5, SendToFollowersChannels DEF Typed, TypeOK, Channels
<1>7. TypeOK'
  BY <1>1, <1>6 DEF Typed, TypeOK, Channels, appVars, helperVars, maneuverVars, runVars
<1>8. Led'
  BY <1>1 DEF Typed, Led, appVars, helperVars, maneuverVars
<1>9. QED
  BY <1>7, <1>8 DEF Typed

LEMMA TypedPositionAck ==
  ASSUME Typed, NEW m \in Maneuver, NEW u \in Vehicle, NEW v \in Vehicle,
         HandleMoveToPositionAck(m, u, v)
  PROVE  Typed'
<1> DEFINE msg == Msg("JoinFormation", platoonId[v], joiner[v][m].newFormation)
<1>1. /\ channel[u][v] # <<>> /\ state[v][m] = "L_WAIT_JOINER_IN_POSITION"
      /\ channel' = Send(Dequeue(u, v), v, u, msg)
      /\ state' = [state EXCEPT ![v][m] = "L_WAIT_JOINER_TO_JOIN"]
      /\ UNCHANGED <<appVars, helperVars, target, joiner, mergeVars, runVars>>
  <2>1. FromJoiner(m, u, v) /\ Receives(u, v, "MoveToPositionAck")
    BY DEF HandleMoveToPositionAck
  <2>2. state[v][m] = LeaderExpects["MoveToPositionAck"]
    BY <2>1 DEF FromJoiner, Receives
  <2>3. QED
    BY <2>1, <2>2 DEF HandleMoveToPositionAck, Receives, SetState, LeaderExpects
<1>2. Dequeue(u, v) \in Channels
  BY <1>1, Received
<1>3. msg \in Message
  <2>1. platoonId[v] \in Id /\ joiner[v][m].newFormation \in Formation
    BY DEF Typed, TypeOK
  <2>2. "JoinFormation" \in MessageKind
    BY Kinds
  <2>3. QED
    BY <2>1, <2>2, MsgType
<1>4. channel' \in Channels
  BY <1>1, <1>2, <1>3, SendChannels
<1>5. /\ state' \in [Vehicle -> [Maneuver -> JoinManeuverState]]
      /\ \A w \in Vehicle, n \in Maneuver : state'[w][n] \in LState => state[w][n] \in LState
  BY <1>1 DEF Typed, TypeOK, JoinManeuverState, LState
<1>6. TypeOK'
  BY <1>1, <1>4, <1>5 DEF Typed, TypeOK, Channels, appVars, helperVars, mergeVars, runVars
<1>7. Led'
  BY <1>1, <1>5 DEF Typed, Led, appVars, helperVars
<1>8. QED
  BY <1>6, <1>7 DEF Typed

LEMMA TypedJoined ==
  ASSUME Typed, NEW m \in Maneuver, NEW u \in Vehicle, NEW v \in Vehicle,
         HandleJoinFormationAck(m, u, v)
  PROVE  Typed'
<1> DEFINE f   == joiner[v][m].newFormation
           msg == Msg("UpdatePlatoonFormation", platoonId[v], f)
<1>1. /\ channel[u][v] # <<>> /\ state[v][m] \in LState
      /\ formation' = [formation EXCEPT ![v] = f]
      /\ channel' = SendToFollowers(Dequeue(u, v), v, f, msg)
      /\ state' = [state EXCEPT ![v][m] = "IDLE"]
      /\ active' = [active EXCEPT ![v] = "none"]
      /\ UNCHANGED <<role, platoonId, target, joiner, mergeVars, runVars>>
  <2>1. FromJoiner(m, u, v) /\ Receives(u, v, "JoinFormationAck")
    BY DEF HandleJoinFormationAck
  <2>2. state[v][m] = LeaderExpects["JoinFormationAck"]
    BY <2>1 DEF FromJoiner, Receives
  <2>3. QED
    BY <2>1, <2>2 DEF HandleJoinFormationAck, Receives, SetFormation, SetState, SetActive, LeaderExpects, LState
<1>2. Dequeue(u, v) \in Channels
  BY <1>1, Received
<1>3. f \in Formation /\ f # <<>>
  BY <1>1 DEF Typed, TypeOK, Led
<1>4. msg \in Message
  <2>1. platoonId[v] \in Id
    BY DEF Typed, TypeOK
  <2>2. "UpdatePlatoonFormation" \in MessageKind
    BY Kinds
  <2>3. QED
    BY <1>3, <2>1, <2>2, MsgType
<1>5. channel' \in Channels
  BY <1>1, <1>2, <1>4, SendToFollowersChannels
<1>6. formation' \in [Vehicle -> Formation] /\ active' \in [Vehicle -> Maneuver \cup {"none"}]
  BY <1>1, <1>3 DEF Typed, TypeOK
<1>7. /\ state' \in [Vehicle -> [Maneuver -> JoinManeuverState]]
      /\ \A w \in Vehicle, n \in Maneuver : state'[w][n] \in LState => state[w][n] \in LState
  BY <1>1 DEF Typed, TypeOK, JoinManeuverState, LState
<1>8. TypeOK'
  BY <1>1, <1>5, <1>6, <1>7 DEF Typed, TypeOK, Channels, mergeVars, runVars
<1>9. \A w \in Vehicle : formation[w] # <<>> => formation'[w] # <<>>
  BY <1>1, <1>3 DEF Typed, TypeOK
<1>10. Led'
  BY <1>1, <1>7, <1>9, Constants DEF Typed, Led
<1>11. QED
  BY <1>8, <1>10 DEF Typed

LEMMA TypedFollower ==
  ASSUME Typed, NEW u \in Vehicle, NEW v \in Vehicle,
         HandleUpdatePlatoonFormation(u, v) \/ HandleUpdatePlatoonData(u, v)
  PROVE  Typed'
<1> DEFINE msg == Head(channel[u][v])
<1>1. /\ channel[u][v] # <<>> /\ role[v] = "FOLLOWER"
      /\ formation' = [formation EXCEPT ![v] = msg.formation]
      /\ platoonId' = platoonId \/ platoonId' = [platoonId EXCEPT ![v] = msg.newPlatoonId]
      /\ channel' = Dequeue(u, v)
      /\ UNCHANGED <<appVars, maneuverVars, mergeVars, runVars>>
  BY DEF HandleUpdatePlatoonFormation, HandleUpdatePlatoonData, Receives, FromLeader, SetFormation
<1>2. channel' \in Channels /\ msg.formation \in Formation /\ msg.newPlatoonId \in Id
  BY <1>1, Received
<1>3. formation' \in [Vehicle -> Formation] /\ platoonId' \in [Vehicle -> Id]
  BY <1>1, <1>2 DEF Typed, TypeOK
<1>4. TypeOK'
  BY <1>1, <1>2, <1>3 DEF Typed, TypeOK, Channels, appVars, maneuverVars, mergeVars, runVars
<1>5. \A w \in Vehicle : role[w] # "FOLLOWER" => formation'[w] = formation[w]
  BY <1>1 DEF Typed, TypeOK
<1>6. Led'
  BY <1>1, <1>5, Constants DEF Typed, Led, appVars, maneuverVars
<1>7. QED
  BY <1>4, <1>6 DEF Typed

LEMMA TypedDisregard ==
  ASSUME Typed, NEW u \in Vehicle, NEW v \in Vehicle, Disregard(u, v)
  PROVE  Typed'
<1>1. /\ channel[u][v] # <<>> /\ channel' = Dequeue(u, v)
      /\ UNCHANGED <<appVars, helperVars, maneuverVars, old, runVars>>
  BY DEF Disregard
<1>2. channel' \in Channels
  BY <1>1, Received
<1>3. checkDistance' \in [Vehicle -> BOOLEAN]
  BY DEF Typed, TypeOK, Disregard
<1>4. TypeOK'
  BY <1>1, <1>2, <1>3 DEF Typed, TypeOK, Channels, appVars, helperVars, maneuverVars, runVars
<1>5. Led'
  BY <1>1 DEF Typed, Led, appVars, helperVars, maneuverVars
<1>6. QED
  BY <1>4, <1>5 DEF Typed

LEMMA ChosenPlatoon ==
  ASSUME NEW v \in Registered
  PROVE  LET p == CHOOSE q \in Platoons : v \in ToSet(q) IN
         p \in Platoons /\ v \in ToSet(p) /\ p \in Formation /\ p # <<>> /\ Head(p) \in Leaders
<1> DEFINE p == CHOOSE q \in Platoons : v \in ToSet(q)
<1>1. \E q \in Platoons : v \in ToSet(q)
  BY DEF Registered
<1>2. p \in Platoons /\ v \in ToSet(p)
  BY <1>1
<1>3. p \in Formation /\ p # <<>>
  BY <1>2, PlatoonsAssumption DEF Formation
<1>4. QED
  BY <1>2, <1>3 DEF Leaders

LEMMA TypedInit ==
  ASSUME Init
  PROVE  Typed
<1>1. PICK stray \in [Joiner -> {<<w>> : w \in Vehicle}] :
        formation = [v \in Vehicle |-> IF v \in Registered
                                       THEN CHOOSE p \in Platoons : v \in ToSet(p)
                                       ELSE stray[v]]
  BY DEF Init
<1>2. \A v \in Vehicle : formation[v] \in Formation /\ formation[v] # <<>>
  <2> SUFFICES ASSUME NEW v \in Vehicle
               PROVE  formation[v] \in Formation /\ formation[v] # <<>>
    OBVIOUS
  <2>1. CASE v \in Registered
    <3>1. formation[v] = CHOOSE p \in Platoons : v \in ToSet(p)
      BY <1>1, <2>1
    <3>2. QED
      BY <2>1, <3>1, ChosenPlatoon
  <2>2. CASE v \notin Registered
    <3>1. v \in Joiner /\ formation[v] = stray[v]
      BY <1>1, <2>2, VehicleAssumption
    <3>2. PICK w \in Vehicle : formation[v] = <<w>>
      BY <3>1
    <3>3. QED
      BY <3>2 DEF Formation
  <2>3. QED
    BY <2>1, <2>2
<1>3. \A v \in Registered : Head(formation[v]) \in Leaders
  <2> SUFFICES ASSUME NEW v \in Registered
               PROVE  Head(formation[v]) \in Leaders
    OBVIOUS
  <2>1. formation[v] = CHOOSE p \in Platoons : v \in ToSet(p)
    BY <1>1, VehicleAssumption
  <2>2. QED
    BY <2>1, ChosenPlatoon
<1>4. platoonId \in [Vehicle -> Id]
  BY <1>3, Constants DEF Init
<1>5. formation \in [Vehicle -> Formation]
  BY <1>1, <1>2
<1>6. /\ role \in [Vehicle -> Role] /\ active \in [Vehicle -> Maneuver \cup {"none"}]
      /\ state \in [Vehicle -> [Maneuver -> JoinManeuverState]]
      /\ checkDistance \in [Vehicle -> BOOLEAN]
      /\ starts \in [Vehicle -> 0 .. MaxStarts] /\ simulating \in BOOLEAN
  BY StartsAssumption DEF Init, Role, JoinManeuverState
<1>7. <<>> \in Formation /\ <<>> \in Seq(Message)
  BY DEF Formation
<1>8. channel \in [Vehicle -> [Vehicle -> Seq(Message)]]
  BY <1>7 DEF Init
<1>9. NoTarget \in [platoonId : Id, platoonLeader : Id, newFormation : Formation]
  BY <1>7, Constants DEF NoTarget
<1>10. NoJoiner \in [id : Vehicle \cup {None}, newFormation : Formation]
  BY <1>7 DEF NoJoiner
<1>11. [platoonId |-> None, formation |-> <<>>] \in [platoonId : Id, formation : Formation]
  BY <1>7, Constants
<1>12. /\ target \in [Vehicle -> [Maneuver ->
            [platoonId : Id, platoonLeader : Id, newFormation : Formation]]]
       /\ joiner \in [Vehicle -> [Maneuver -> [id : Vehicle \cup {None}, newFormation : Formation]]]
       /\ old \in [Vehicle -> [platoonId : Id, formation : Formation]]
  BY <1>9, <1>10, <1>11 DEF Init
<1>13. TypeOK
  BY <1>4, <1>5, <1>6, <1>8, <1>12 DEF TypeOK
<1>14. Led
  <2>1. \A v \in Vehicle, m \in Maneuver : state[v][m] \notin LState
    BY DEF Init, LState
  <2>2. QED
    BY <1>2, <2>1, Constants DEF Led
<1>15. QED
  BY <1>13, <1>14 DEF Typed

LEMMA TypedMessage ==
  ASSUME Typed, NEW u \in Vehicle, NEW v \in Vehicle, OnManeuverMessage(u, v)
  PROVE  Typed'
<1>1. ASSUME NEW m \in Maneuver,
             \/ HandleRequest(m, u, v)
             \/ HandleJoinPlatoonResponse(m, u, v)
             \/ HandleMoveToPosition(m, u, v)
             \/ HandleMoveToPositionAck(m, u, v)
             \/ HandleJoinFormation(m, u, v)
             \/ HandleJoinFormationAck(m, u, v)
      PROVE  Typed'
  BY <1>1, TypedRequest, TypedJoinerReply, TypedPositionAck, TypedJoin, TypedJoined
<1>2. CASE HandleUpdatePlatoonFormation(u, v) \/ HandleUpdatePlatoonData(u, v)
  BY <1>2, TypedFollower
<1>3. CASE Disregard(u, v)
  BY <1>3, TypedDisregard
<1>4. QED
  BY <1>1, <1>2, <1>3 DEF OnManeuverMessage

LEMMA TypedNext ==
  ASSUME Typed, [Next]_vars
  PROVE  Typed'
<1>1. CASE Start
  <2>1. "join" \in Maneuver /\ "merge" \in Maneuver
    BY Kinds
  <2>2. ASSUME NEW v \in Joiner, NEW leader \in Target, StartManeuver("join", v, leader)
        PROVE  Typed'
    <3>1. v \in Vehicle /\ ("join" = "merge" => v \in Leaders)
      BY Constants
    <3>2. QED
      BY <2>1, <2>2, <3>1, TypedStart
  <2>3. ASSUME NEW v \in Merger, NEW leader \in Target, StartManeuver("merge", v, leader)
        PROVE  Typed'
    <3>1. v \in Vehicle /\ v \in Leaders
      BY Constants
    <3>2. QED
      BY <2>1, <2>3, <3>1, TypedStart
  <2>4. QED
    BY <1>1, <2>2, <2>3 DEF Start
<1>2. ASSUME NEW u \in Vehicle, NEW v \in Vehicle, OnManeuverMessage(u, v)
      PROVE  Typed'
  BY <1>2, TypedMessage
<1>3. ASSUME NEW u \in Vehicle, NEW v \in Vehicle, OnFailedTransmissionAttempt(u, v)
      PROVE  Typed'
  BY <1>3 DEF OnFailedTransmissionAttempt, Typed, TypeOK, Led, appVars, helperVars, maneuverVars, mergeVars
<1>4. ASSUME NEW v \in Vehicle, CheckDistance(v)
      PROVE  Typed'
  BY <1>4, TypedCheckDistance
<1>5. ASSUME NEW v \in Vehicle, NEW m \in Maneuver, OnPlatoonBeacon(m, v)
      PROVE  Typed'
  BY <1>5, TypedInPosition
<1>6. CASE UNCHANGED vars
  BY <1>6 DEF vars, Typed, TypeOK, Led, appVars, helperVars, maneuverVars, mergeVars, runVars
<1>7. QED
  BY <1>1, <1>2, <1>3, <1>4, <1>5, <1>6 DEF Next

(* Roles, manoeuvres, formations and messages keep their types.            *)
THEOREM TypeCorrect == Spec => []TypeOK
<1>1. Init => Typed
  BY TypedInit
<1>2. Typed /\ [Next]_vars => Typed'
  BY TypedNext
<1>3. Typed => TypeOK
  BY DEF Typed
<1>4. QED
  BY <1>1, <1>2, <1>3, PTL DEF Spec

-----------------------------------------------------------------------------
(* The invariant of the handshake *)

JState == {"J_WAIT_REPLY", "J_WAIT_INFORMATION", "J_MOVE_IN_POSITION", "J_WAIT_JOIN"}

Asks(v, l)  == Ask(channel[v][l])
Tells(v, l) == Tell(channel[l][v])

(* What the vehicle v knows of its own manoeuvre m. *)
AsJoiner(v, m) ==
  /\ role[v] = "JOINER" /\ state[v][m] \in JState
  /\ v \in IF m = "join" THEN Joiner ELSE Leaders
  /\ target[v][m].platoonLeader \in Leaders \ {v}
  /\ target[v][m].platoonId = target[v][m].platoonLeader

AsLeader(v, m) ==
  /\ role[v] = "LEADER" /\ state[v][m] \in LState
  /\ joiner[v][m].newFormation # <<>>
  /\ Head(joiner[v][m].newFormation) = v

(* One manoeuvre at a time; a leader leads the platoon of its name.        *)
Local(v) ==
  /\ active[v] = "none" =>
       role[v] # "JOINER" /\ \A m \in Maneuver : state[v][m] = "IDLE"
  /\ \A m \in Maneuver : active[v] = m =>
       /\ \A n \in Maneuver : n # m => state[v][n] = "IDLE"
       /\ AsJoiner(v, m) \/ AsLeader(v, m)
  /\ v \in Leaders /\ role[v] # "FOLLOWER" =>
       platoonId[v] = v /\ formation[v] # <<>> /\ LeaderId(v) = v
  /\ v \notin Leaders =>
       role[v] # "LEADER" /\ (role[v] # "FOLLOWER" => v \in Joiner /\ platoonId[v] = None)

(* v is the joiner of l, in the state s; l is the leader that serves v.    *)
At(v, m, l, s) ==
  /\ role[v] = "JOINER" /\ active[v] = m /\ state[v][m] = s
  /\ target[v][m].platoonLeader = l

ServesIn(l, m, v, s) ==
  role[l] = "LEADER" /\ active[l] = m /\ joiner[l][m].id = v /\ state[l][m] = s

Serves(l, v) == \E m \in Maneuver, s \in LState : ServesIn(l, m, v, s)

Company(v, m) == IF m = "merge" THEN Tail(formation[v]) ELSE <<>>
Offer(l, m)   == joiner[l][m].newFormation

(* The messages of the handshake between v and l.                          *)
Demand(v, l, m) == Msg(Request[m], l, Company(v, m))
Denial(l)       == Msg("JoinPlatoonResponse", l, <<>>)
Permission(l)   == [Msg("JoinPlatoonResponse", l, <<>>) EXCEPT !.permitted = TRUE]
Place(l, m)     == Msg("MoveToPosition", l, Offer(l, m))
Placed(l, m)    == Msg("MoveToPositionAck", l, Offer(l, m))
Welcome(l, m)   == Msg("JoinFormation", l, Offer(l, m))
Thanks(l, m)    == Msg("JoinFormationAck", l, Offer(l, m))

(* The stages. *)
Strangers(v, l) ==
  /\ Asks(v, l) = {} /\ Tells(v, l) = {} /\ ~Serves(l, v)
  /\ \A m \in Maneuver, s \in JState : At(v, m, l, s) => s = "J_WAIT_REPLY"

Requesting(v, l, m) ==
  /\ ~Serves(l, v) /\ At(v, m, l, "J_WAIT_REPLY")
  /\ Asks(v, l) = {Demand(v, l, m)} /\ Tells(v, l) = {}

Refused(v, l, m) ==
  /\ ~Serves(l, v) /\ At(v, m, l, "J_WAIT_REPLY")
  /\ Asks(v, l) = {} /\ Tells(v, l) = {Denial(l)}

Permitted(v, l, m) ==
  /\ At(v, m, l, "J_WAIT_REPLY") /\ ServesIn(l, m, v, "L_WAIT_JOINER_IN_POSITION")
  /\ Asks(v, l) = {} /\ Tells(v, l) = {Permission(l), Place(l, m)}

Informed(v, l, m) ==
  /\ At(v, m, l, "J_WAIT_INFORMATION") /\ ServesIn(l, m, v, "L_WAIT_JOINER_IN_POSITION")
  /\ Asks(v, l) = {} /\ Tells(v, l) = {Place(l, m)}

Approaching(v, l, m) ==
  /\ At(v, m, l, "J_MOVE_IN_POSITION") /\ ServesIn(l, m, v, "L_WAIT_JOINER_IN_POSITION")
  /\ Asks(v, l) = {} /\ Tells(v, l) = {}
  /\ target[v][m].newFormation = Offer(l, m)

InPosition(v, l, m) ==
  /\ At(v, m, l, "J_WAIT_JOIN") /\ ServesIn(l, m, v, "L_WAIT_JOINER_IN_POSITION")
  /\ Asks(v, l) = {Placed(l, m)} /\ Tells(v, l) = {}
  /\ target[v][m].newFormation = Offer(l, m)

Joining(v, l, m) ==
  /\ At(v, m, l, "J_WAIT_JOIN") /\ ServesIn(l, m, v, "L_WAIT_JOINER_TO_JOIN")
  /\ Asks(v, l) = {} /\ Tells(v, l) = {Welcome(l, m)}
  /\ target[v][m].newFormation = Offer(l, m)

Joined(v, l, m) ==
  /\ role[v] = "FOLLOWER" /\ target[v][m].platoonLeader = l
  /\ ServesIn(l, m, v, "L_WAIT_JOINER_TO_JOIN")
  /\ Asks(v, l) = {Thanks(l, m)} /\ Tells(v, l) = {}
  /\ target[v][m].newFormation = Offer(l, m)

Waiting(v, l, m) == Requesting(v, l, m) \/ Refused(v, l, m)
InService(v, l, m) ==
  \/ Permitted(v, l, m) \/ Informed(v, l, m) \/ Approaching(v, l, m)
  \/ InPosition(v, l, m) \/ Joining(v, l, m) \/ Joined(v, l, m)

Stage(v, l) == Strangers(v, l) \/ \E m \in Maneuver : Waiting(v, l, m) \/ InService(v, l, m)

Handshake ==
  /\ \A u, v \in Vehicle : Orderly(channel[u][v])
  /\ \A v \in Vehicle : Local(v)
  /\ \A v, l \in Vehicle : Stage(v, l)

-----------------------------------------------------------------------------
(* Reading the stage off what v and l hold *)

LEMMA MessagesDiffer ==
  ASSUME NEW v, NEW l, NEW m \in Maneuver
  PROVE  /\ Demand(v, l, m).kind = Request[m] /\ Demand(v, l, m).platoonId = l
         /\ Demand(v, l, m).formation = Company(v, m)
         /\ Denial(l).kind = "JoinPlatoonResponse" /\ Denial(l).platoonId = l /\ Denial(l).permitted = FALSE
         /\ Permission(l).kind = "JoinPlatoonResponse" /\ Permission(l).platoonId = l
         /\ Permission(l).permitted = TRUE
         /\ Place(l, m).kind = "MoveToPosition" /\ Place(l, m).platoonId = l
         /\ Place(l, m).formation = Offer(l, m)
         /\ Placed(l, m).kind = "MoveToPositionAck" /\ Placed(l, m).platoonId = l
         /\ Welcome(l, m).kind = "JoinFormation" /\ Welcome(l, m).platoonId = l
         /\ Welcome(l, m).formation = Offer(l, m)
         /\ Thanks(l, m).kind = "JoinFormationAck" /\ Thanks(l, m).platoonId = l
BY DEF Demand, Denial, Permission, Place, Placed, Welcome, Thanks, Msg

LEMMA StageOfJoiner ==
  ASSUME NEW v, NEW l, NEW m \in Maneuver, NEW s \in JState, Stage(v, l), At(v, m, l, s)
  PROVE  /\ s = "J_WAIT_REPLY" => Strangers(v, l) \/ Waiting(v, l, m) \/ Permitted(v, l, m)
         /\ s = "J_WAIT_INFORMATION" => Informed(v, l, m)
         /\ s = "J_MOVE_IN_POSITION" => Approaching(v, l, m)
         /\ s = "J_WAIT_JOIN" => InPosition(v, l, m) \/ Joining(v, l, m)
<1>1. CASE Strangers(v, l)
  BY <1>1 DEF Strangers
<1>2. ASSUME NEW n \in Maneuver, Waiting(v, l, n)
      PROVE  n = m /\ s = "J_WAIT_REPLY"
  BY <1>2 DEF Waiting, Requesting, Refused, At
<1>3. ASSUME NEW n \in Maneuver, InService(v, l, n)
      PROVE  /\ n = m
             /\ s = "J_WAIT_REPLY" => Permitted(v, l, n)
             /\ s = "J_WAIT_INFORMATION" => Informed(v, l, n)
             /\ s = "J_MOVE_IN_POSITION" => Approaching(v, l, n)
             /\ s = "J_WAIT_JOIN" => InPosition(v, l, n) \/ Joining(v, l, n)
  BY <1>3 DEF InService, Permitted, Informed, Approaching, InPosition, Joining, Joined, At
<1>4. QED
  BY <1>1, <1>2, <1>3 DEF Stage

LEMMA StageOfAsk ==
  ASSUME NEW v, NEW l, Stage(v, l), NEW x \in Asks(v, l)
  PROVE  \E m \in Maneuver :
           \/ x = Demand(v, l, m) /\ Requesting(v, l, m)
           \/ x = Placed(l, m) /\ InPosition(v, l, m)
           \/ x = Thanks(l, m) /\ Joined(v, l, m)
<1>1. ~Strangers(v, l)
  BY DEF Strangers
<1>2. PICK m \in Maneuver : Waiting(v, l, m) \/ InService(v, l, m)
  BY <1>1 DEF Stage
<1>3. QED
  BY <1>2 DEF Waiting, InService, Requesting, Refused, Permitted, Informed, Approaching, InPosition,
     Joining, Joined

LEMMA StageOfTell ==
  ASSUME NEW v, NEW l, Stage(v, l), NEW x \in Tells(v, l)
  PROVE  \E m \in Maneuver :
           \/ x = Denial(l) /\ Refused(v, l, m)
           \/ x = Permission(l) /\ Permitted(v, l, m)
           \/ x = Place(l, m) /\ (Permitted(v, l, m) \/ Informed(v, l, m))
           \/ x = Welcome(l, m) /\ Joining(v, l, m)
<1>1. ~Strangers(v, l)
  BY DEF Strangers
<1>2. PICK m \in Maneuver : Waiting(v, l, m) \/ InService(v, l, m)
  BY <1>1 DEF Stage
<1>3. QED
  BY <1>2 DEF Waiting, InService, Requesting, Refused, Permitted, Informed, Approaching, InPosition,
     Joining, Joined

(* What a vehicle in a state of the handshake knows. *)
LEMMA LocalOfState ==
  ASSUME Typed, NEW v \in Vehicle, NEW m \in Maneuver, Local(v)
  PROVE  /\ state[v][m] # "IDLE" => active[v] = m
         /\ state[v][m] \in JState => AsJoiner(v, m)
         /\ state[v][m] \in LState => AsLeader(v, m)
         /\ role[v] = "JOINER" /\ Served(m, v) => active[v] = m /\ AsJoiner(v, m)
         /\ role[v] = "LEADER" => v \in Leaders /\ platoonId[v] = v /\ LeaderId(v) = v
         /\ active[v] = "none" => \A n \in Maneuver : \A w : \A s \in JState \cup LState :
              ~At(v, n, w, s) /\ ~ServesIn(v, n, w, s)
<1>1. active[v] \in Maneuver \cup {"none"}
  BY DEF Typed, TypeOK
<1>2. "none" \notin Maneuver
  BY DEF Maneuver
<1>3. QED
  BY <1>1, <1>2 DEF Local, AsJoiner, AsLeader, JState, LState, Served, At, ServesIn

-----------------------------------------------------------------------------
(* Frame: the stages a step leaves alone *)

Same(v) ==
  /\ role'[v] = role[v] /\ active'[v] = active[v] /\ platoonId'[v] = platoonId[v]
  /\ formation'[v] = formation[v]
  /\ state'[v] = state[v] /\ target'[v] = target[v] /\ joiner'[v] = joiner[v]

SameQueues(v, l) == Asks(v, l)' = Asks(v, l) /\ Tells(v, l)' = Tells(v, l)

(* v keeps what it holds as a joiner of l; l as the leader that serves v.  *)
KeepsJoining(v, l) ==
  \A m \in Maneuver :
    /\ \A s \in JState : At(v, m, l, s)' <=> At(v, m, l, s)
    /\ \A s \in JState : At(v, m, l, s) => Company(v, m)' = Company(v, m)
    /\ role[v] = "FOLLOWER" /\ target[v][m].platoonLeader = l =>
         role'[v] = "FOLLOWER" /\ target'[v][m].platoonLeader = l
    /\ target[v][m].platoonLeader = l /\ role[v] \in {"JOINER", "FOLLOWER"} =>
         target'[v][m].newFormation = target[v][m].newFormation

KeepsServing(l, v) ==
  \A m \in Maneuver, s \in LState :
    /\ ServesIn(l, m, v, s)' <=> ServesIn(l, m, v, s)
    /\ ServesIn(l, m, v, s) => Offer(l, m)' = Offer(l, m)

LEMMA StageFrame ==
  ASSUME NEW v \in Vehicle, NEW l \in Vehicle, Stage(v, l),
         SameQueues(v, l), KeepsJoining(v, l), KeepsServing(l, v)
  PROVE  Stage(v, l)'
<1>1. Serves(l, v)' <=> Serves(l, v)
  BY DEF Serves, KeepsServing
<1>2. CASE Strangers(v, l)
  <2>1. Strangers(v, l)'
    BY <1>1, <1>2 DEF Strangers, SameQueues, KeepsJoining
  <2>2. QED
    BY <2>1 DEF Stage
<1>3. ASSUME NEW m \in Maneuver, Waiting(v, l, m)
      PROVE  Stage(v, l)'
  <2>1. "J_WAIT_REPLY" \in JState
    BY DEF JState
  <2>2. At(v, m, l, "J_WAIT_REPLY") /\ At(v, m, l, "J_WAIT_REPLY")'
    BY <1>3, <2>1 DEF Waiting, Requesting, Refused, KeepsJoining
  <2>3. Demand(v, l, m)' = Demand(v, l, m) /\ Denial(l)' = Denial(l)
    BY <2>1, <2>2 DEF Demand, Denial, KeepsJoining
  <2>4. Waiting(v, l, m)'
    BY <1>1, <1>3, <2>2, <2>3 DEF Waiting, Requesting, Refused, SameQueues
  <2>5. QED
    BY <2>4 DEF Stage
<1>4. ASSUME NEW m \in Maneuver, InService(v, l, m)
      PROVE  Stage(v, l)'
  <2>1. \A s \in JState : At(v, m, l, s)' <=> At(v, m, l, s)
    BY DEF KeepsJoining
  <2>2. \A s \in LState : ServesIn(l, m, v, s)' <=> ServesIn(l, m, v, s)
    BY DEF KeepsServing
  <2>3. \E s \in LState : ServesIn(l, m, v, s)
    BY <1>4 DEF InService, Permitted, Informed, Approaching, InPosition, Joining, Joined, LState
  <2>4. Offer(l, m)' = Offer(l, m)
    BY <2>3 DEF KeepsServing
  <2>5. /\ Permission(l)' = Permission(l) /\ Place(l, m)' = Place(l, m) /\ Placed(l, m)' = Placed(l, m)
        /\ Welcome(l, m)' = Welcome(l, m) /\ Thanks(l, m)' = Thanks(l, m)
    BY <2>4 DEF Permission, Place, Placed, Welcome, Thanks
  <2>6. target[v][m].platoonLeader = l /\ role[v] \in {"JOINER", "FOLLOWER"}
    BY <1>4 DEF InService, Permitted, Informed, Approaching, InPosition, Joining, Joined, At
  <2>7. target'[v][m].newFormation = target[v][m].newFormation
    BY <2>6 DEF KeepsJoining
  <2>8. role[v] = "FOLLOWER" => role'[v] = "FOLLOWER" /\ target'[v][m].platoonLeader = l
    BY <2>6 DEF KeepsJoining
  <2>9. CASE Permitted(v, l, m) \/ Informed(v, l, m)
    <3>1. (Permitted(v, l, m) \/ Informed(v, l, m))'
      BY <2>1, <2>2, <2>5, <2>9 DEF Permitted, Informed, SameQueues, JState, LState
    <3>2. QED
      BY <3>1 DEF Stage, InService
  <2>10. CASE Approaching(v, l, m) \/ InPosition(v, l, m) \/ Joining(v, l, m)
    <3>1. (Approaching(v, l, m) \/ InPosition(v, l, m) \/ Joining(v, l, m))'
      BY <2>1, <2>2, <2>4, <2>5, <2>7, <2>10
         DEF Approaching, InPosition, Joining, SameQueues, JState, LState
    <3>2. QED
      BY <3>1 DEF Stage, InService
  <2>11. CASE Joined(v, l, m)
    <3>1. Joined(v, l, m)'
      BY <2>2, <2>4, <2>5, <2>7, <2>8, <2>11 DEF Joined, SameQueues, LState
    <3>2. QED
      BY <3>1 DEF Stage, InService
  <2>12. QED
    BY <1>4, <2>9, <2>10, <2>11 DEF InService
<1>5. QED
  BY <1>2, <1>3, <1>4 DEF Stage

LEMMA SameKeeps ==
  ASSUME NEW v, Same(v), NEW w
  PROVE  KeepsJoining(v, w) /\ KeepsServing(v, w)
BY DEF Same, KeepsJoining, KeepsServing, At, Company, ServesIn, Offer

LEMMA SameLocal ==
  ASSUME NEW v, Same(v), Local(v)
  PROVE  Local(v)'
BY DEF Same, Local, AsJoiner, AsLeader, LeaderId

(* The joiner j of the leader l takes a step.                              *)
LEMMA JoinerFrame ==
  ASSUME NEW j \in Vehicle, NEW l \in Vehicle, Handshake,
         \A w \in Vehicle : w # j => Same(w),
         \A b \in Vehicle : KeepsServing(j, b),
         \A b \in Vehicle : b # l => KeepsJoining(j, b),
         \A a, b \in Vehicle : a # j \/ b # l => SameQueues(a, b),
         Stage(j, l)',
         Local(j)',
         \A a, b \in Vehicle : Orderly(channel[a][b])'
  PROVE  Handshake'
<1>1. ASSUME NEW a \in Vehicle, NEW b \in Vehicle, a # j \/ b # l
      PROVE  Stage(a, b)'
  <2>1. KeepsJoining(a, b)
    BY <1>1, SameKeeps
  <2>2. KeepsServing(b, a)
    BY SameKeeps
  <2>3. QED
    BY <1>1, <2>1, <2>2, StageFrame DEF Handshake
<1>2. \A w \in Vehicle : Local(w)'
  BY SameLocal DEF Handshake
<1>3. QED
  BY <1>1, <1>2 DEF Handshake

(* The leader l takes a step with the joiner j.                            *)
LEMMA LeaderFrame ==
  ASSUME NEW j \in Vehicle, NEW l \in Vehicle, Handshake,
         \A w \in Vehicle : w # l => Same(w),
         \A b \in Vehicle : KeepsJoining(l, b),
         \A a \in Vehicle : a # j => KeepsServing(l, a),
         \A a, b \in Vehicle : a # j \/ b # l => SameQueues(a, b),
         Stage(j, l)',
         Local(l)',
         \A a, b \in Vehicle : Orderly(channel[a][b])'
  PROVE  Handshake'
<1>1. ASSUME NEW a \in Vehicle, NEW b \in Vehicle, a # j \/ b # l
      PROVE  Stage(a, b)'
  <2>1. KeepsJoining(a, b)
    BY SameKeeps
  <2>2. KeepsServing(b, a)
    BY <1>1, SameKeeps
  <2>3. QED
    BY <1>1, <2>1, <2>2, StageFrame DEF Handshake
<1>2. \A w \in Vehicle : Local(w)'
  BY SameLocal DEF Handshake
<1>3. QED
  BY <1>1, <1>2 DEF Handshake

-----------------------------------------------------------------------------
(* What dequeuing and sending do to the queues *)

With(S, msg)    == S \cup {msg}
Without(S, msg) == S \ {msg}

InOrder(ch) == \A a, b \in Vehicle : Orderly(ch[a][b])

LEMMA Dequeued ==
  ASSUME channel \in Channels, InOrder(channel),
         NEW u \in Vehicle, NEW v \in Vehicle, channel[u][v] # <<>>
  PROVE  LET d == Dequeue(u, v)
             h == Head(channel[u][v])
         IN /\ d \in Channels /\ InOrder(d)
            /\ Ask(d[u][v]) = Without(Asks(u, v), h)
            /\ Tell(d[u][v]) = Without(Tells(v, u), h)
            /\ h.kind \in AskKind => h \in Asks(u, v)
            /\ h.kind \in TellKind => h \in Tells(v, u)
            /\ h.kind = "MoveToPosition" =>
                 \A x \in Tells(v, u) : x.kind # "JoinPlatoonResponse"
            /\ \A a, b \in Vehicle : a # u \/ b # v => d[a][b] = channel[a][b]
<1> DEFINE q == channel[u][v]
<1>1. q \in Seq(Message) /\ Orderly(q)
  BY DEF Channels, InOrder
<1>2. /\ Orderly(Tail(q))
      /\ Ask(Tail(q)) = Ask(q) \ {Head(q)} /\ Tell(Tail(q)) = Tell(q) \ {Head(q)}
      /\ Head(q).kind = "MoveToPosition" => \A x \in ToSet(q) : x.kind # "JoinPlatoonResponse"
  BY <1>1, TailOrderly
<1>3. Head(q) \in ToSet(q)
  BY <1>1, TailSet
<1>4. /\ Dequeue(u, v) \in Channels
      /\ \A a, b \in Vehicle :
           Dequeue(u, v)[a][b] = IF a = u /\ b = v THEN Tail(q) ELSE channel[a][b]
  BY DequeueChannels
<1>5. InOrder(Dequeue(u, v))
  BY <1>2, <1>4 DEF InOrder
<1>6. QED
  BY <1>2, <1>3, <1>4, <1>5 DEF Asks, Tells, Ask, Tell, Without

LEMMA Sent ==
  ASSUME NEW ch \in Channels, InOrder(ch), NEW v \in Vehicle, NEW w \in Vehicle,
         NEW msg \in Message,
         \A x \in Ask(ch[v][w]) \cup Tell(ch[v][w]) : x.kind # msg.kind,
         msg.kind = "JoinPlatoonResponse" => \A x \in Tell(ch[v][w]) : x.kind # "MoveToPosition"
  PROVE  LET s == Send(ch, v, w, msg)
         IN /\ s \in Channels /\ InOrder(s)
            /\ msg.kind \in AskKind => /\ Ask(s[v][w]) = With(Ask(ch[v][w]), msg)
                                       /\ Tell(s[v][w]) = Tell(ch[v][w])
            /\ msg.kind \in TellKind => /\ Tell(s[v][w]) = With(Tell(ch[v][w]), msg)
                                        /\ Ask(s[v][w]) = Ask(ch[v][w])
            /\ \A a, b \in Vehicle : a # v \/ b # w => s[a][b] = ch[a][b]
<1> DEFINE q == ch[v][w]
<1>1. q \in Seq(Message) /\ Orderly(q)
  BY DEF Channels, InOrder
<1>2. /\ Send(ch, v, w, msg) \in Channels
      /\ \A a, b \in Vehicle :
           Send(ch, v, w, msg)[a][b] = IF a = v /\ b = w THEN Append(ch[a][b], msg) ELSE ch[a][b]
  BY SendChannels
<1>3. msg.kind \in AskKind \cup TellKind => \A x \in ToSet(q) : x.kind # msg.kind
  BY DEF Ask, Tell
<1>4. msg.kind = "JoinPlatoonResponse" => \A x \in ToSet(q) : x.kind # "MoveToPosition"
  BY Kinds DEF Tell
<1>5. Orderly(Append(q, msg))
  BY <1>1, <1>3, <1>4, AppendOrderly
<1>6. InOrder(Send(ch, v, w, msg))
  BY <1>2, <1>5 DEF InOrder
<1>7. AskKind \cap TellKind = {}
  BY Kinds
<1>8. /\ Ask(Append(q, msg)) = Ask(q) \cup {x \in {msg} : x.kind \in AskKind}
      /\ Tell(Append(q, msg)) = Tell(q) \cup {x \in {msg} : x.kind \in TellKind}
  BY <1>1, AppendSet
<1>9. /\ msg.kind \in AskKind =>
            Ask(Append(q, msg)) = With(Ask(q), msg) /\ Tell(Append(q, msg)) = Tell(q)
      /\ msg.kind \in TellKind =>
            Tell(Append(q, msg)) = With(Tell(q), msg) /\ Ask(Append(q, msg)) = Ask(q)
  BY <1>7, <1>8 DEF With
<1>10. QED
  BY <1>2, <1>6, <1>9

(* A formation update is no message of the handshake. *)
LEMMA SentToFollowers ==
  ASSUME NEW ch \in Channels, InOrder(ch), NEW v \in Vehicle, NEW f,
         NEW msg \in Message, msg.kind \in UpdateKind
  PROVE  LET s == SendToFollowers(ch, v, f, msg)
         IN /\ s \in Channels /\ InOrder(s)
            /\ \A a, b \in Vehicle : Ask(s[a][b]) = Ask(ch[a][b]) /\ Tell(s[a][b]) = Tell(ch[a][b])
<1> DEFINE s == SendToFollowers(ch, v, f, msg)
<1>1. /\ s \in Channels
      /\ \A a, b \in Vehicle :
           s[a][b] = IF a = v /\ b \in ToSet(Tail(f)) THEN Append(ch[a][b], msg) ELSE ch[a][b]
  BY SendToFollowersChannels
<1>2. msg.kind \notin AskKind \cup TellKind /\ msg.kind # "JoinPlatoonResponse"
  BY Kinds
<1>3. ASSUME NEW a \in Vehicle, NEW b \in Vehicle
      PROVE  /\ Orderly(Append(ch[a][b], msg))
             /\ Ask(Append(ch[a][b], msg)) = Ask(ch[a][b])
             /\ Tell(Append(ch[a][b], msg)) = Tell(ch[a][b])
  <2>1. ch[a][b] \in Seq(Message) /\ Orderly(ch[a][b])
    BY DEF Channels, InOrder
  <2>2. Orderly(Append(ch[a][b], msg))
    BY <1>2, <2>1, AppendOrderly
  <2>3. /\ Ask(Append(ch[a][b], msg)) = Ask(ch[a][b]) \cup {x \in {msg} : x.kind \in AskKind}
        /\ Tell(Append(ch[a][b], msg)) = Tell(ch[a][b]) \cup {x \in {msg} : x.kind \in TellKind}
    BY <2>1, AppendSet
  <2>4. QED
    BY <1>2, <2>2, <2>3
<1>4. InOrder(s)
  BY <1>1, <1>3 DEF InOrder
<1>5. QED
  BY <1>1, <1>3, <1>4

-----------------------------------------------------------------------------
(* The steps of the joiner *)

Inv == Typed /\ Handshake

LEMMA InvFacts ==
  ASSUME Inv
  PROVE  /\ channel \in Channels /\ InOrder(channel)
         /\ \A v \in Vehicle : Local(v)
         /\ \A v, l \in Vehicle : Stage(v, l)
         /\ JState \cap LState = {} /\ "IDLE" \notin JState \cup LState
BY DEF Inv, Typed, TypeOK, Handshake, Channels, InOrder, JState, LState

LEMMA HandshakeStart ==
  ASSUME Inv, NEW m \in Maneuver, NEW v \in Vehicle, NEW leader \in Target,
         IF m = "join" THEN v \in Joiner ELSE v \in Leaders,
         StartManeuver(m, v, leader)
  PROVE  Handshake'
<1> DEFINE asked == [NoTarget EXCEPT !.platoonId = leader, !.platoonLeader = leader]
<1>1. /\ role[v] = IF m = "join" THEN "NONE" ELSE "LEADER"
      /\ active[v] = "none" /\ leader # v
      /\ state[v][m] = "IDLE"
      /\ active' = [active EXCEPT ![v] = m]
      /\ role' = [role EXCEPT ![v] = "JOINER"]
      /\ target' = [target EXCEPT ![v][m] = asked]
      /\ state' = [state EXCEPT ![v][m] = "J_WAIT_REPLY"]
      /\ channel' = Send(channel, v, leader, Demand(v, leader, m))
      /\ UNCHANGED <<helperVars, joiner>>
  BY DEF StartManeuver, SetActive, SetRole, SetState, Demand, Company
<1>2. leader \in Leaders /\ leader \in Vehicle /\ leader \in Id
  BY Constants
<1>3. asked.platoonId = leader /\ asked.platoonLeader = leader
  BY <1>2, AskedTarget
<1> HIDE DEF asked
<1>4. /\ role'[v] = "JOINER" /\ active'[v] = m /\ state'[v][m] = "J_WAIT_REPLY"
      /\ target'[v][m] = asked /\ platoonId'[v] = platoonId[v] /\ formation'[v] = formation[v]
      /\ \A n \in Maneuver : n # m => state'[v][n] = state[v][n]
  BY <1>1 DEF Inv, Typed, TypeOK, helperVars
<1>5. \A w \in Vehicle : w # v => Same(w)
  BY <1>1 DEF Inv, Typed, TypeOK, helperVars, Same
<1>6. \A n \in Maneuver : \A w : \A s \in JState \cup LState : ~At(v, n, w, s) /\ ~ServesIn(v, n, w, s)
  BY <1>1, InvFacts, LocalOfState DEF Inv
<1>7. \A b \in Vehicle : KeepsServing(v, b)
  BY <1>4, <1>6 DEF KeepsServing, ServesIn
<1>8. \A b \in Vehicle : b # leader => KeepsJoining(v, b)
  <2> SUFFICES ASSUME NEW b \in Vehicle, b # leader, NEW n \in Maneuver
               PROVE  /\ \A s \in JState : ~At(v, n, b, s)'
                      /\ role[v] \notin {"JOINER", "FOLLOWER"}
    BY <1>6 DEF KeepsJoining
  <2>1. CASE n = m
    BY <1>1, <1>3, <1>4, <2>1 DEF At
  <2>2. CASE n # m
    BY <1>1, <1>4, <2>2 DEF At
  <2>3. QED
    BY <2>1, <2>2
<1>9. Strangers(v, leader)
  <2>1. Stage(v, leader)
    BY <1>2, InvFacts
  <2>2. "J_WAIT_REPLY" \in JState /\ "J_WAIT_INFORMATION" \in JState
        /\ "J_MOVE_IN_POSITION" \in JState /\ "J_WAIT_JOIN" \in JState
    BY DEF JState
  <2>3. \A n \in Maneuver : ~Waiting(v, leader, n)
    BY <1>6, <2>2 DEF Waiting, Requesting, Refused
  <2>4. \A n \in Maneuver : ~InService(v, leader, n)
    BY <1>1, <1>6, <2>2 DEF InService, Permitted, Informed, Approaching, InPosition, Joining, Joined
  <2>5. QED
    BY <2>1, <2>3, <2>4 DEF Stage
<1>10. /\ channel' \in Channels /\ InOrder(channel')
       /\ Ask(channel'[v][leader]) = {Demand(v, leader, m)}
       /\ Tell(channel'[v][leader]) = Tell(channel[v][leader])
       /\ \A a, b \in Vehicle : a # v \/ b # leader => channel'[a][b] = channel[a][b]
  <2>1. Demand(v, leader, m).kind \in AskKind /\ Demand(v, leader, m).kind # "JoinPlatoonResponse"
    <3>1. Demand(v, leader, m).kind = Request[m]
      BY DEF Demand, Msg
    <3>2. Request[m] \in AskKind /\ Request[m] \notin TellKind /\ "JoinPlatoonResponse" \in TellKind
      BY Kinds, RequestKinds
    <3>3. QED
      BY <3>1, <3>2
  <2>2. Demand(v, leader, m) \in Message
    <3>1. formation[v] \in Seq(Vehicle)
      BY DEF Inv, Typed, TypeOK, Formation
    <3>2. m = "merge" => formation[v] # <<>>
      BY <1>1 DEF Inv, Typed, Led
    <3>3. Company(v, m) \in Formation
      BY <3>1, <3>2 DEF Company, Formation
    <3>4. Request[m] \in MessageKind
      BY DEF MessageKind
    <3>5. QED
      BY <1>2, <3>3, <3>4, MsgType DEF Demand
  <2>3. Ask(channel[v][leader]) = {}
    BY <1>9 DEF Strangers, Asks
  <2>4. \A x \in Tell(channel[v][leader]) : x.kind # Demand(v, leader, m).kind
    BY <2>1, Kinds DEF Tell
  <2>5. channel \in Channels /\ InOrder(channel)
    BY InvFacts
  <2>6. \A x \in Ask(channel[v][leader]) \cup Tell(channel[v][leader]) :
          x.kind # Demand(v, leader, m).kind
    BY <2>3, <2>4
  <2> DEFINE d == Demand(v, leader, m)
             s == Send(channel, v, leader, d)
  <2>7. channel' = s
    BY <1>1
  <2> HIDE DEF d
  <2>8. d \in Message /\ d.kind \in AskKind /\ d.kind # "JoinPlatoonResponse"
    BY <2>1, <2>2 DEF d
  <2>9. \A x \in Ask(channel[v][leader]) \cup Tell(channel[v][leader]) : x.kind # d.kind
    BY <2>6 DEF d
  <2>10. /\ s \in Channels /\ InOrder(s)
         /\ Ask(s[v][leader]) = With(Ask(channel[v][leader]), d)
         /\ Tell(s[v][leader]) = Tell(channel[v][leader])
         /\ \A a, b \in Vehicle : a # v \/ b # leader => s[a][b] = channel[a][b]
    BY <1>2, <2>5, <2>8, <2>9, Sent
  <2>11. With(Ask(channel[v][leader]), d) = {Demand(v, leader, m)}
    BY <2>3 DEF With, d
  <2> HIDE DEF s
  <2>12. QED
    BY <2>7, <2>10, <2>11
<1>11. \A a, b \in Vehicle : a # v \/ b # leader => SameQueues(a, b)
  BY <1>10 DEF SameQueues, Asks, Tells
<1>12. Stage(v, leader)'
  <2>1. Asks(v, leader)' = {Demand(v, leader, m)} /\ Tells(v, leader)' = {}
    BY <1>1, <1>2, <1>9, <1>10 DEF Asks, Tells, Strangers
  <2>2. Demand(v, leader, m)' = Demand(v, leader, m)
    BY <1>4 DEF Demand, Company
  <2>3. At(v, m, leader, "J_WAIT_REPLY")'
    BY <1>3, <1>4 DEF At
  <2>4. ~Serves(leader, v)'
    <3>1. Same(leader)
      BY <1>1, <1>2, <1>5
    <3>2. Serves(leader, v)' <=> Serves(leader, v)
      BY <3>1 DEF Same, Serves, ServesIn
    <3>3. QED
      BY <1>9, <3>2 DEF Strangers
  <2>5. Requesting(v, leader, m)'
    BY <2>1, <2>2, <2>3, <2>4 DEF Requesting
  <2>6. QED
    BY <2>5 DEF Stage, Waiting
<1>13. Local(v)'
  <2>1. Local(v) /\ \A n \in Maneuver : state[v][n] = "IDLE"
    BY <1>1, InvFacts DEF Local
  <2>2. AsJoiner(v, m)'
    BY <1>1, <1>2, <1>3, <1>4 DEF AsJoiner, JState
  <2>3. role'[v] # "LEADER" /\ role[v] # "FOLLOWER" /\ m # "none"
    BY <1>1, <1>4, SMTT(30) DEF Maneuver
  <2>4. QED
    BY <1>4, <2>1, <2>2, <2>3 DEF Local, LeaderId
<1>14. QED
  BY <1>2, <1>5, <1>7, <1>8, <1>10, <1>11, <1>12, <1>13, JoinerFrame DEF Inv, InOrder

(* A message of the handshake that v takes from u, its leader. *)
LEMMA Taken ==
  ASSUME Inv, NEW m \in Maneuver, NEW u \in Vehicle, NEW v \in Vehicle,
         channel[u][v] # <<>>, FromTarget(m, u, v)
  PROVE  LET h == Head(channel[u][v])
             d == Dequeue(u, v)
         IN /\ d \in Channels /\ InOrder(d)
            /\ Ask(d[u][v]) = Ask(channel[u][v])
            /\ Tell(d[u][v]) = Without(Tells(v, u), h)
            /\ \A a, b \in Vehicle : a # u \/ b # v => d[a][b] = channel[a][b]
            /\ h \in Tells(v, u) /\ h.kind \in TellKind
            /\ h.kind = "MoveToPosition" =>
                 \A x \in Tells(v, u) : x.kind # "JoinPlatoonResponse"
            /\ active[v] = m /\ AsJoiner(v, m) /\ u \in Leaders /\ u # v
            /\ At(v, m, u, JoinerExpects[h.kind])
<1> DEFINE h == Head(channel[u][v])
<1>1. channel \in Channels /\ InOrder(channel) /\ Local(v)
  BY InvFacts
<1>2. /\ h.kind \in TellKind /\ Served(m, v) /\ role[v] = "JOINER"
      /\ state[v][m] = JoinerExpects[h.kind] /\ u = target[v][m].platoonLeader
  BY SMTT(30) DEF FromTarget, TellKind
<1>3. active[v] = m /\ AsJoiner(v, m)
  BY <1>1, <1>2, LocalOfState, SMTT(30) DEF Inv
<1>4. u \in Leaders /\ u # v /\ At(v, m, u, JoinerExpects[h.kind])
  BY <1>2, <1>3 DEF AsJoiner, At
<1> DEFINE d == Dequeue(u, v)
<1>5. /\ d \in Channels /\ InOrder(d)
      /\ Ask(d[u][v]) = Without(Asks(u, v), h)
      /\ Tell(d[u][v]) = Without(Tells(v, u), h)
      /\ h.kind \in TellKind => h \in Tells(v, u)
      /\ h.kind = "MoveToPosition" => \A x \in Tells(v, u) : x.kind # "JoinPlatoonResponse"
      /\ \A a, b \in Vehicle : a # u \/ b # v => d[a][b] = channel[a][b]
  BY <1>1, Dequeued, SMTT(30)
<1>6. h \notin Asks(u, v)
  BY <1>2, Kinds DEF Asks, Ask
<1>7. Without(Asks(u, v), h) = Ask(channel[u][v])
  BY <1>6 DEF Without, Asks
<1>8. QED
  BY <1>2, <1>3, <1>4, <1>5, <1>7

LEMMA HandshakeResponse ==
  ASSUME Inv, NEW m \in Maneuver, NEW u \in Vehicle, NEW v \in Vehicle,
         HandleJoinPlatoonResponse(m, u, v)
  PROVE  Handshake'
<1> DEFINE h == Head(channel[u][v])
<1>1. /\ channel[u][v] # <<>> /\ h.kind = "JoinPlatoonResponse" /\ FromTarget(m, u, v)
      /\ channel' = Dequeue(u, v)
      /\ \/ /\ h.permitted /\ state' = [state EXCEPT ![v][m] = "J_WAIT_INFORMATION"]
            /\ UNCHANGED appVars
         \/ /\ ~h.permitted /\ state' = [state EXCEPT ![v][m] = "IDLE"]
            /\ role' = [role EXCEPT ![v] = "NONE"] /\ active' = [active EXCEPT ![v] = "none"]
      /\ UNCHANGED <<helperVars, target, joiner>>
  BY DEF HandleJoinPlatoonResponse, Receives, SetState, SetRole, SetActive
<1>2. /\ channel' \in Channels /\ InOrder(channel')
      /\ Ask(channel'[u][v]) = Ask(channel[u][v])
      /\ Tell(channel'[u][v]) = Without(Tells(v, u), h)
      /\ \A a, b \in Vehicle : a # u \/ b # v => channel'[a][b] = channel[a][b]
  BY <1>1, Taken
<1>3. /\ h \in Tells(v, u) /\ active[v] = m /\ AsJoiner(v, m) /\ u \in Leaders /\ u # v
      /\ At(v, m, u, JoinerExpects[h.kind])
  BY <1>1, Taken
<1>4. At(v, m, u, "J_WAIT_REPLY") /\ "J_WAIT_REPLY" \in JState
  BY <1>1, <1>3 DEF JoinerExpects, JState
<1>5. \/ ~h.permitted /\ Refused(v, u, m)
      \/ h = Permission(u) /\ h.permitted /\ Permitted(v, u, m)
  <2>1. PICK n \in Maneuver :
          \/ h = Denial(u) /\ Refused(v, u, n)
          \/ h = Permission(u) /\ Permitted(v, u, n)
          \/ h = Place(u, n) /\ (Permitted(v, u, n) \/ Informed(v, u, n))
          \/ h = Welcome(u, n) /\ Joining(v, u, n)
    BY <1>3, StageOfTell, InvFacts
  <2>2. \/ h = Denial(u) /\ Refused(v, u, n)
        \/ h = Permission(u) /\ Permitted(v, u, n)
    <3>1. Place(u, n).kind = "MoveToPosition" /\ Welcome(u, n).kind = "JoinFormation"
      BY DEF Place, Welcome, Msg
    <3>2. QED
      BY <1>1, <2>1, <3>1
  <2>3. n = m
    BY <1>4, <2>2 DEF Refused, Permitted, At
  <2>4. Denial(u).permitted = FALSE /\ Permission(u).permitted = TRUE
    BY DEF Denial, Permission, Msg
  <2>5. QED
    BY <2>2, <2>3, <2>4
<1>6. \A w \in Vehicle : w # v => Same(w)
  BY <1>1 DEF Inv, Typed, TypeOK, appVars, helperVars, Same
<1>7. /\ target'[v] = target[v] /\ platoonId'[v] = platoonId[v] /\ formation'[v] = formation[v]
      /\ role[v] = "JOINER" /\ role'[v] # "LEADER"
      /\ \/ role'[v] = "JOINER" /\ active'[v] = m /\ state'[v][m] = "J_WAIT_INFORMATION"
         \/ role'[v] = "NONE" /\ active'[v] = "none" /\ state'[v][m] = "IDLE"
      /\ h.permitted <=> role'[v] = "JOINER"
      /\ \A n \in Maneuver : n # m => state'[v][n] = state[v][n]
  <2>1. role[v] = "JOINER" /\ active[v] = m
    BY <1>3 DEF AsJoiner
  <2>2. CASE h.permitted
    BY <1>1, <2>1, <2>2 DEF Inv, Typed, TypeOK, appVars, helperVars
  <2>3. CASE ~h.permitted
    BY <1>1, <2>1, <2>3 DEF Inv, Typed, TypeOK, appVars, helperVars
  <2>4. QED
    BY <2>2, <2>3
<1>8. \A b \in Vehicle : KeepsServing(v, b)
  BY <1>7 DEF KeepsServing, ServesIn
<1>9. \A b \in Vehicle : b # u => KeepsJoining(v, b)
  BY <1>3, <1>4, <1>7 DEF KeepsJoining, At
<1>10. \A a, b \in Vehicle : a # v \/ b # u => SameQueues(a, b)
  BY <1>2 DEF SameQueues, Asks, Tells
<1>11. /\ Asks(v, u)' = Asks(v, u) /\ Tells(v, u)' = Without(Tells(v, u), h)
       /\ \A n \in Maneuver, s \in LState : ServesIn(u, n, v, s)' <=> ServesIn(u, n, v, s)
       /\ \A n \in Maneuver : Offer(u, n)' = Offer(u, n)
  <2>1. Asks(v, u)' = Asks(v, u) /\ Tells(v, u)' = Without(Tells(v, u), h)
    BY <1>2, <1>3 DEF Asks, Tells
  <2>2. Same(u)
    BY <1>3, <1>6
  <2>3. QED
    BY <2>1, <2>2 DEF Same, ServesIn, Offer
<1>12. Stage(v, u)'
  <2>1. CASE ~h.permitted /\ Refused(v, u, m)
    <3>1. Asks(v, u)' = {} /\ Tells(v, u)' = {}
      BY <1>3, <1>11, <2>1 DEF Refused, Without
    <3>2. ~Serves(u, v)'
      BY <1>11, <2>1 DEF Serves, Refused
    <3>3. \A n \in Maneuver, s \in JState : ~At(v, n, u, s)'
      BY <1>7, <2>1 DEF At
    <3>4. Strangers(v, u)'
      BY <3>1, <3>2, <3>3 DEF Strangers
    <3>5. QED
      BY <3>4 DEF Stage
  <2>2. CASE h = Permission(u) /\ h.permitted /\ Permitted(v, u, m)
    <3>1. Asks(v, u)' = {}
      BY <1>11, <2>2 DEF Permitted
    <3>2. Tells(v, u)' = {Place(u, m)}
      <4>1. Permission(u) # Place(u, m)
        BY <1>1, <2>2 DEF Place, Msg
      <4>2. QED
        BY <1>11, <2>2, <4>1 DEF Permitted, Without
    <3>3. Place(u, m)' = Place(u, m)
      BY <1>11 DEF Place
    <3>4. At(v, m, u, "J_WAIT_INFORMATION")'
      BY <1>4, <1>7, <2>2 DEF At
    <3>5. ServesIn(u, m, v, "L_WAIT_JOINER_IN_POSITION")'
      BY <1>11, <2>2 DEF Permitted, LState
    <3>6. Informed(v, u, m)'
      BY <3>1, <3>2, <3>3, <3>4, <3>5 DEF Informed
    <3>7. QED
      BY <3>6 DEF Stage, InService
  <2>3. QED
    BY <1>5, <2>1, <2>2
<1>13. Local(v)'
  <2>1. Local(v) /\ \A n \in Maneuver : n # m => state[v][n] = "IDLE"
    BY <1>3, InvFacts DEF Local
  <2>2. CASE role'[v] = "JOINER"
    <3>1. AsJoiner(v, m)'
      BY <1>3, <1>7, <2>2 DEF AsJoiner, JState
    <3>2. m # "none"
      BY DEF Maneuver
    <3>3. QED
      BY <1>7, <2>1, <2>2, <3>1, <3>2 DEF Local, LeaderId
  <2>3. CASE role'[v] = "NONE"
    <3>1. "none" \notin Maneuver
      BY DEF Maneuver
    <3>2. QED
      BY <1>7, <2>1, <2>3, <3>1 DEF Local, LeaderId
  <2>4. QED
    BY <1>7, <2>2, <2>3
<1>14. QED
  BY <1>2, <1>6, <1>8, <1>9, <1>10, <1>12, <1>13, JoinerFrame DEF Inv, InOrder

LEMMA HandshakeInformation ==
  ASSUME Inv, NEW m \in Maneuver, NEW u \in Vehicle, NEW v \in Vehicle,
         HandleMoveToPosition(m, u, v)
  PROVE  Handshake'
<1> DEFINE h == Head(channel[u][v])
<1>1. /\ channel[u][v] # <<>> /\ h.kind = "MoveToPosition" /\ FromTarget(m, u, v)
      /\ channel' = Dequeue(u, v)
      /\ target' = [target EXCEPT ![v][m].newFormation = h.formation]
      /\ state' = [state EXCEPT ![v][m] = "J_MOVE_IN_POSITION"]
      /\ UNCHANGED <<appVars, helperVars, joiner>>
  BY DEF HandleMoveToPosition, Receives, SetState
<1>2. /\ channel' \in Channels /\ InOrder(channel')
      /\ Ask(channel'[u][v]) = Ask(channel[u][v])
      /\ Tell(channel'[u][v]) = Without(Tells(v, u), h)
      /\ \A a, b \in Vehicle : a # u \/ b # v => channel'[a][b] = channel[a][b]
  BY <1>1, Taken
<1>3. /\ h \in Tells(v, u) /\ active[v] = m /\ AsJoiner(v, m) /\ u \in Leaders /\ u # v
      /\ At(v, m, u, JoinerExpects[h.kind])
  BY <1>1, Taken
<1>4. At(v, m, u, "J_WAIT_INFORMATION") /\ "J_WAIT_INFORMATION" \in JState
  BY <1>1, <1>3 DEF JoinerExpects, JState
<1>5. Informed(v, u, m)
  BY <1>4, StageOfJoiner, InvFacts
<1>6. \A w \in Vehicle : w # v => Same(w)
  BY <1>1 DEF Inv, Typed, TypeOK, appVars, helperVars, Same
<1>7. /\ role'[v] = role[v] /\ active'[v] = active[v]
      /\ platoonId'[v] = platoonId[v] /\ formation'[v] = formation[v]
      /\ role[v] = "JOINER"
      /\ state'[v][m] = "J_MOVE_IN_POSITION"
      /\ \A n \in Maneuver : n # m => state'[v][n] = state[v][n] /\ target'[v][n] = target[v][n]
      /\ target'[v][m].platoonLeader = target[v][m].platoonLeader
      /\ target'[v][m].platoonId = target[v][m].platoonId
      /\ target'[v][m].newFormation = h.formation
  <2>1. role[v] = "JOINER"
    BY <1>3 DEF AsJoiner
  <2>2. target[v][m] \in [platoonId : Id, platoonLeader : Id, newFormation : Formation]
    BY DEF Inv, Typed, TypeOK
  <2> DEFINE t == [target[v][m] EXCEPT !.newFormation = h.formation]
  <2>3. /\ t.platoonLeader = target[v][m].platoonLeader /\ t.platoonId = target[v][m].platoonId
        /\ t.newFormation = h.formation
    BY <2>2
  <2>4. target' = [target EXCEPT ![v][m] = t]
    BY <1>1
  <2> HIDE DEF t
  <2>5. /\ target'[v][m] = t
        /\ \A n \in Maneuver : n # m => target'[v][n] = target[v][n]
    BY <2>4 DEF Inv, Typed, TypeOK
  <2>6. /\ state'[v][m] = "J_MOVE_IN_POSITION"
        /\ \A n \in Maneuver : n # m => state'[v][n] = state[v][n]
    BY <1>1 DEF Inv, Typed, TypeOK
  <2>7. QED
    BY <1>1, <2>1, <2>3, <2>5, <2>6 DEF appVars, helperVars
<1>8. \A b \in Vehicle : KeepsServing(v, b)
  BY <1>7 DEF KeepsServing, ServesIn
<1>9. \A b \in Vehicle : b # u => KeepsJoining(v, b)
  <2> SUFFICES ASSUME NEW b \in Vehicle, b # u, NEW n \in Maneuver
               PROVE  /\ \A s \in JState : At(v, n, b, s)' <=> At(v, n, b, s)
                      /\ Company(v, n)' = Company(v, n)
                      /\ role[v] # "FOLLOWER"
                      /\ target[v][n].platoonLeader = b =>
                           target'[v][n].newFormation = target[v][n].newFormation
    BY DEF KeepsJoining
  <2>1. target[v][m].platoonLeader = u
    BY <1>4 DEF At
  <2>2. CASE n = m
    BY <1>7, <2>1, <2>2 DEF At, Company
  <2>3. CASE n # m
    BY <1>7, <2>3 DEF At, Company
  <2>4. QED
    BY <2>2, <2>3
<1>10. \A a, b \in Vehicle : a # v \/ b # u => SameQueues(a, b)
  BY <1>2 DEF SameQueues, Asks, Tells
<1>11. /\ Asks(v, u)' = Asks(v, u) /\ Tells(v, u)' = Without(Tells(v, u), h)
       /\ \A n \in Maneuver, s \in LState : ServesIn(u, n, v, s)' <=> ServesIn(u, n, v, s)
       /\ \A n \in Maneuver : Offer(u, n)' = Offer(u, n)
  <2>1. Asks(v, u)' = Asks(v, u) /\ Tells(v, u)' = Without(Tells(v, u), h)
    BY <1>2, <1>3 DEF Asks, Tells
  <2>2. Same(u)
    BY <1>3, <1>6
  <2>3. QED
    BY <2>1, <2>2 DEF Same, ServesIn, Offer
<1>12. Stage(v, u)'
  <2>1. Tells(v, u) = {Place(u, m)} /\ h = Place(u, m) /\ Asks(v, u) = {}
    BY <1>3, <1>5 DEF Informed
  <2>2. Asks(v, u)' = {} /\ Tells(v, u)' = {}
    BY <1>11, <2>1 DEF Without
  <2>3. h.formation = Offer(u, m)
    BY <2>1 DEF Place, Msg
  <2>4. At(v, m, u, "J_MOVE_IN_POSITION")'
    BY <1>4, <1>7 DEF At
  <2>5. ServesIn(u, m, v, "L_WAIT_JOINER_IN_POSITION")'
    BY <1>5, <1>11 DEF Informed, LState
  <2>6. Approaching(v, u, m)'
    BY <1>7, <1>11, <2>2, <2>3, <2>4, <2>5 DEF Approaching
  <2>7. QED
    BY <2>6 DEF Stage, InService
<1>13. Local(v)'
  <2>1. Local(v) /\ \A n \in Maneuver : n # m => state[v][n] = "IDLE"
    BY <1>3, InvFacts DEF Local
  <2>2. AsJoiner(v, m)'
    BY <1>3, <1>7 DEF AsJoiner, JState
  <2>3. m # "none"
    BY DEF Maneuver
  <2>4. QED
    BY <1>3, <1>7, <2>1, <2>2, <2>3 DEF Local, LeaderId
<1>14. QED
  BY <1>2, <1>6, <1>8, <1>9, <1>10, <1>12, <1>13, JoinerFrame DEF Inv, InOrder

LEMMA HandshakeInPosition ==
  ASSUME Inv, NEW m \in Maneuver, NEW v \in Vehicle, OnPlatoonBeacon(m, v)
  PROVE  Handshake'
<1>1. /\ state[v][m] = "J_MOVE_IN_POSITION"
      /\ channel' = Send(channel, v, Head(target[v][m].newFormation),
                         Msg("MoveToPositionAck", target[v][m].platoonId, target[v][m].newFormation))
      /\ state' = [state EXCEPT ![v][m] = "J_WAIT_JOIN"]
      /\ UNCHANGED <<appVars, helperVars, target, joiner>>
  BY DEF OnPlatoonBeacon, SetState
<1>2. active[v] = m /\ AsJoiner(v, m) /\ "J_MOVE_IN_POSITION" \in JState
  BY <1>1, InvFacts, LocalOfState DEF JState, Inv
<1> PICK u \in Leaders : u = target[v][m].platoonLeader
  BY <1>2 DEF AsJoiner
<1>3. u \in Vehicle /\ u # v /\ u \in Id /\ target[v][m].platoonId = u
  BY <1>2, Constants DEF AsJoiner
<1>4. At(v, m, u, "J_MOVE_IN_POSITION")
  BY <1>1, <1>2 DEF At, AsJoiner
<1>5. Approaching(v, u, m)
  BY <1>2, <1>3, <1>4, StageOfJoiner, InvFacts
<1>6. target[v][m].newFormation = Offer(u, m) /\ Head(Offer(u, m)) = u
  <2>1. state[u][m] \in LState
    BY <1>5 DEF Approaching, ServesIn, LState
  <2>2. AsLeader(u, m)
    BY <1>3, <2>1, InvFacts, LocalOfState DEF Inv
  <2>3. QED
    BY <1>5, <2>2 DEF Approaching, AsLeader, Offer
<1>7. channel' = Send(channel, v, u, Placed(u, m))
  BY <1>1, <1>3, <1>6 DEF Placed
<1>8. /\ channel' \in Channels /\ InOrder(channel')
      /\ Ask(channel'[v][u]) = With(Ask(channel[v][u]), Placed(u, m))
      /\ Tell(channel'[v][u]) = Tell(channel[v][u])
      /\ \A a, b \in Vehicle : a # v \/ b # u => channel'[a][b] = channel[a][b]
  <2> DEFINE d == Placed(u, m)
  <2>1. d.kind = "MoveToPositionAck"
    BY DEF Placed, Msg
  <2>2. d \in Message
    <3>1. Offer(u, m) \in Formation
      BY <1>3 DEF Inv, Typed, TypeOK, Offer
    <3>2. QED
      BY <1>3, <3>1, Kinds, MsgType DEF Placed
  <2>3. Ask(channel[v][u]) = {}
    BY <1>5 DEF Approaching, Asks
  <2> HIDE DEF d
  <2>4. \A x \in Ask(channel[v][u]) \cup Tell(channel[v][u]) : x.kind # d.kind
    BY <2>1, <2>3, Kinds DEF Tell
  <2>5. d.kind \in AskKind /\ d.kind # "JoinPlatoonResponse"
    BY <2>1, Kinds
  <2> DEFINE s == Send(channel, v, u, d)
  <2>6. /\ s \in Channels /\ InOrder(s)
        /\ Ask(s[v][u]) = With(Ask(channel[v][u]), d)
        /\ Tell(s[v][u]) = Tell(channel[v][u])
        /\ \A a, b \in Vehicle : a # v \/ b # u => s[a][b] = channel[a][b]
    BY <1>3, <2>2, <2>4, <2>5, Sent, InvFacts, SMTT(30)
  <2>7. channel' = s
    BY <1>7 DEF d
  <2> HIDE DEF s
  <2>8. QED
    BY <2>6, <2>7 DEF d
<1>9. \A w \in Vehicle : w # v => Same(w)
  BY <1>1 DEF Inv, Typed, TypeOK, appVars, helperVars, Same
<1>10. /\ role'[v] = role[v] /\ active'[v] = active[v]
       /\ platoonId'[v] = platoonId[v] /\ formation'[v] = formation[v] /\ target'[v] = target[v]
       /\ role[v] = "JOINER"
       /\ state'[v][m] = "J_WAIT_JOIN"
       /\ \A n \in Maneuver : n # m => state'[v][n] = state[v][n]
  BY <1>1, <1>2 DEF Inv, Typed, TypeOK, appVars, helperVars, AsJoiner
<1>11. \A b \in Vehicle : KeepsServing(v, b)
  BY <1>10 DEF KeepsServing, ServesIn
<1>12. \A b \in Vehicle : b # u => KeepsJoining(v, b)
  BY <1>2, <1>4, <1>10 DEF KeepsJoining, At, Company
<1>13. \A a, b \in Vehicle : a # v \/ b # u => SameQueues(a, b)
  BY <1>8 DEF SameQueues, Asks, Tells
<1>14. Stage(v, u)'
  <2>1. Same(u)
    BY <1>3, <1>9
  <2>2. Offer(u, m)' = Offer(u, m)
    BY <2>1 DEF Same, Offer
  <2>3. Asks(v, u)' = {Placed(u, m)} /\ Tells(v, u)' = {}
    BY <1>3, <1>5, <1>8 DEF Asks, Tells, Approaching, With
  <2>4. Placed(u, m)' = Placed(u, m)
    BY <2>2 DEF Placed
  <2>5. At(v, m, u, "J_WAIT_JOIN")'
    BY <1>4, <1>10 DEF At
  <2>6. ServesIn(u, m, v, "L_WAIT_JOINER_IN_POSITION")'
    BY <1>5, <2>1 DEF Approaching, Same, ServesIn
  <2>7. target'[v][m].newFormation = target[v][m].newFormation
    BY <1>10
  <2>8. InPosition(v, u, m)'
    BY <1>6, <2>2, <2>3, <2>4, <2>5, <2>6, <2>7 DEF InPosition
  <2>9. QED
    BY <2>8 DEF Stage, InService
<1>15. Local(v)'
  <2>1. Local(v) /\ \A n \in Maneuver : n # m => state[v][n] = "IDLE"
    BY <1>2, InvFacts DEF Local
  <2>2. AsJoiner(v, m)'
    BY <1>2, <1>10 DEF AsJoiner, JState
  <2>3. m # "none"
    BY DEF Maneuver
  <2>4. QED
    BY <1>2, <1>10, <2>1, <2>2, <2>3 DEF Local, LeaderId
<1>16. QED
  BY <1>3, <1>8, <1>9, <1>11, <1>12, <1>13, <1>14, <1>15, JoinerFrame DEF Inv, InOrder

(* The welcome a joiner waits for. *)
LEMMA Welcomed ==
  ASSUME Inv, NEW m \in Maneuver, NEW u \in Vehicle, NEW v \in Vehicle,
         channel[u][v] # <<>>, Head(channel[u][v]).kind = "JoinFormation", FromTarget(m, u, v)
  PROVE  LET h == Head(channel[u][v])
         IN /\ At(v, m, u, "J_WAIT_JOIN") /\ "J_WAIT_JOIN" \in JState
            /\ Joining(v, u, m) /\ h = Welcome(u, m)
            /\ h.platoonId = u /\ h.formation = Offer(u, m)
            /\ Head(Offer(u, m)) = u /\ Offer(u, m) \in Formation
<1> DEFINE h == Head(channel[u][v])
<1>1. h.kind = "JoinFormation"
  OBVIOUS
<1>2. /\ h \in Tells(v, u) /\ At(v, m, u, JoinerExpects[h.kind])
  BY Taken
<1>3. At(v, m, u, "J_WAIT_JOIN") /\ "J_WAIT_JOIN" \in JState
  BY <1>1, <1>2 DEF JoinerExpects, JState
<1>4. Joining(v, u, m) /\ h = Welcome(u, m)
  <2>1. InPosition(v, u, m) \/ Joining(v, u, m)
    BY <1>3, StageOfJoiner, InvFacts
  <2>2. QED
    BY <1>2, <2>1 DEF InPosition, Joining
<1>5. h.platoonId = u /\ h.formation = Offer(u, m)
  BY <1>4 DEF Welcome, Msg
<1>6. Head(Offer(u, m)) = u /\ Offer(u, m) \in Formation
  <2>1. state[u][m] \in LState
    BY <1>4 DEF Joining, ServesIn, LState
  <2>2. AsLeader(u, m)
    BY <2>1, InvFacts, LocalOfState DEF Inv
  <2>3. QED
    BY <2>2 DEF AsLeader, Offer, Inv, Typed, TypeOK
<1>7. QED
  BY <1>3, <1>4, <1>5, <1>6

LEMMA HandshakeJoin ==
  ASSUME Inv, NEW m \in Maneuver, NEW u \in Vehicle, NEW v \in Vehicle,
         HandleJoinFormation(m, u, v)
  PROVE  Handshake'
<1> DEFINE h == Head(channel[u][v])
<1>1. /\ channel[u][v] # <<>> /\ h.kind = "JoinFormation" /\ FromTarget(m, u, v)
      /\ channel' = Send(Dequeue(u, v), v, Head(h.formation),
                         Msg("JoinFormationAck", h.platoonId, h.formation))
      /\ platoonId' = [platoonId EXCEPT ![v] = h.platoonId]
      /\ formation' = [formation EXCEPT ![v] = h.formation]
      /\ role' = [role EXCEPT ![v] = "FOLLOWER"]
      /\ state' = [state EXCEPT ![v][m] = "IDLE"]
      /\ active' = [active EXCEPT ![v] = "none"]
      /\ UNCHANGED <<target, joiner>>
  BY DEF HandleJoinFormation, Receives, SetFormation, SetRole, SetState, SetActive
<1> DEFINE d == Dequeue(u, v)
<1>2. /\ d \in Channels /\ InOrder(d)
      /\ Ask(d[u][v]) = Ask(channel[u][v])
      /\ Tell(d[u][v]) = Without(Tells(v, u), h)
      /\ \A a, b \in Vehicle : a # u \/ b # v => d[a][b] = channel[a][b]
  BY <1>1, Taken
<1>3. /\ h \in Tells(v, u) /\ active[v] = m /\ AsJoiner(v, m) /\ u \in Leaders /\ u # v
      /\ At(v, m, u, JoinerExpects[h.kind])
  BY <1>1, Taken
<1>4. At(v, m, u, "J_WAIT_JOIN") /\ "J_WAIT_JOIN" \in JState
  BY <1>1, Welcomed
<1>5. Joining(v, u, m) /\ h = Welcome(u, m)
  BY <1>1, Welcomed
<1>6. h.platoonId = u /\ h.formation = Offer(u, m)
  BY <1>1, Welcomed
<1>7. Head(Offer(u, m)) = u /\ Offer(u, m) \in Formation
  BY <1>1, Welcomed
<1>8. channel' = Send(d, v, u, Thanks(u, m))
  <2>1. Msg("JoinFormationAck", h.platoonId, h.formation) = Thanks(u, m)
    BY <1>6 DEF Thanks
  <2>2. QED
    BY <1>1, <1>6, <1>7, <2>1
<1> HIDE DEF d
<1>9. Ask(d[v][u]) = {} /\ Tell(d[v][u]) = Tell(channel[v][u])
  BY <1>2, <1>3, <1>5 DEF Joining, Asks
<1>10. /\ channel' \in Channels /\ InOrder(channel')
       /\ Ask(channel'[v][u]) = With(Ask(d[v][u]), Thanks(u, m))
       /\ Tell(channel'[v][u]) = Tell(channel[v][u])
       /\ \A a, b \in Vehicle : a # v \/ b # u => channel'[a][b] = d[a][b]
  <2> DEFINE t == Thanks(u, m)
  <2>1. t.kind = "JoinFormationAck"
    BY DEF Thanks, Msg
  <2>2. t \in Message
    BY <1>3, <1>7, Constants, Kinds, MsgType DEF Thanks
  <2> HIDE DEF t
  <2>3. t.kind \in AskKind /\ t.kind # "JoinPlatoonResponse"
    BY <2>1, Kinds
  <2>4. \A x \in Ask(d[v][u]) \cup Tell(d[v][u]) : x.kind # t.kind
    BY <1>9, <2>1, Kinds DEF Tell
  <2> DEFINE s == Send(d, v, u, t)
  <2>5. /\ s \in Channels /\ InOrder(s)
        /\ Ask(s[v][u]) = With(Ask(d[v][u]), t)
        /\ Tell(s[v][u]) = Tell(d[v][u])
        /\ \A a, b \in Vehicle : a # v \/ b # u => s[a][b] = d[a][b]
    BY <1>2, <2>2, <2>3, <2>4, Sent
  <2>6. channel' = s
    BY <1>8 DEF t
  <2> HIDE DEF s
  <2>7. QED
    BY <1>9, <2>5, <2>6 DEF t
<1>11. \A w \in Vehicle : w # v => Same(w)
  BY <1>1 DEF Inv, Typed, TypeOK, Same
<1>12. /\ role'[v] = "FOLLOWER" /\ active'[v] = "none" /\ role[v] = "JOINER"
       /\ target'[v] = target[v]
       /\ state'[v][m] = "IDLE" /\ \A n \in Maneuver : n # m => state'[v][n] = state[v][n]
  BY <1>1, <1>3 DEF Inv, Typed, TypeOK, AsJoiner
<1>13. \A b \in Vehicle : KeepsServing(v, b)
  BY <1>12 DEF KeepsServing, ServesIn
<1>14. \A b \in Vehicle : b # u => KeepsJoining(v, b)
  <2> SUFFICES ASSUME NEW b \in Vehicle, b # u, NEW n \in Maneuver
               PROVE  /\ \A s \in JState : ~At(v, n, b, s)' /\ ~At(v, n, b, s)
                      /\ role[v] # "FOLLOWER" /\ target'[v] = target[v]
    BY DEF KeepsJoining
  <2>1. QED
    BY <1>3, <1>4, <1>12 DEF At
<1>15. \A a, b \in Vehicle : a # v \/ b # u => SameQueues(a, b)
  <2> SUFFICES ASSUME NEW a \in Vehicle, NEW b \in Vehicle, a # v \/ b # u
               PROVE  Ask(channel'[a][b]) = Ask(channel[a][b]) /\ Tell(channel'[b][a]) = Tell(channel[b][a])
    BY DEF SameQueues, Asks, Tells
  <2>1. Ask(channel'[a][b]) = Ask(channel[a][b])
    BY <1>2, <1>10
  <2>2. Tell(channel'[b][a]) = Tell(channel[b][a])
    <3>1. CASE b = v /\ a = u
      BY <1>10, <3>1
    <3>2. CASE b # v \/ a # u
      BY <1>2, <1>10, <3>2
    <3>3. QED
      BY <3>1, <3>2
  <2>3. QED
    BY <2>1, <2>2
<1>16. Stage(v, u)'
  <2>1. Same(u)
    BY <1>3, <1>11
  <2>2. Offer(u, m)' = Offer(u, m)
    BY <2>1 DEF Same, Offer
  <2>3. Asks(v, u)' = {Thanks(u, m)}
    BY <1>9, <1>10 DEF Asks, With
  <2>4. Tells(v, u)' = {}
    <3>1. Tells(v, u)' = Without(Tells(v, u), h)
      BY <1>2, <1>3, <1>10 DEF Tells
    <3>2. QED
      BY <1>5, <3>1 DEF Joining, Without
  <2>5. Thanks(u, m)' = Thanks(u, m)
    BY <2>2 DEF Thanks
  <2>6. ServesIn(u, m, v, "L_WAIT_JOINER_TO_JOIN")'
    BY <1>5, <2>1 DEF Joining, Same, ServesIn
  <2>7. target'[v][m].newFormation = Offer(u, m) /\ target'[v][m].platoonLeader = u
    BY <1>4, <1>5, <1>12 DEF Joining, At
  <2>8. Joined(v, u, m)'
    BY <1>12, <2>2, <2>3, <2>4, <2>5, <2>6, <2>7 DEF Joined
  <2>9. QED
    BY <2>8 DEF Stage, InService
<1>17. Local(v)'
  <2>1. Local(v) /\ \A n \in Maneuver : n # m => state[v][n] = "IDLE"
    BY <1>3, InvFacts DEF Local
  <2>2. "none" \notin Maneuver
    BY DEF Maneuver
  <2>3. QED
    BY <1>12, <2>1, <2>2 DEF Local
<1>18. QED
  BY <1>10, <1>11, <1>13, <1>14, <1>15, <1>16, <1>17, JoinerFrame DEF Inv, InOrder

-----------------------------------------------------------------------------
(* The steps of the leader *)

LEMMA HeadOfNewFormation ==
  ASSUME NEW f \in Seq(Vehicle), f # <<>>, NEW u \in Vehicle, NEW g \in Seq(Vehicle)
  PROVE  /\ NewFormation(f, u, g) \in Seq(Vehicle)
         /\ NewFormation(f, u, g) # <<>>
         /\ Head(NewFormation(f, u, g)) = Head(f)
<1>1. /\ Append(f, u) \in Seq(Vehicle) /\ Len(Append(f, u)) > 0
      /\ Append(f, u)[1] = f[1]
  OBVIOUS
<1>2. /\ Append(f, u) \o g \in Seq(Vehicle)
      /\ Len(Append(f, u) \o g) > 0
      /\ (Append(f, u) \o g)[1] = Append(f, u)[1]
  BY <1>1
<1>3. QED
  BY <1>1, <1>2 DEF NewFormation

(* The first message from u to v, which v takes as a leader. *)
LEMMA Read ==
  ASSUME Inv, NEW u \in Vehicle, NEW v \in Vehicle, channel[u][v] # <<>>,
         Head(channel[u][v]).kind \in AskKind
  PROVE  LET h == Head(channel[u][v])
             d == Dequeue(u, v)
         IN /\ d \in Channels /\ InOrder(d)
            /\ Ask(d[u][v]) = Without(Asks(u, v), h)
            /\ Tell(d[u][v]) = Tell(channel[u][v])
            /\ h \in Asks(u, v)
            /\ \A a, b \in Vehicle : a # u \/ b # v => d[a][b] = channel[a][b]
<1> DEFINE h == Head(channel[u][v])
           d == Dequeue(u, v)
<1>1. /\ d \in Channels /\ InOrder(d)
      /\ Ask(d[u][v]) = Without(Asks(u, v), h)
      /\ Tell(d[u][v]) = Without(Tells(v, u), h)
      /\ h.kind \in AskKind => h \in Asks(u, v)
      /\ \A a, b \in Vehicle : a # u \/ b # v => d[a][b] = channel[a][b]
  BY Dequeued, InvFacts
<1>2. h \notin Tells(v, u)
  BY Kinds DEF Tells, Tell
<1>3. Without(Tells(v, u), h) = Tell(channel[u][v])
  BY <1>2 DEF Without, Tells
<1>4. QED
  BY <1>1, <1>3

(* A request a leader takes, and the one who sent it. *)
LEMMA Requested ==
  ASSUME Inv, NEW m \in Maneuver, NEW u \in Vehicle, NEW v \in Vehicle,
         channel[u][v] # <<>>, ForMyPlatoon(m, u, v)
  PROVE  LET h == Head(channel[u][v])
         IN /\ h \in Asks(u, v)
            /\ Requesting(u, v, m) /\ h = Demand(u, v, m)
            /\ AsJoiner(u, m) /\ v \in Leaders /\ v # u /\ At(u, m, v, "J_WAIT_REPLY")
            /\ role[v] # "FOLLOWER" /\ role[v] # "JOINER" /\ platoonId[v] = v /\ LeaderId(v) = v
            /\ formation[v] # <<>> /\ formation[v] \in Seq(Vehicle)
            /\ h.platoonId = v /\ h.formation = Company(u, m) /\ h.formation \in Seq(Vehicle)
<1> DEFINE h == Head(channel[u][v])
<1>1. /\ h.kind = Request[m] /\ Served(m, v)
      /\ h.platoonId = platoonId[v] /\ role[v] \in {"LEADER", "NONE"}
  BY DEF ForMyPlatoon
<1>2. h \in Asks(u, v)
  <2>1. h.kind \in AskKind
    BY <1>1, RequestKinds
  <2>2. QED
    BY <2>1, Read
<1>3. Requesting(u, v, m) /\ h = Demand(u, v, m)
  <2>1. PICK n \in Maneuver :
          \/ h = Demand(u, v, n) /\ Requesting(u, v, n)
          \/ h = Placed(v, n) /\ InPosition(u, v, n)
          \/ h = Thanks(v, n) /\ Joined(u, v, n)
    BY <1>2, StageOfAsk, InvFacts
  <2>2. /\ Demand(u, v, n).kind = Request[n] /\ Placed(v, n).kind = "MoveToPositionAck"
        /\ Thanks(v, n).kind = "JoinFormationAck"
    BY DEF Demand, Placed, Thanks, Msg
  <2>3. Request[m] \notin {"MoveToPositionAck", "JoinFormationAck"}
    BY RequestKinds DEF LeaderExpects
  <2>4. h = Demand(u, v, n) /\ Requesting(u, v, n) /\ Request[n] = Request[m]
    BY <1>1, <2>1, <2>2, <2>3
  <2>5. QED
    BY <2>4, RequestKinds
<1>4. AsJoiner(u, m) /\ v \in Leaders /\ v # u /\ At(u, m, v, "J_WAIT_REPLY")
  <2>1. At(u, m, v, "J_WAIT_REPLY") /\ Local(u)
    BY <1>3, InvFacts DEF Requesting
  <2>2. AsJoiner(u, m)
    BY <2>1, LocalOfState DEF At, JState, Inv
  <2>3. QED
    BY <2>1, <2>2 DEF At, AsJoiner
<1>5. /\ role[v] # "FOLLOWER" /\ role[v] # "JOINER" /\ platoonId[v] = v /\ LeaderId(v) = v
      /\ formation[v] # <<>> /\ formation[v] \in Seq(Vehicle)
  BY <1>1, <1>4, InvFacts DEF Local, Inv, Typed, TypeOK, Formation
<1>6. h.platoonId = v /\ h.formation = Company(u, m) /\ h.formation \in Seq(Vehicle)
  <2>1. h.platoonId = v /\ h.formation = Company(u, m)
    BY <1>3 DEF Demand, Msg
  <2>2. h.formation \in Formation
    BY Received DEF Inv
  <2>3. QED
    BY <2>1, <2>2 DEF Formation
<1>7. QED
  BY <1>2, <1>3, <1>4, <1>5, <1>6

LEMMA Answers ==
  ASSUME NEW v \in Leaders
  PROVE  /\ Denial(v) \in Message /\ Denial(v).kind = "JoinPlatoonResponse"
         /\ Permission(v) \in Message /\ Permission(v).kind = "JoinPlatoonResponse"
<1>1. Denial(v) \in Message
  <2>1. v \in Id /\ <<>> \in Formation /\ "JoinPlatoonResponse" \in MessageKind
    BY Constants, Kinds DEF Formation
  <2>2. QED
    BY <2>1, MsgType DEF Denial
<1>2. Permission(v) = [Denial(v) EXCEPT !.permitted = TRUE]
  BY DEF Permission, Denial
<1>3. Permission(v) \in Message
  BY <1>1, <1>2 DEF Message
<1>4. QED
  BY <1>1, <1>3 DEF Denial, Permission, Msg

LEMMA HandshakeRequest ==
  ASSUME Inv, NEW m \in Maneuver, NEW u \in Vehicle, NEW v \in Vehicle,
         HandleRequest(m, u, v)
  PROVE  Handshake'
<1> DEFINE h    == Head(channel[u][v])
           d    == Dequeue(u, v)
           next == NewFormation(formation[v], u, h.formation)
<1>1. /\ channel[u][v] # <<>> /\ h.kind = Request[m] /\ Served(m, v)
      /\ h.platoonId = platoonId[v] /\ role[v] \in {"LEADER", "NONE"}
      /\ UNCHANGED <<helperVars, target>>
  BY DEF HandleRequest, Receives, ForMyPlatoon
<1>2. /\ d \in Channels /\ InOrder(d)
      /\ Ask(d[u][v]) = Without(Asks(u, v), h)
      /\ Tell(d[u][v]) = Tell(channel[u][v])
      /\ h \in Asks(u, v)
      /\ \A a, b \in Vehicle : a # u \/ b # v => d[a][b] = channel[a][b]
  <2>1. h.kind \in AskKind
    BY <1>1, RequestKinds
  <2>2. QED
    BY <1>1, <2>1, Read
<1>3. Requesting(u, v, m) /\ h = Demand(u, v, m)
  BY <1>1, Requested DEF HandleRequest
<1>4. AsJoiner(u, m) /\ v \in Leaders /\ v # u /\ At(u, m, v, "J_WAIT_REPLY")
  BY <1>1, Requested DEF HandleRequest
<1>5. /\ role[v] # "FOLLOWER" /\ role[v] # "JOINER" /\ platoonId[v] = v /\ LeaderId(v) = v
      /\ formation[v] # <<>> /\ formation[v] \in Seq(Vehicle)
  BY <1>1, Requested DEF HandleRequest
<1>6. /\ Ask(d[v][u]) = Ask(channel[v][u]) /\ Tell(d[v][u]) = {}
      /\ Asks(u, v) = {h}
  BY <1>2, <1>3, <1>4 DEF Requesting, Tells
<1>7. h.platoonId = v /\ h.formation = Company(u, m) /\ h.formation \in Seq(Vehicle)
  BY <1>1, Requested DEF HandleRequest
<1>8. next \in Formation /\ next # <<>> /\ Head(next) = v
  <2>1. Head(formation[v]) = v
    BY <1>5 DEF LeaderId
  <2>2. QED
    BY <1>5, <1>7, <2>1, HeadOfNewFormation DEF Formation
<1> HIDE DEF d, next
<1>9. /\ Denial(v) \in Message /\ Denial(v).kind = "JoinPlatoonResponse"
      /\ Permission(v) \in Message /\ Permission(v).kind = "JoinPlatoonResponse"
  BY <1>4, Answers
<1>10. CASE IsJoinAllowed(v)
  <2> DEFINE place == Msg("MoveToPosition", v, next)
             s1    == Send(d, v, u, Permission(v))
             s2    == Send(s1, v, u, place)
  <2>1. /\ active' = [active EXCEPT ![v] = m]
        /\ role' = [role EXCEPT ![v] = "LEADER"]
        /\ joiner' = [joiner EXCEPT ![v][m] = [id |-> u, newFormation |-> next]]
        /\ state' = [state EXCEPT ![v][m] = "L_WAIT_JOINER_IN_POSITION"]
        /\ channel' = s2
    <3>1. IsJoinAllowed(v) /\ active[v] = "none"
      BY <1>10 DEF IsJoinAllowed
    <3>2. /\ SetActive(v, m) /\ SetRole(v, "LEADER")
          /\ joiner' = [joiner EXCEPT ![v][m] = [id |-> u, newFormation |-> next]]
          /\ SetState(v, m, "L_WAIT_JOINER_IN_POSITION")
          /\ channel' = Grant(d, v, u, h.platoonId, next)
      BY <3>1 DEF HandleRequest, next, d
    <3>3. Grant(d, v, u, v, next) = s2
      BY DEF Grant, Permission
    <3>4. QED
      BY <1>7, <3>2, <3>3 DEF SetActive, SetRole, SetState
  <2>2. active[v] = "none"
    BY <1>10 DEF IsJoinAllowed
  <2>3. place \in Message /\ place.kind = "MoveToPosition"
    BY <1>4, <1>8, Constants, Kinds, MsgType
  <2> HIDE DEF place
  <2>4. /\ s1 \in Channels /\ InOrder(s1)
        /\ Tell(s1[v][u]) = With(Tell(d[v][u]), Permission(v))
        /\ Ask(s1[v][u]) = Ask(d[v][u])
        /\ \A a, b \in Vehicle : a # v \/ b # u => s1[a][b] = d[a][b]
    <3>1. \A x \in Ask(d[v][u]) \cup Tell(d[v][u]) : x.kind # Permission(v).kind
      BY <1>6, <1>9, Kinds DEF Ask
    <3>2. \A x \in Tell(d[v][u]) : x.kind # "MoveToPosition"
      BY <1>6
    <3>3. Permission(v).kind \in TellKind
      BY <1>9, Kinds
    <3>4. QED
      BY <1>2, <1>9, <3>1, <3>2, <3>3, Sent, SMTT(30)
  <2> HIDE DEF s1
  <2>5. /\ s2 \in Channels /\ InOrder(s2)
        /\ Tell(s2[v][u]) = With(Tell(s1[v][u]), place)
        /\ Ask(s2[v][u]) = Ask(s1[v][u])
        /\ \A a, b \in Vehicle : a # v \/ b # u => s2[a][b] = s1[a][b]
    <3>1. Tell(s1[v][u]) = {Permission(v)}
      BY <1>6, <2>4 DEF With
    <3>2. \A x \in Ask(s1[v][u]) \cup Tell(s1[v][u]) : x.kind # place.kind
      BY <1>9, <2>3, <3>1, Kinds DEF Ask
    <3>3. place.kind \in TellKind /\ place.kind # "JoinPlatoonResponse"
      BY <2>3, Kinds
    <3>4. QED
      BY <2>3, <2>4, <3>2, <3>3, Sent
  <2> HIDE DEF s2
  <2>6. \A w \in Vehicle : w # v => Same(w)
    BY <1>1, <2>1 DEF Inv, Typed, TypeOK, helperVars, Same
  <2>7. /\ role'[v] = "LEADER" /\ active'[v] = m /\ state'[v][m] = "L_WAIT_JOINER_IN_POSITION"
        /\ joiner'[v][m] = [id |-> u, newFormation |-> next]
        /\ platoonId'[v] = platoonId[v] /\ formation'[v] = formation[v] /\ target'[v] = target[v]
        /\ \A n \in Maneuver : n # m => state'[v][n] = state[v][n]
    BY <1>1, <2>1 DEF Inv, Typed, TypeOK, helperVars
  <2>8. \A n \in Maneuver : \A w : \A s \in JState \cup LState : ~At(v, n, w, s) /\ ~ServesIn(v, n, w, s)
    BY <2>2, InvFacts, LocalOfState DEF Inv
  <2>9. \A b \in Vehicle : KeepsJoining(v, b)
    BY <1>5, <2>7, <2>8 DEF KeepsJoining, At
  <2>10. \A a \in Vehicle : a # u => KeepsServing(v, a)
    <3> SUFFICES ASSUME NEW a \in Vehicle, a # u, NEW n \in Maneuver, NEW s \in LState
                 PROVE  ~ServesIn(v, n, a, s)' /\ ~ServesIn(v, n, a, s)
      BY DEF KeepsServing
    <3>1. ~ServesIn(v, n, a, s)
      BY <2>8
    <3>2. joiner'[v][m].id # a
      BY <2>7
    <3>3. ~ServesIn(v, n, a, s)'
      BY <2>7, <3>2 DEF ServesIn
    <3>4. QED
      BY <3>1, <3>3
  <2>11. \A a, b \in Vehicle : a # u \/ b # v => SameQueues(a, b)
    <3> SUFFICES ASSUME NEW a \in Vehicle, NEW b \in Vehicle, a # u \/ b # v
                 PROVE  Ask(channel'[a][b]) = Ask(channel[a][b]) /\ Tell(channel'[b][a]) = Tell(channel[b][a])
      BY DEF SameQueues, Asks, Tells
    <3>1. Ask(channel'[a][b]) = Ask(channel[a][b])
      <4>1. CASE a = v /\ b = u
        BY <1>6, <2>1, <2>4, <2>5, <4>1
      <4>2. CASE a # v \/ b # u
        BY <1>2, <2>1, <2>4, <2>5, <4>2
      <4>3. QED
        BY <4>1, <4>2
    <3>2. Tell(channel'[b][a]) = Tell(channel[b][a])
      <4>1. CASE b = u /\ a = v
        BY <1>2, <1>4, <2>1, <2>4, <2>5, <4>1
      <4>2. CASE b # u \/ a # v
        BY <1>2, <2>1, <2>4, <2>5, <4>2
      <4>3. QED
        BY <4>1, <4>2
    <3>3. QED
      BY <3>1, <3>2
  <2>12. Stage(u, v)'
    <3>1. Same(u)
      BY <1>4, <2>6
    <3>2. At(u, m, v, "J_WAIT_REPLY")'
      BY <1>4, <3>1 DEF At, Same
    <3>3. ServesIn(v, m, u, "L_WAIT_JOINER_IN_POSITION")' /\ Offer(v, m)' = next
      BY <2>7 DEF ServesIn, Offer
    <3>4. Asks(u, v)' = {}
      <4>1. Asks(u, v)' = Without(Asks(u, v), h)
        BY <1>2, <1>4, <2>1, <2>4, <2>5 DEF Asks
      <4>2. QED
        BY <1>6, <4>1 DEF Without
    <3>5. Tells(u, v)' = {Permission(v), place}
      BY <1>6, <2>1, <2>4, <2>5 DEF Tells, With
    <3>6. Place(v, m)' = place /\ Permission(v)' = Permission(v)
      BY <3>3 DEF Place, place, Permission
    <3>7. Permitted(u, v, m)'
      BY <3>2, <3>3, <3>4, <3>5, <3>6 DEF Permitted
    <3>8. QED
      BY <3>7 DEF Stage, InService
  <2>13. Local(v)'
    <3>1. Local(v) /\ \A n \in Maneuver : state[v][n] = "IDLE"
      BY <2>2, InvFacts DEF Local
    <3>2. AsLeader(v, m)'
      BY <1>8, <2>7 DEF AsLeader, LState
    <3>3. m # "none"
      BY DEF Maneuver
    <3>4. QED
      BY <1>4, <1>5, <2>7, <3>1, <3>2, <3>3 DEF Local, LeaderId
  <2>14. QED
    BY <2>1, <2>5, <2>6, <2>9, <2>10, <2>11, <2>12, <2>13, LeaderFrame DEF Inv, InOrder
<1>11. CASE ~IsJoinAllowed(v)
  <2> DEFINE s == Send(d, v, u, Denial(v))
  <2>1. channel' = s /\ UNCHANGED <<appVars, joiner, state>>
    <3>1. /\ channel' = Send(d, v, u, Msg("JoinPlatoonResponse", h.platoonId, <<>>))
          /\ UNCHANGED <<appVars, joiner, state>>
      BY <1>11 DEF HandleRequest, d
    <3>2. QED
      BY <1>7, <3>1 DEF Denial
  <2>2. /\ s \in Channels /\ InOrder(s)
        /\ Tell(s[v][u]) = With(Tell(d[v][u]), Denial(v))
        /\ Ask(s[v][u]) = Ask(d[v][u])
        /\ \A a, b \in Vehicle : a # v \/ b # u => s[a][b] = d[a][b]
    <3>1. \A x \in Ask(d[v][u]) \cup Tell(d[v][u]) : x.kind # Denial(v).kind
      BY <1>6, <1>9, Kinds DEF Ask
    <3>2. \A x \in Tell(d[v][u]) : x.kind # "MoveToPosition"
      BY <1>6
    <3>3. Denial(v).kind \in TellKind
      BY <1>9, Kinds
    <3>4. QED
      BY <1>2, <1>9, <3>1, <3>2, <3>3, Sent
  <2> HIDE DEF s
  <2>3. \A w \in Vehicle : Same(w)
    BY <1>1, <2>1 DEF appVars, helperVars, Same
  <2>4. \A a, b \in Vehicle : a # u \/ b # v => SameQueues(a, b)
    <3> SUFFICES ASSUME NEW a \in Vehicle, NEW b \in Vehicle, a # u \/ b # v
                 PROVE  Ask(channel'[a][b]) = Ask(channel[a][b]) /\ Tell(channel'[b][a]) = Tell(channel[b][a])
      BY DEF SameQueues, Asks, Tells
    <3>1. Ask(channel'[a][b]) = Ask(channel[a][b])
      <4>1. CASE a = v /\ b = u
        BY <1>6, <2>1, <2>2, <4>1
      <4>2. CASE a # v \/ b # u
        BY <1>2, <2>1, <2>2, <4>2
      <4>3. QED
        BY <4>1, <4>2
    <3>2. Tell(channel'[b][a]) = Tell(channel[b][a])
      <4>1. CASE b = u /\ a = v
        BY <1>2, <1>4, <2>1, <2>2, <4>1
      <4>2. CASE b # u \/ a # v
        BY <1>2, <2>1, <2>2, <4>2
      <4>3. QED
        BY <4>1, <4>2
    <3>3. QED
      BY <3>1, <3>2
  <2>5. Stage(u, v)'
    <3>1. Same(u) /\ Same(v)
      BY <2>3
    <3>2. At(u, m, v, "J_WAIT_REPLY")'
      BY <1>4, <3>1 DEF At, Same
    <3>3. ~Serves(v, u)'
      BY <1>3, <3>1 DEF Requesting, Serves, ServesIn, Same
    <3>4. Asks(u, v)' = {}
      <4>1. Asks(u, v)' = Without(Asks(u, v), h)
        BY <1>2, <1>4, <2>1, <2>2 DEF Asks
      <4>2. QED
        BY <1>6, <4>1 DEF Without
    <3>5. Tells(u, v)' = {Denial(v)}
      BY <1>6, <2>1, <2>2 DEF Tells, With
    <3>6. Denial(v)' = Denial(v)
      BY DEF Denial
    <3>7. Refused(u, v, m)'
      BY <3>2, <3>3, <3>4, <3>5, <3>6 DEF Refused
    <3>8. QED
      BY <3>7 DEF Stage, Waiting
  <2>6. Local(v)'
    BY <2>3, InvFacts, SameLocal
  <2>7. (\A b \in Vehicle : KeepsJoining(v, b)) /\ (\A a \in Vehicle : KeepsServing(v, a))
    BY <2>3, SameKeeps, SMTT(30)
  <2>8. QED
    BY <2>1, <2>2, <2>3, <2>4, <2>5, <2>6, <2>7, LeaderFrame DEF Inv, InOrder
<1>12. QED
  BY <1>10, <1>11

(* A message of the handshake that v takes from u, its joiner. *)
LEMMA Confirmed ==
  ASSUME Inv, NEW m \in Maneuver, NEW u \in Vehicle, NEW v \in Vehicle,
         channel[u][v] # <<>>, FromJoiner(m, u, v)
  PROVE  LET h == Head(channel[u][v])
         IN /\ h.kind \in AskKind /\ h \in Asks(u, v)
            /\ active[v] = m /\ role[v] = "LEADER" /\ AsLeader(v, m)
            /\ v \in Leaders /\ platoonId[v] = v
            /\ ServesIn(v, m, u, LeaderExpects[h.kind])
            /\ Offer(v, m) \in Formation /\ Offer(v, m) # <<>> /\ Head(Offer(v, m)) = v
            /\ h.kind = "MoveToPositionAck" => InPosition(u, v, m) /\ h = Placed(v, m)
            /\ h.kind = "JoinFormationAck" => Joined(u, v, m) /\ h = Thanks(v, m)
            /\ u # v
<1> DEFINE h == Head(channel[u][v])
<1>1. /\ h.kind \in DOMAIN LeaderExpects /\ role[v] = "LEADER" /\ state[v][m] = LeaderExpects[h.kind]
      /\ u = joiner[v][m].id
  BY SMTT(30) DEF FromJoiner
<1>2. h.kind \in {"MoveToPositionAck", "JoinFormationAck"} /\ state[v][m] \in LState
  <2>1. h.kind \in {"MoveToPositionAck", "JoinFormationAck"}
    BY <1>1 DEF LeaderExpects
  <2>2. LeaderExpects[h.kind] \in LState
    BY <2>1 DEF LeaderExpects, LState
  <2>3. QED
    BY <1>1, <2>1, <2>2, Zenon
<1>3. active[v] = m /\ AsLeader(v, m) /\ v \in Leaders /\ platoonId[v] = v
  BY <1>1, <1>2, InvFacts, LocalOfState DEF Inv
<1>4. ServesIn(v, m, u, LeaderExpects[h.kind])
  BY <1>1, <1>3 DEF ServesIn
<1>5. h.kind \in AskKind /\ h \in Asks(u, v)
  <2>1. h.kind \in AskKind
    BY <1>2, Kinds
  <2>2. QED
    BY <2>1, Read
<1>6. PICK n \in Maneuver :
        \/ h = Demand(u, v, n) /\ Requesting(u, v, n)
        \/ h = Placed(v, n) /\ InPosition(u, v, n)
        \/ h = Thanks(v, n) /\ Joined(u, v, n)
  BY <1>5, StageOfAsk, InvFacts
<1>7. h # Demand(u, v, n)
  <2>1. Demand(u, v, n).kind = Request[n]
    BY DEF Demand, Msg
  <2>2. Request[n] \notin DOMAIN LeaderExpects
    BY RequestKinds
  <2>3. QED
    BY <1>1, <2>1, <2>2
<1>8. n = m
  BY <1>3, <1>6, <1>7 DEF InPosition, Joined, ServesIn
<1>9. Placed(v, n).kind = "MoveToPositionAck" /\ Thanks(v, n).kind = "JoinFormationAck"
  BY SMTT(30) DEF Placed, Thanks, Msg
<1>10. u # v
  BY <1>1, <1>6, <1>7 DEF InPosition, Joined, At
<1>11. Offer(v, m) \in Formation /\ Offer(v, m) # <<>> /\ Head(Offer(v, m)) = v
  BY <1>3 DEF AsLeader, Offer, Inv, Typed, TypeOK
<1>12. QED
  BY <1>1, <1>3, <1>4, <1>5, <1>6, <1>7, <1>8, <1>9, <1>10, <1>11

LEMMA HandshakePositionAck ==
  ASSUME Inv, NEW m \in Maneuver, NEW u \in Vehicle, NEW v \in Vehicle,
         HandleMoveToPositionAck(m, u, v)
  PROVE  Handshake'
<1> DEFINE h == Head(channel[u][v])
           d == Dequeue(u, v)
           s == Send(d, v, u, Welcome(v, m))
<1>1. /\ channel[u][v] # <<>> /\ h.kind = "MoveToPositionAck" /\ FromJoiner(m, u, v)
      /\ channel' = Send(d, v, u, Msg("JoinFormation", platoonId[v], joiner[v][m].newFormation))
      /\ state' = [state EXCEPT ![v][m] = "L_WAIT_JOINER_TO_JOIN"]
      /\ UNCHANGED <<appVars, helperVars, target, joiner>>
  BY DEF HandleMoveToPositionAck, Receives, SetState
<1>2. /\ h.kind \in AskKind /\ h \in Asks(u, v) /\ active[v] = m /\ role[v] = "LEADER" /\ AsLeader(v, m)
      /\ v \in Leaders /\ platoonId[v] = v
      /\ InPosition(u, v, m) /\ u # v /\ h = Placed(v, m) /\ Offer(v, m) \in Formation
  BY <1>1, Confirmed
<1>3. /\ d \in Channels /\ InOrder(d)
      /\ Ask(d[u][v]) = Without(Asks(u, v), h)
      /\ Tell(d[u][v]) = Tell(channel[u][v])
      /\ \A a, b \in Vehicle : a # u \/ b # v => d[a][b] = channel[a][b]
  BY <1>1, <1>2, Read
<1>4. channel' = s
  BY <1>1, <1>2 DEF Welcome, Offer
<1> HIDE DEF d
<1>5. Tell(d[v][u]) = {} /\ Ask(d[v][u]) = Ask(channel[v][u]) /\ Ask(d[u][v]) = {}
  BY <1>2, <1>3 DEF InPosition, Tells, Without
<1>6. /\ s \in Channels /\ InOrder(s)
      /\ Tell(s[v][u]) = With(Tell(d[v][u]), Welcome(v, m))
      /\ Ask(s[v][u]) = Ask(d[v][u])
      /\ \A a, b \in Vehicle : a # v \/ b # u => s[a][b] = d[a][b]
  <2> DEFINE t == Welcome(v, m)
  <2>1. t.kind = "JoinFormation"
    BY DEF Welcome, Msg
  <2>2. t \in Message
    BY <1>2, Constants, Kinds, MsgType DEF Welcome
  <2> HIDE DEF t
  <2>3. t.kind \in TellKind /\ t.kind # "JoinPlatoonResponse"
    BY <2>1, Kinds
  <2>4. \A x \in Ask(d[v][u]) \cup Tell(d[v][u]) : x.kind # t.kind
    BY <1>5, <2>1, Kinds DEF Ask
  <2> DEFINE r == Send(d, v, u, t)
  <2>5. /\ r \in Channels /\ InOrder(r)
        /\ Tell(r[v][u]) = With(Tell(d[v][u]), t)
        /\ Ask(r[v][u]) = Ask(d[v][u])
        /\ \A a, b \in Vehicle : a # v \/ b # u => r[a][b] = d[a][b]
    BY <1>3, <2>2, <2>3, <2>4, Sent
  <2>6. r = s
    BY DEF t
  <2> HIDE DEF r, s
  <2>7. QED
    BY <2>5, <2>6 DEF t
<1> HIDE DEF s
<1>7. \A w \in Vehicle : w # v => Same(w)
  BY <1>1 DEF Inv, Typed, TypeOK, appVars, helperVars, Same
<1>8. /\ role'[v] = role[v] /\ active'[v] = active[v] /\ platoonId'[v] = platoonId[v]
      /\ formation'[v] = formation[v] /\ target'[v] = target[v] /\ joiner'[v] = joiner[v]
      /\ state'[v][m] = "L_WAIT_JOINER_TO_JOIN"
      /\ \A n \in Maneuver : n # m => state'[v][n] = state[v][n]
  BY <1>1 DEF Inv, Typed, TypeOK, appVars, helperVars
<1>9. \A b \in Vehicle : KeepsJoining(v, b)
  BY <1>2, <1>8 DEF KeepsJoining, At
<1>10. \A a \in Vehicle : a # u => KeepsServing(v, a)
  <2> SUFFICES ASSUME NEW a \in Vehicle, a # u, NEW n \in Maneuver, NEW t \in LState
               PROVE  ~ServesIn(v, n, a, t)' /\ ~ServesIn(v, n, a, t)
    BY DEF KeepsServing
  <2>1. joiner[v][m].id = u
    BY <1>2 DEF InPosition, ServesIn
  <2>2. QED
    BY <1>2, <1>8, <2>1 DEF ServesIn
<1>11. \A a, b \in Vehicle : a # u \/ b # v => SameQueues(a, b)
  <2> SUFFICES ASSUME NEW a \in Vehicle, NEW b \in Vehicle, a # u \/ b # v
               PROVE  Ask(channel'[a][b]) = Ask(channel[a][b]) /\ Tell(channel'[b][a]) = Tell(channel[b][a])
    BY DEF SameQueues, Asks, Tells
  <2>1. Ask(channel'[a][b]) = Ask(channel[a][b])
    <3>1. CASE a = v /\ b = u
      BY <1>4, <1>5, <1>6, <3>1
    <3>2. CASE a # v \/ b # u
      BY <1>3, <1>4, <1>6, <3>2
    <3>3. QED
      BY <3>1, <3>2
  <2>2. Tell(channel'[b][a]) = Tell(channel[b][a])
    <3>1. CASE b = u /\ a = v
      BY <1>2, <1>3, <1>4, <1>6, <3>1
    <3>2. CASE b # u \/ a # v
      BY <1>3, <1>4, <1>6, <3>2
    <3>3. QED
      BY <3>1, <3>2
  <2>3. QED
    BY <2>1, <2>2
<1>12. Stage(u, v)'
  <2>1. Same(u) /\ At(u, m, v, "J_WAIT_JOIN") /\ target[u][m].newFormation = Offer(v, m)
    BY <1>2, <1>7 DEF InPosition
  <2>2. At(u, m, v, "J_WAIT_JOIN")'
    BY <2>1 DEF At, Same
  <2>3. ServesIn(v, m, u, "L_WAIT_JOINER_TO_JOIN")' /\ Offer(v, m)' = Offer(v, m)
    BY <1>2, <1>8 DEF InPosition, ServesIn, Offer
  <2>4. Asks(u, v)' = {} /\ Tells(u, v)' = {Welcome(v, m)}
    BY <1>2, <1>4, <1>5, <1>6 DEF Asks, Tells, With
  <2>5. Welcome(v, m)' = Welcome(v, m)
    BY <2>3 DEF Welcome
  <2>6. target'[u][m].newFormation = Offer(v, m)
    BY <2>1 DEF Same
  <2>7. Joining(u, v, m)'
    BY <2>2, <2>3, <2>4, <2>5, <2>6 DEF Joining
  <2>8. QED
    BY <2>7 DEF Stage, InService
<1>13. Local(v)'
  <2>1. Local(v) /\ \A n \in Maneuver : n # m => state[v][n] = "IDLE"
    BY <1>2, InvFacts DEF Local
  <2>2. AsLeader(v, m)'
    BY <1>2, <1>8 DEF AsLeader, LState
  <2>3. m # "none"
    BY DEF Maneuver
  <2>4. QED
    BY <1>2, <1>8, <2>1, <2>2, <2>3 DEF Local, LeaderId
<1>14. QED
  BY <1>4, <1>6, <1>7, <1>9, <1>10, <1>11, <1>12, <1>13, LeaderFrame DEF Inv, InOrder

LEMMA HandshakeJoined ==
  ASSUME Inv, NEW m \in Maneuver, NEW u \in Vehicle, NEW v \in Vehicle,
         HandleJoinFormationAck(m, u, v)
  PROVE  Handshake'
<1> DEFINE h   == Head(channel[u][v])
           d   == Dequeue(u, v)
           upd == Msg("UpdatePlatoonFormation", platoonId[v], Offer(v, m))
           s   == SendToFollowers(d, v, Offer(v, m), upd)
<1>1. /\ channel[u][v] # <<>> /\ h.kind = "JoinFormationAck" /\ FromJoiner(m, u, v)
      /\ channel' = s
      /\ formation' = [formation EXCEPT ![v] = Offer(v, m)]
      /\ state' = [state EXCEPT ![v][m] = "IDLE"]
      /\ active' = [active EXCEPT ![v] = "none"]
      /\ UNCHANGED <<role, platoonId, target, joiner>>
  BY DEF HandleJoinFormationAck, Receives, SetFormation, SetState, SetActive, Offer
<1>2. /\ h.kind \in AskKind /\ h \in Asks(u, v) /\ active[v] = m /\ role[v] = "LEADER"
      /\ v \in Leaders /\ platoonId[v] = v
      /\ Joined(u, v, m) /\ h = Thanks(v, m)
      /\ Offer(v, m) \in Formation /\ Offer(v, m) # <<>> /\ Head(Offer(v, m)) = v
      /\ ServesIn(v, m, u, "L_WAIT_JOINER_TO_JOIN")
  BY <1>1, Confirmed DEF Joined
<1>3. /\ d \in Channels /\ InOrder(d)
      /\ Ask(d[u][v]) = Without(Asks(u, v), h)
      /\ Tell(d[u][v]) = Tell(channel[u][v])
      /\ \A a, b \in Vehicle : a # u \/ b # v => d[a][b] = channel[a][b]
  BY <1>1, <1>2, Read
<1> HIDE DEF d
<1>4. /\ s \in Channels /\ InOrder(s)
      /\ \A a, b \in Vehicle : Ask(s[a][b]) = Ask(d[a][b]) /\ Tell(s[a][b]) = Tell(d[a][b])
  <2>1. upd \in Message
    BY <1>2, Constants, Kinds, MsgType
  <2>2. upd.kind \in UpdateKind
    BY Kinds DEF Msg
  <2> HIDE DEF upd
  <2>3. QED
    BY <1>3, <2>1, <2>2, SentToFollowers
<1> HIDE DEF s
<1>5. \A w \in Vehicle : w # v => Same(w)
  BY <1>1 DEF Inv, Typed, TypeOK, Same
<1>6. /\ role'[v] = "LEADER" /\ active'[v] = "none" /\ platoonId'[v] = v
      /\ formation'[v] = Offer(v, m) /\ target'[v] = target[v]
      /\ state'[v][m] = "IDLE"
      /\ \A n \in Maneuver : n # m => state'[v][n] = state[v][n]
  BY <1>1, <1>2 DEF Inv, Typed, TypeOK
<1>7. "none" \notin Maneuver
  BY DEF Maneuver
<1>8. \A b \in Vehicle : KeepsJoining(v, b)
  BY <1>2, <1>6 DEF KeepsJoining, At
<1>9. \A a \in Vehicle, n \in Maneuver : \A t \in LState : ~ServesIn(v, n, a, t)'
  BY <1>6, <1>7 DEF ServesIn
<1>10. \A a \in Vehicle : a # u => KeepsServing(v, a)
  <2> SUFFICES ASSUME NEW a \in Vehicle, a # u, NEW n \in Maneuver, NEW t \in LState
               PROVE  ~ServesIn(v, n, a, t)
    BY <1>9 DEF KeepsServing
  <2>1. QED
    BY <1>2 DEF ServesIn
<1>11. \A a, b \in Vehicle : a # u \/ b # v => SameQueues(a, b)
  BY <1>1, <1>3, <1>4 DEF SameQueues, Asks, Tells
<1>12. Stage(u, v)'
  <2>1. Asks(u, v)' = {}
    <3>1. Asks(u, v)' = Without(Asks(u, v), h)
      BY <1>1, <1>3, <1>4 DEF Asks
    <3>2. QED
      BY <1>2, <3>1 DEF Joined, Without
  <2>2. Tells(u, v)' = {}
    <3>1. Tells(u, v)' = Tells(u, v)
      BY <1>1, <1>3, <1>4 DEF Tells
    <3>2. QED
      BY <1>2, <3>1 DEF Joined
  <2>3. ~Serves(v, u)'
    BY <1>9 DEF Serves
  <2>4. role'[u] = "FOLLOWER"
    BY <1>1, <1>2 DEF Joined
  <2>5. Strangers(u, v)'
    BY <2>1, <2>2, <2>3, <2>4 DEF Strangers, At
  <2>6. QED
    BY <2>5 DEF Stage
<1>13. Local(v)'
  <2>1. Local(v) /\ \A n \in Maneuver : n # m => state[v][n] = "IDLE"
    BY <1>2, InvFacts DEF Local
  <2>2. QED
    BY <1>2, <1>6, <1>7, <2>1 DEF Local, LeaderId
<1>14. QED
  BY <1>1, <1>4, <1>5, <1>8, <1>10, <1>11, <1>12, <1>13, LeaderFrame DEF Inv, InOrder

-----------------------------------------------------------------------------
(* The steps of the followers, and messages nobody waits for *)

(* A step that touches neither the handshake's variables nor its messages. *)
LEMMA QuietFrame ==
  ASSUME Inv, InOrder(channel'),
         \A a, b \in Vehicle :
           Ask(channel'[a][b]) = Ask(channel[a][b]) /\ Tell(channel'[a][b]) = Tell(channel[a][b]),
         \A w \in Vehicle :
           \/ Same(w)
           \/ /\ role[w] = "FOLLOWER" /\ role'[w] = "FOLLOWER"
              /\ active'[w] = active[w] /\ state'[w] = state[w]
              /\ target'[w] = target[w] /\ joiner'[w] = joiner[w]
  PROVE  Handshake'
<1>1. ASSUME NEW w \in Vehicle
      PROVE  /\ Local(w)'
             /\ \A b \in Vehicle : KeepsJoining(w, b) /\ KeepsServing(w, b)
  <2>1. CASE Same(w)
    BY <2>1, SameKeeps, SameLocal, InvFacts
  <2>2. CASE /\ role[w] = "FOLLOWER" /\ role'[w] = "FOLLOWER"
             /\ active'[w] = active[w] /\ state'[w] = state[w]
             /\ target'[w] = target[w] /\ joiner'[w] = joiner[w]
    <3>1. Local(w)
      BY InvFacts
    <3>2. Local(w)'
      BY <2>2, <3>1 DEF Local, AsJoiner, AsLeader
    <3>3. \A b \in Vehicle : KeepsJoining(w, b) /\ KeepsServing(w, b)
      BY <2>2 DEF KeepsJoining, KeepsServing, At, ServesIn
    <3>4. QED
      BY <3>2, <3>3
  <2>3. QED
    BY <2>1, <2>2
<1>2. \A a, b \in Vehicle : SameQueues(a, b)
  BY DEF SameQueues, Asks, Tells
<1>3. \A a, b \in Vehicle : Stage(a, b)'
  BY <1>1, <1>2, StageFrame, InvFacts
<1>4. QED
  BY <1>1, <1>3 DEF Handshake, InOrder

LEMMA HandshakeFollower ==
  ASSUME Inv, NEW u \in Vehicle, NEW v \in Vehicle,
         HandleUpdatePlatoonFormation(u, v) \/ HandleUpdatePlatoonData(u, v)
  PROVE  Handshake'
<1> DEFINE h == Head(channel[u][v])
           d == Dequeue(u, v)
<1>1. /\ channel[u][v] # <<>> /\ h.kind \in UpdateKind /\ role[v] = "FOLLOWER"
      /\ formation' = [formation EXCEPT ![v] = h.formation]
      /\ platoonId' = platoonId \/ platoonId' = [platoonId EXCEPT ![v] = h.newPlatoonId]
      /\ channel' = d
      /\ UNCHANGED <<appVars, maneuverVars>>
  BY DEF HandleUpdatePlatoonFormation, HandleUpdatePlatoonData, Receives, FromLeader, SetFormation
<1>2. /\ InOrder(d)
      /\ Ask(d[u][v]) = Without(Asks(u, v), h) /\ Tell(d[u][v]) = Without(Tells(v, u), h)
      /\ \A a, b \in Vehicle : a # u \/ b # v => d[a][b] = channel[a][b]
  BY <1>1, Dequeued, InvFacts
<1>3. Without(Asks(u, v), h) = Ask(channel[u][v]) /\ Without(Tells(v, u), h) = Tell(channel[u][v])
  BY <1>1, Kinds DEF Without, Asks, Tells, Ask, Tell
<1>4. \A a, b \in Vehicle :
        Ask(channel'[a][b]) = Ask(channel[a][b]) /\ Tell(channel'[a][b]) = Tell(channel[a][b])
  BY <1>1, <1>2, <1>3
<1>5. \A w \in Vehicle : w # v => Same(w)
  BY <1>1 DEF Inv, Typed, TypeOK, appVars, maneuverVars, Same
<1>6. /\ role'[v] = "FOLLOWER" /\ active'[v] = active[v] /\ state'[v] = state[v]
      /\ target'[v] = target[v] /\ joiner'[v] = joiner[v]
  BY <1>1 DEF appVars, maneuverVars
<1>7. InOrder(channel')
  BY <1>1, <1>2
<1>8. QED
  BY <1>1, <1>4, <1>5, <1>6, <1>7, QuietFrame

LEMMA HandshakeCheckDistance ==
  ASSUME Inv, NEW v \in Vehicle, CheckDistance(v)
  PROVE  Handshake'
<1> DEFINE base == Msg("UpdatePlatoonData", old[v].platoonId, target[v]["merge"].newFormation)
           data == [base EXCEPT !.newPlatoonId = target[v]["merge"].platoonId]
           s    == SendToFollowers(channel, v, old[v].formation, data)
<1>1. channel' = s /\ UNCHANGED <<appVars, helperVars, maneuverVars>>
  BY DEF CheckDistance
<1>2. data \in Message /\ data.kind \in UpdateKind
  <2>1. /\ old[v].platoonId \in Id
        /\ target[v]["merge"].newFormation \in Formation /\ target[v]["merge"].platoonId \in Id
    BY Kinds DEF Inv, Typed, TypeOK
  <2>2. base \in Message
    BY <2>1, Kinds, MsgType
  <2>3. base.kind \in UpdateKind
    BY Kinds DEF Msg
  <2> HIDE DEF base
  <2>4. QED
    BY <2>1, <2>2, <2>3 DEF Message
<1> HIDE DEF data
<1>3. /\ InOrder(s)
      /\ \A a, b \in Vehicle : Ask(s[a][b]) = Ask(channel[a][b]) /\ Tell(s[a][b]) = Tell(channel[a][b])
  BY <1>2, SentToFollowers, InvFacts
<1> HIDE DEF s
<1>4. \A w \in Vehicle : Same(w)
  BY <1>1 DEF appVars, helperVars, maneuverVars, Same
<1>5. QED
  BY <1>1, <1>3, <1>4, QuietFrame

(* Whoever takes part in a handshake waits for each message of the other,  *)
(* so that only requests and formation updates are disregarded.            *)
LEMMA OnlyRequestsDisregarded ==
  ASSUME Inv, NEW u \in Vehicle, NEW v \in Vehicle, channel[u][v] # <<>>, ~Wanted(u, v)
  PROVE  LET h == Head(channel[u][v])
         IN \/ h.kind \in UpdateKind
            \/ \E m \in Maneuver : h = Demand(u, v, m) /\ Requesting(u, v, m)
<1> DEFINE h == Head(channel[u][v])
<1>1. /\ h.kind \in AskKind \cup TellKind \cup UpdateKind
      /\ h.kind \in AskKind => h \in Asks(u, v)
      /\ h.kind \in TellKind => h \in Tells(v, u)
      /\ h.kind = "MoveToPosition" => \A x \in Tells(v, u) : x.kind # "JoinPlatoonResponse"
  BY Received, Dequeued, InvFacts, Kinds DEF Inv
<1>2. ASSUME h.kind \in AskKind, NEW m \in Maneuver,
             \/ h = Placed(v, m) /\ InPosition(u, v, m)
             \/ h = Thanks(v, m) /\ Joined(u, v, m)
      PROVE  FALSE
  <2>1. /\ h.kind \in DOMAIN LeaderExpects /\ h.platoonId = v
        /\ ServesIn(v, m, u, LeaderExpects[h.kind])
    <3>1. Placed(v, m).kind = "MoveToPositionAck" /\ Thanks(v, m).kind = "JoinFormationAck"
      BY DEF Placed, Thanks, Msg
    <3>2. Placed(v, m).platoonId = v /\ Thanks(v, m).platoonId = v
      BY DEF Placed, Thanks, Msg
    <3>3. QED
      BY <1>2, <3>1, <3>2 DEF InPosition, Joined, LeaderExpects
  <2>2. role[v] = "LEADER" /\ active[v] = m /\ joiner[v][m].id = u /\ state[v][m] = LeaderExpects[h.kind]
    BY <2>1 DEF ServesIn
  <2>3. platoonId[v] = v
    BY <2>2, InvFacts, LocalOfState DEF Inv
  <2>4. FromJoiner(m, u, v)
    BY <2>1, <2>2, <2>3 DEF FromJoiner, Served
  <2>5. QED
    BY <2>4 DEF Wanted
<1>3. ASSUME NEW m \in Maneuver, NEW s \in JState, At(v, m, u, s),
             h.kind \in DOMAIN JoinerExpects, s = JoinerExpects[h.kind], h.platoonId = u
      PROVE  FALSE
  <2>1. role[v] = "JOINER" /\ active[v] = m /\ state[v][m] = s /\ target[v][m].platoonLeader = u
    BY <1>3 DEF At
  <2>2. AsJoiner(v, m)
    BY <2>1, InvFacts, LocalOfState DEF Inv
  <2>3. target[v][m].platoonId = u
    BY <2>1, <2>2 DEF AsJoiner
  <2>4. FromTarget(m, u, v)
    BY <1>3, <2>1, <2>3 DEF FromTarget, Served
  <2>5. QED
    BY <2>4 DEF Wanted
<1>4. ASSUME h.kind \in TellKind
      PROVE  FALSE
  <2>1. PICK m \in Maneuver :
          \/ h = Denial(u) /\ Refused(v, u, m)
          \/ h = Permission(u) /\ Permitted(v, u, m)
          \/ h = Place(u, m) /\ (Permitted(v, u, m) \/ Informed(v, u, m))
          \/ h = Welcome(u, m) /\ Joining(v, u, m)
    BY <1>1, <1>4, StageOfTell, InvFacts
  <2>2. /\ Denial(u).kind = "JoinPlatoonResponse" /\ Permission(u).kind = "JoinPlatoonResponse"
        /\ Place(u, m).kind = "MoveToPosition" /\ Welcome(u, m).kind = "JoinFormation"
        /\ Denial(u).platoonId = u /\ Permission(u).platoonId = u
        /\ Place(u, m).platoonId = u /\ Welcome(u, m).platoonId = u
    BY DEF Denial, Permission, Place, Welcome, Msg
  <2>3. ~(h = Place(u, m) /\ Permitted(v, u, m))
    <3>1. Permitted(v, u, m) => Permission(u) \in Tells(v, u)
      BY DEF Permitted
    <3>2. QED
      BY <1>1, <2>2, <3>1
  <2>4. \/ h.kind = "JoinPlatoonResponse" /\ At(v, m, u, "J_WAIT_REPLY")
        \/ h.kind = "MoveToPosition" /\ At(v, m, u, "J_WAIT_INFORMATION")
        \/ h.kind = "JoinFormation" /\ At(v, m, u, "J_WAIT_JOIN")
    BY <2>1, <2>2, <2>3 DEF Refused, Permitted, Informed, Joining
  <2>5. h.platoonId = u
    BY <2>1, <2>2
  <2>6. \E s \in JState : At(v, m, u, s) /\ h.kind \in DOMAIN JoinerExpects /\ s = JoinerExpects[h.kind]
    BY <2>4 DEF JState, JoinerExpects
  <2>7. QED
    BY <1>3, <2>5, <2>6
<1>5. ASSUME h.kind \in AskKind
      PROVE  \E m \in Maneuver : h = Demand(u, v, m) /\ Requesting(u, v, m)
  BY <1>1, <1>2, <1>5, StageOfAsk, InvFacts
<1>6. QED
  BY <1>1, <1>4, <1>5

LEMMA HandshakeDisregard ==
  ASSUME Inv, NEW u \in Vehicle, NEW v \in Vehicle, Disregard(u, v)
  PROVE  Handshake'
<1> DEFINE h == Head(channel[u][v])
           d == Dequeue(u, v)
<1>1. /\ channel[u][v] # <<>> /\ ~Wanted(u, v) /\ channel' = d
      /\ UNCHANGED <<appVars, helperVars, maneuverVars>>
  BY DEF Disregard
<1>2. /\ d \in Channels /\ InOrder(d)
      /\ Ask(d[u][v]) = Without(Asks(u, v), h) /\ Tell(d[u][v]) = Without(Tells(v, u), h)
      /\ \A a, b \in Vehicle : a # u \/ b # v => d[a][b] = channel[a][b]
  BY <1>1, Dequeued, InvFacts
<1>3. \A w \in Vehicle : Same(w)
  BY <1>1 DEF appVars, helperVars, maneuverVars, Same
<1>4. CASE h.kind \in UpdateKind
  <2>1. Without(Asks(u, v), h) = Ask(channel[u][v]) /\ Without(Tells(v, u), h) = Tell(channel[u][v])
    BY <1>4, Kinds DEF Without, Asks, Tells, Ask, Tell
  <2>2. \A a, b \in Vehicle :
          Ask(channel'[a][b]) = Ask(channel[a][b]) /\ Tell(channel'[a][b]) = Tell(channel[a][b])
    BY <1>1, <1>2, <2>1
  <2>3. QED
    BY <1>1, <1>2, <1>3, <2>2, QuietFrame
<1>5. ASSUME NEW m \in Maneuver, h = Demand(u, v, m), Requesting(u, v, m)
      PROVE  Handshake'
  <2>1. Asks(u, v)' = {}
    <3>1. Asks(u, v)' = Without(Asks(u, v), h)
      BY <1>1, <1>2 DEF Asks
    <3>2. QED
      BY <1>5, <3>1 DEF Requesting, Without
  <2>2. Tell(d[u][v]) = Tell(channel[u][v])
    <3>1. h.kind = Request[m]
      BY <1>5 DEF Demand, Msg
    <3>2. h \notin Tells(v, u)
      BY <3>1, RequestKinds DEF Tells, Tell
    <3>3. QED
      BY <1>2, <3>2 DEF Without, Tells
  <2>3. \A a, b \in Vehicle : a # u \/ b # v => SameQueues(a, b)
    BY <1>1, <1>2, <2>2 DEF SameQueues, Asks, Tells
  <2>4. Tells(u, v)' = {}
    <3>1. At(u, m, v, "J_WAIT_REPLY") /\ Local(u)
      BY <1>5, InvFacts DEF Requesting
    <3>2. AsJoiner(u, m) /\ v # u
      BY <3>1, LocalOfState DEF At, JState, AsJoiner, Inv
    <3>3. Tells(u, v)' = Tells(u, v)
      BY <1>1, <1>2, <3>2 DEF Tells
    <3>4. QED
      BY <1>5, <3>3 DEF Requesting
  <2>5. Strangers(u, v)'
    <3>1. Same(u) /\ Same(v)
      BY <1>3
    <3>2. ~Serves(v, u)'
      BY <1>5, <3>1 DEF Requesting, Serves, ServesIn, Same
    <3>3. \A n \in Maneuver, s \in JState : At(u, n, v, s)' => s = "J_WAIT_REPLY"
      BY <1>5, <3>1 DEF Requesting, At, Same
    <3>4. QED
      BY <2>1, <2>4, <3>2, <3>3 DEF Strangers
  <2>6. Stage(u, v)'
    BY <2>5 DEF Stage
  <2>7. /\ \A b \in Vehicle : KeepsJoining(v, b)
        /\ \A a \in Vehicle : KeepsServing(v, a)
        /\ Local(v)'
    BY <1>3, SameKeeps, SameLocal, InvFacts
  <2>8. QED
    BY <1>1, <1>2, <1>3, <2>3, <2>6, <2>7, LeaderFrame DEF Inv, InOrder
<1>6. QED
  BY <1>1, <1>4, <1>5, OnlyRequestsDisregarded

-----------------------------------------------------------------------------
(* The handshake from the start on *)

LEMMA OwnPlatoon ==
  ASSUME NEW v \in Leaders
  PROVE  Head(CHOOSE p \in Platoons : v \in ToSet(p)) = v
<1>1. PICK p \in Platoons : v = Head(p)
  BY DEF Leaders
<1>2. v \in ToSet(p)
  <2>1. p \in Seq(Vehicle) /\ Len(p) > 0
    BY PlatoonsAssumption
  <2>2. 1 \in DOMAIN p /\ v = p[1]
    BY <1>1, <2>1
  <2>3. QED
    BY <2>2 DEF ToSet
<1> DEFINE q == CHOOSE r \in Platoons : v \in ToSet(r)
<1>3. q \in Platoons /\ v \in ToSet(q)
  BY <1>2
<1>4. q = p
  BY <1>2, <1>3, PlatoonsAssumption
<1>5. QED
  BY <1>1, <1>4

LEMMA HandshakeInit ==
  ASSUME Init
  PROVE  Handshake
<1>1. PICK stray \in [Joiner -> {<<w>> : w \in Vehicle}] :
        formation = [v \in Vehicle |-> IF v \in Registered
                                       THEN CHOOSE p \in Platoons : v \in ToSet(p)
                                       ELSE stray[v]]
  BY DEF Init
<1>2. ASSUME NEW u \in Vehicle, NEW v \in Vehicle
      PROVE  Orderly(channel[u][v]) /\ Asks(u, v) = {} /\ Tells(u, v) = {}
  <2>1. channel[u][v] = <<>> /\ channel[v][u] = <<>>
    BY DEF Init
  <2>2. DOMAIN (<<>>) = {}
    OBVIOUS
  <2>3. QED
    BY <2>1, <2>2 DEF Orderly, Lone, PermissionFirst, Asks, Tells, Ask, Tell, ToSet
<1>3. /\ "none" \notin Maneuver
      /\ \A v \in Vehicle : role[v] # "JOINER" /\ active[v] = "none"
      /\ \A v \in Vehicle, m \in Maneuver : state[v][m] = "IDLE"
  BY DEF Init, Maneuver
<1>4. ASSUME NEW v \in Vehicle
      PROVE  Local(v)
  <2>1. CASE v \in Leaders
    <3>1. v \in Registered
      BY <2>1, Constants
    <3>2. formation[v] = CHOOSE p \in Platoons : v \in ToSet(p)
      BY <1>1, <3>1
    <3>3. LeaderId(v) = v /\ formation[v] # <<>>
      BY <2>1, <3>1, <3>2, ChosenPlatoon, OwnPlatoon DEF LeaderId
    <3>4. platoonId[v] = v
      BY <3>1, <3>3 DEF Init, LeaderId
    <3>5. QED
      BY <1>3, <2>1, <3>3, <3>4 DEF Local
  <2>2. CASE v \notin Leaders
    <3>1. role[v] # "LEADER"
      BY <2>2 DEF Init
    <3>2. role[v] # "FOLLOWER" => v \in Joiner /\ platoonId[v] = None
      BY <2>2, VehicleAssumption DEF Init
    <3>3. QED
      BY <1>3, <2>2, <3>1, <3>2 DEF Local
  <2>3. QED
    BY <2>1, <2>2
<1>5. ASSUME NEW v \in Vehicle, NEW l \in Vehicle
      PROVE  Stage(v, l)
  <2>1. Strangers(v, l)
    BY <1>2, <1>3 DEF Strangers, Serves, ServesIn, At
  <2>2. QED
    BY <2>1 DEF Stage
<1>6. QED
  BY <1>2, <1>4, <1>5 DEF Handshake

LEMMA HandshakeNext ==
  ASSUME Inv, [Next]_vars
  PROVE  Handshake'
<1>1. CASE Start
  <2>1. "join" \in Maneuver /\ "merge" \in Maneuver /\ "merge" # "join"
    BY Kinds
  <2>2. ASSUME NEW v \in Joiner, NEW leader \in Target, StartManeuver("join", v, leader)
        PROVE  Handshake'
    <3>1. v \in Vehicle
      BY Constants
    <3>2. QED
      BY <2>1, <2>2, <3>1, HandshakeStart
  <2>3. ASSUME NEW v \in Merger, NEW leader \in Target, StartManeuver("merge", v, leader)
        PROVE  Handshake'
    <3>1. v \in Vehicle /\ v \in Leaders
      BY Constants
    <3>2. QED
      BY <2>1, <2>3, <3>1, HandshakeStart
  <2>4. QED
    BY <1>1, <2>2, <2>3 DEF Start
<1>2. ASSUME NEW u \in Vehicle, NEW v \in Vehicle, OnManeuverMessage(u, v)
      PROVE  Handshake'
  <2>1. ASSUME NEW m \in Maneuver, HandleRequest(m, u, v)
        PROVE  Handshake'
    BY <2>1, HandshakeRequest
  <2>2. ASSUME NEW m \in Maneuver, HandleJoinPlatoonResponse(m, u, v)
        PROVE  Handshake'
    BY <2>2, HandshakeResponse
  <2>3. ASSUME NEW m \in Maneuver, HandleMoveToPosition(m, u, v)
        PROVE  Handshake'
    BY <2>3, HandshakeInformation
  <2>4. ASSUME NEW m \in Maneuver, HandleMoveToPositionAck(m, u, v)
        PROVE  Handshake'
    BY <2>4, HandshakePositionAck
  <2>5. ASSUME NEW m \in Maneuver, HandleJoinFormation(m, u, v)
        PROVE  Handshake'
    BY <2>5, HandshakeJoin
  <2>6. ASSUME NEW m \in Maneuver, HandleJoinFormationAck(m, u, v)
        PROVE  Handshake'
    BY <2>6, HandshakeJoined
  <2>7. CASE HandleUpdatePlatoonFormation(u, v) \/ HandleUpdatePlatoonData(u, v)
    BY <2>7, HandshakeFollower
  <2>8. CASE Disregard(u, v)
    BY <2>8, HandshakeDisregard
  <2>9. QED
    BY <1>2, <2>1, <2>2, <2>3, <2>4, <2>5, <2>6, <2>7, <2>8 DEF OnManeuverMessage
<1>3. CASE UNCHANGED vars \/ \E u, v \in Vehicle : OnFailedTransmissionAttempt(u, v)
  <2>1. UNCHANGED <<appVars, helperVars, maneuverVars, channel>>
    BY <1>3 DEF vars, OnFailedTransmissionAttempt
  <2>2. \A w \in Vehicle : Same(w)
    BY <2>1 DEF appVars, helperVars, maneuverVars, Same
  <2>3. channel' = channel
    BY <2>1
  <2>4. QED
    BY <2>2, <2>3, QuietFrame, InvFacts
<1>4. ASSUME NEW v \in Vehicle, CheckDistance(v)
      PROVE  Handshake'
  BY <1>4, HandshakeCheckDistance
<1>5. ASSUME NEW v \in Vehicle, NEW m \in Maneuver, OnPlatoonBeacon(m, v)
      PROVE  Handshake'
  BY <1>5, HandshakeInPosition
<1>6. QED
  BY <1>1, <1>2, <1>3, <1>4, <1>5 DEF Next

LEMMA InvInit == Init => Inv
BY TypedInit, HandshakeInit DEF Inv

LEMMA InvNext == Inv /\ [Next]_vars => Inv'
BY TypedNext, HandshakeNext, SMTT(30) DEF Inv

LEMMA InvOneJoiner ==
  ASSUME Inv
  PROVE  OneJoiner
<1> SUFFICES ASSUME NEW v \in Vehicle, NEW m \in Maneuver,
                    state[v][m] \in {"J_WAIT_INFORMATION", "J_MOVE_IN_POSITION", "J_WAIT_JOIN"}
             PROVE  LET l == target[v][m].platoonLeader IN
                    /\ active[l] = m
                    /\ joiner[l][m].id = v
                    /\ state[l][m] = "L_WAIT_JOINER_TO_JOIN" => state[v][m] = "J_WAIT_JOIN"
                    /\ state[v][m] # "J_WAIT_INFORMATION" =>
                         target[v][m].newFormation = joiner[l][m].newFormation
  BY DEF OneJoiner
<1> DEFINE l == target[v][m].platoonLeader
<1>1. AsJoiner(v, m) /\ active[v] = m /\ state[v][m] \in JState
  BY InvFacts, LocalOfState DEF JState, Inv
<1>2. l \in Vehicle /\ At(v, m, l, state[v][m])
  BY <1>1, Constants DEF AsJoiner, At
<1>3. Stage(v, l)
  BY <1>2, InvFacts
<1> HIDE DEF l
<1>4. \/ state[v][m] = "J_WAIT_INFORMATION" /\ Informed(v, l, m)
      \/ state[v][m] = "J_MOVE_IN_POSITION" /\ Approaching(v, l, m)
      \/ state[v][m] = "J_WAIT_JOIN" /\ (InPosition(v, l, m) \/ Joining(v, l, m))
  BY <1>1, <1>2, <1>3, StageOfJoiner
<1>5. QED
  BY <1>4 DEF l, Informed, Approaching, InPosition, Joining, ServesIn, Offer

(* The leader serves one joiner at a time, and both mean the same new      *)
(* formation, whatever messages of however many requests are on their way. *)
THEOREM OneJoinerAtATime == Spec => []OneJoiner
BY InvInit, InvNext, InvOneJoiner, PTL DEF Spec

=============================================================================
