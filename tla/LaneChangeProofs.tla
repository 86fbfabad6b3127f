--------------------------- MODULE LaneChangeProofs ---------------------------
(***************************************************************************)
(* Proofs about LaneChange, for every platoon, road and start lane, and    *)
(* however often the manoeuvre is started.                                 *)
(***************************************************************************)
EXTENDS LaneChange, TLAPS

Channels == [Vehicle -> [Vehicle -> Seq(Message)]]

(* Messages: which kinds a queue holds.                                    *)
Holds(q, kind) == \E i \in DOMAIN q : q[i].kind = kind

-----------------------------------------------------------------------------
(* Facts about the operators of LaneChange *)

LEMMA PlainType ==
  ASSUME NEW kind \in MessageKind
  PROVE  Plain(kind) \in Message /\ Plain(kind).kind = kind
BY DEF Plain, Message, NoLane

LEMMA WarnType ==
  ASSUME NEW lane \in Lane
  PROVE  /\ Warn(lane) \in Message
         /\ Warn(lane).kind = "WarnLaneChange"
         /\ Warn(lane).lane = lane
BY DEF Warn, Message, MessageKind

LEMMA TailHolds ==
  ASSUME NEW q \in Seq(Message), q # <<>>
  PROVE  /\ Tail(q) \in Seq(Message)
         /\ Head(q) \in Message
         /\ Holds(q, Head(q).kind)
         /\ \A kind : Holds(Tail(q), kind) => Holds(q, kind)
<1>1. Len(q) \in Nat /\ Len(q) > 0 /\ DOMAIN q = 1 .. Len(q)
  OBVIOUS
<1>2. Tail(q) \in Seq(Message) /\ Head(q) \in Message /\ Head(q) = q[1]
  BY <1>1
<1>3. /\ DOMAIN Tail(q) = 1 .. Len(q) - 1
      /\ \A i \in DOMAIN Tail(q) : Tail(q)[i] = q[i + 1] /\ i + 1 \in DOMAIN q
  BY <1>1
<1>4. QED
  BY <1>1, <1>2, <1>3 DEF Holds

LEMMA AppendHolds ==
  ASSUME NEW q \in Seq(Message), NEW msg \in Message
  PROVE  /\ Append(q, msg) \in Seq(Message)
         /\ \A kind : Holds(Append(q, msg), kind) <=> Holds(q, kind) \/ msg.kind = kind
<1>1. /\ Append(q, msg) \in Seq(Message)
      /\ Len(q) \in Nat /\ DOMAIN q = 1 .. Len(q)
      /\ DOMAIN Append(q, msg) = 1 .. Len(q) + 1
      /\ \A i \in DOMAIN q : Append(q, msg)[i] = q[i] /\ i \in DOMAIN Append(q, msg)
      /\ Append(q, msg)[Len(q) + 1] = msg
  OBVIOUS
<1>2. QED
  BY <1>1 DEF Holds

(* What a dequeued message leaves in transit.                              *)
LEMMA DequeueLemma ==
  ASSUME channel \in Channels,
         NEW u \in Vehicle, NEW v \in Vehicle, channel[u][v] # <<>>
  PROVE  /\ Dequeue(u, v) \in Channels
         /\ Dequeue(u, v)[u][v] = Tail(channel[u][v])
         /\ \A a, b \in Vehicle :
              a # u \/ b # v => Dequeue(u, v)[a][b] = channel[a][b]
         /\ \A a, b \in Vehicle : \A kind :
              Holds(Dequeue(u, v)[a][b], kind) => Holds(channel[a][b], kind)
         /\ Head(channel[u][v]) \in Message
         /\ Holds(channel[u][v], Head(channel[u][v]).kind)
<1>1. channel[u][v] \in Seq(Message)
  BY DEF Channels
<1>2. /\ Dequeue(u, v)[u][v] = Tail(channel[u][v])
      /\ \A a, b \in Vehicle :
           a # u \/ b # v => Dequeue(u, v)[a][b] = channel[a][b]
  BY DEF Dequeue, Channels
<1>3. Tail(channel[u][v]) \in Seq(Message)
  BY <1>1, TailHolds
<1>4. Dequeue(u, v) \in Channels
  BY <1>3 DEF Dequeue, Channels
<1>5. QED
  BY <1>1, <1>2, <1>4, TailHolds

(* What sending to a set of vehicles puts in transit.                      *)
LEMMA SendToAllLemma ==
  ASSUME NEW ch \in Channels, NEW v \in Vehicle, NEW dest, NEW msg \in Message
  PROVE  /\ SendToAll(ch, v, dest, msg) \in Channels
         /\ \A w \in Vehicle \cap dest :
              SendToAll(ch, v, dest, msg)[v][w] = Append(ch[v][w], msg)
         /\ \A a, b \in Vehicle :
              a # v \/ b \notin dest => SendToAll(ch, v, dest, msg)[a][b] = ch[a][b]
<1>1. /\ \A w \in Vehicle \cap dest :
           SendToAll(ch, v, dest, msg)[v][w] = Append(ch[v][w], msg)
      /\ \A a, b \in Vehicle :
           a # v \/ b \notin dest => SendToAll(ch, v, dest, msg)[a][b] = ch[a][b]
  BY DEF SendToAll, Channels
<1>2. \A a, b \in Vehicle : ch[a][b] \in Seq(Message)
  BY DEF Channels
<1>3. [w \in Vehicle |-> IF w \in dest THEN Append(ch[v][w], msg) ELSE ch[v][w]]
        \in [Vehicle -> Seq(Message)]
  BY <1>2, AppendHolds
<1>4. SendToAll(ch, v, dest, msg) \in Channels
  BY <1>3 DEF SendToAll, Channels
<1>5. QED
  BY <1>1, <1>4

LEMMA SendToAllHolds ==
  ASSUME NEW ch \in Channels, NEW v \in Vehicle, NEW dest, NEW msg \in Message,
         NEW a \in Vehicle, NEW b \in Vehicle, NEW kind
  PROVE  Holds(SendToAll(ch, v, dest, msg)[a][b], kind) <=>
           Holds(ch[a][b], kind) \/ (a = v /\ b \in dest /\ msg.kind = kind)
<1>1. ch[a][b] \in Seq(Message)
  BY DEF Channels
<1>2. CASE a = v /\ b \in dest
  <2>1. SendToAll(ch, v, dest, msg)[a][b] = Append(ch[a][b], msg)
    BY <1>2, SendToAllLemma
  <2>2. QED
    BY <1>1, <1>2, <2>1, AppendHolds
<1>3. CASE ~(a = v /\ b \in dest)
  <2>1. SendToAll(ch, v, dest, msg)[a][b] = ch[a][b]
    BY <1>3, SendToAllLemma
  <2>2. QED
    BY <1>3, <2>1
<1>4. QED
  BY <1>2, <1>3

LEMMA SendUnicastLemma ==
  ASSUME NEW ch \in Channels, NEW v \in Vehicle, NEW w \in Vehicle, NEW msg \in Message
  PROVE  SendUnicast(ch, v, w, msg) = SendToAll(ch, v, {w}, msg)
BY DEF SendUnicast, SendToAll, Channels

-----------------------------------------------------------------------------
(* Type correctness *)

(* Only followers acknowledge, so that receivedAck names followers.        *)
AcksFromFollowers ==
  \A u, v \in Vehicle :
    Holds(channel[u][v], "WarnLaneChangeAck") \/ Holds(channel[u][v], "LaneChanged") =>
      u \in Follower

TypeInv == TypeOK /\ AcksFromFollowers

LEMMA InitType == Init => TypeInv
<1>1. Vehicle # {} /\ StartLane \in Lane /\ Leader \in Vehicle
  BY LaneAssumption DEF Vehicle, Lane
<1>2. <<>> \in Seq(Message) /\ \A kind : ~Holds(<<>>, kind)
  BY DEF Holds
<1>3. [lane |-> StartLane, safe |-> FALSE, wait |-> FALSE] \in LaneRequest
  BY <1>1 DEF LaneRequest
<1>4. QED
  BY <1>1, <1>2, <1>3, StartsAssumption
     DEF Init, TypeInv, TypeOK, AcksFromFollowers, ManeuverState, Timer, TimerPointer

LEMMA DestinationType ==
  ASSUME NEW lane
  PROVE  Destination(lane) \subseteq Lane /\ \A d \in Destination(lane) : d >= 0
BY LaneAssumption DEF Destination, Lane

LEMMA TimerType ==
  ASSUME NEW t \in Timer
  PROVE  SendTimeoutMsg(t) \in Timer /\ ResetTimeoutMsg(t) \in Timer
BY DEF SendTimeoutMsg, ResetTimeoutMsg, Timer, TimerPointer

LEMMA PointerExcept ==
  ASSUME NEW t \in Timer, NEW p \in TimerPointer
  PROVE  /\ [t EXCEPT !.pointer = p] \in Timer
         /\ [t EXCEPT !.pointer = p].pointer = p
         /\ [t EXCEPT !.pointer = p].orphans = t.orphans
BY DEF Timer

LEMMA OrphansExcept ==
  ASSUME NEW t \in Timer, NEW n \in Nat
  PROVE  /\ [t EXCEPT !.orphans = n] \in Timer
         /\ [t EXCEPT !.orphans = n].pointer = t.pointer
         /\ [t EXCEPT !.orphans = n].orphans = n
BY DEF Timer

(* A handler that only consumes its message.                               *)
LEMMA DequeueType ==
  ASSUME TypeInv, NEW u \in Vehicle, NEW v \in Vehicle,
         channel[u][v] # <<>>, channel' = Dequeue(u, v)
  PROVE  channel' \in Channels /\ AcksFromFollowers'
<1>1. channel \in Channels
  BY DEF TypeInv, TypeOK, Channels
<1>2. QED
  BY <1>1, DequeueLemma DEF TypeInv, AcksFromFollowers

(* A handler that consumes a message and sends another kind of message.    *)
LEMMA SendType ==
  ASSUME TypeInv, NEW ch \in Channels, NEW v \in Vehicle, NEW dest, NEW msg \in Message,
         \A a, b \in Vehicle : \A kind : Holds(ch[a][b], kind) => Holds(channel[a][b], kind),
         channel' = SendToAll(ch, v, dest, msg),
         msg.kind \in {"WarnLaneChangeAck", "LaneChanged"} => v \in Follower
  PROVE  channel' \in Channels /\ AcksFromFollowers'
<1>1. channel' \in Channels
  BY SendToAllLemma
<1>2. ASSUME NEW a \in Vehicle, NEW b \in Vehicle,
             NEW kind \in {"WarnLaneChangeAck", "LaneChanged"},
             Holds(channel'[a][b], kind)
      PROVE  a \in Follower
  <2>1. Holds(channel'[a][b], kind) <=>
          Holds(ch[a][b], kind) \/ (a = v /\ b \in dest /\ msg.kind = kind)
    BY SendToAllHolds
  <2>2. QED
    BY <1>2, <2>1 DEF TypeInv, AcksFromFollowers
<1>3. QED
  BY <1>1, <1>2 DEF AcksFromFollowers

LEMMA AbortManeuverType ==
  ASSUME TypeInv, NEW v \in Vehicle, NEW ch \in Channels, AbortManeuver(v, ch),
         \A a, b \in Vehicle : \A kind : Holds(ch[a][b], kind) => Holds(channel[a][b], kind)
  PROVE  /\ maneuverState' \in [Vehicle -> ManeuverState]
         /\ inManeuver' \in [Vehicle -> BOOLEAN]
         /\ nextDestination' \in [Vehicle -> Lane \cup {NoLane}]
         /\ channel' \in Channels
         /\ AcksFromFollowers'
<1>1. Plain("Abort") \in Message /\ Plain("Abort").kind = "Abort"
  BY PlainType DEF MessageKind
<1>2. channel' = SendToAll(ch, v, Vehicle \ {v}, Plain("Abort"))
  BY DEF AbortManeuver
<1>3. channel' \in Channels /\ AcksFromFollowers'
  BY <1>1, <1>2, SendType
<1>4. QED
  BY <1>3 DEF AbortManeuver, Release, TypeInv, TypeOK, ManeuverState

LEMMA StartManeuverType == TypeInv /\ StartManeuver => TypeInv'
<1> SUFFICES ASSUME TypeInv, StartManeuver PROVE TypeInv'
  OBVIOUS
<1> USE DEF TypeInv
<1>1. channel \in Channels /\ Leader \in Vehicle
  BY DEF TypeOK, Channels, Vehicle
<1>2. starts' \in 0 .. MaxStarts
  BY StartsAssumption DEF StartManeuver, TypeOK
<1>3. PICK lane \in Destination(platoonLane[Leader]), laneFree \in BOOLEAN :
        IF CanInitialize(laneFree)
        THEN /\ Enter(Leader, "WAIT_REPLY", lane)
             /\ timer' = SendTimeoutMsg(timer)
             /\ ResetReceivedAck
             /\ channel' = SendToAll(channel, Leader, Follower, Warn(lane))
        ELSE /\ nextDestination' = [nextDestination EXCEPT ![Leader] = lane]
             /\ UNCHANGED <<maneuverState, inManeuver, leaderVars, channel>>
  BY DEF StartManeuver
<1>4. lane \in Lane
  BY DestinationType
<1>5. CASE CanInitialize(laneFree)
  <2>1. /\ Enter(Leader, "WAIT_REPLY", lane)
        /\ timer' = SendTimeoutMsg(timer)
        /\ receivedAck' = {}
        /\ channel' = SendToAll(channel, Leader, Follower, Warn(lane))
    BY <1>3, <1>5 DEF ResetReceivedAck
  <2>2. channel' \in Channels /\ AcksFromFollowers'
    BY <1>1, <1>4, <2>1, WarnType, SendType
  <2>3. timer' \in Timer
    BY <2>1, TimerType DEF TypeOK
  <2>4. QED
    BY <1>1, <1>2, <1>4, <2>1, <2>2, <2>3
       DEF StartManeuver, TypeOK, Enter, ManeuverState, Channels, laneVars
<1>6. CASE ~CanInitialize(laneFree)
  BY <1>1, <1>2, <1>3, <1>4, <1>6
     DEF StartManeuver, TypeOK, AcksFromFollowers, laneVars, leaderVars
<1>7. QED
  BY <1>5, <1>6

(* What the handler of a message starts from.                              *)
LEMMA ReceiveLemma ==
  ASSUME TypeInv, NEW u \in Vehicle, NEW v \in Vehicle, NEW kind, Receives(u, v, kind)
  PROVE  /\ channel \in Channels
         /\ channel[u][v] # <<>>
         /\ Head(channel[u][v]) \in Message
         /\ Head(channel[u][v]).kind = kind
         /\ Holds(channel[u][v], kind)
         /\ Dequeue(u, v) \in Channels
         /\ \A a, b \in Vehicle : \A k :
              Holds(Dequeue(u, v)[a][b], k) => Holds(channel[a][b], k)
<1>1. channel \in Channels
  BY DEF TypeInv, TypeOK, Channels
<1>2. channel[u][v] # <<>> /\ Head(channel[u][v]).kind = kind
  BY DEF Receives
<1>3. QED
  BY <1>1, <1>2, DequeueLemma

LEMMA HandleWarnLaneChangeAckType ==
  ASSUME TypeInv, NEW u \in Vehicle, NEW v \in Vehicle, HandleWarnLaneChangeAck(u, v)
  PROVE  TypeInv'
<1> DEFINE ch == Dequeue(u, v)
<1>1. /\ channel \in Channels /\ channel[u][v] # <<>> /\ ch \in Channels
      /\ \A a, b \in Vehicle : \A k : Holds(ch[a][b], k) => Holds(channel[a][b], k)
      /\ Holds(channel[u][v], "WarnLaneChangeAck")
  BY ReceiveLemma DEF HandleWarnLaneChangeAck
<1>2. u \in Follower
  BY <1>1 DEF TypeInv, AcksFromFollowers
<1>3. /\ Plain("StartSignal") \in Message /\ Plain("StartSignal").kind = "StartSignal"
  BY PlainType DEF MessageKind
<1>4. SendTimeoutMsg(ResetTimeoutMsg(timer)) \in Timer /\ ResetTimeoutMsg(timer) \in Timer
  BY TimerType DEF TypeInv, TypeOK
<1>5. starts' = starts /\ simulating' = simulating
  BY DEF HandleWarnLaneChangeAck, runVars
<1>6. CASE ~CountsAck(v, "WAIT_REPLY") /\ channel' = ch
           /\ UNCHANGED <<maneuverVars, laneVars, leaderVars>>
  BY <1>1, <1>5, <1>6, DequeueType
     DEF TypeInv, TypeOK, Channels, maneuverVars, laneVars, leaderVars
<1>7. CASE /\ receivedAck' = receivedAck \cup {u}
           /\ channel' = ch
           /\ UNCHANGED <<maneuverVars, laneVars, timer>>
  BY <1>1, <1>2, <1>5, <1>7, DequeueType
     DEF TypeInv, TypeOK, Channels, maneuverVars, laneVars
<1>8. CASE /\ ResetReceivedAck
           /\ nextDestination[v] >= 0
           /\ SetFixedLane(v, nextDestination[v], FALSE)
           /\ SetPlatoonLane(v, nextDestination[v])
           /\ channel' = SendToAll(ch, v, Follower, Plain("StartSignal"))
           /\ Proceed(v, "WAIT_ALL_CHANGED")
           /\ timer' = SendTimeoutMsg(ResetTimeoutMsg(timer))
  <2>1. nextDestination[v] \in Lane
    BY <1>8 DEF TypeInv, TypeOK, NoLane
  <2>2. channel' \in Channels /\ AcksFromFollowers'
    BY <1>1, <1>3, <1>8, SendType
  <2>3. laneChanges' \in [Vehicle -> LaneRequest \cup {NoRequest}]
    BY <1>8, <2>1 DEF SetFixedLane, TypeInv, TypeOK, LaneRequest
  <2>4. QED
    BY <1>4, <1>5, <1>8, <2>1, <2>2, <2>3
       DEF TypeInv, TypeOK, Channels, ResetReceivedAck, SetPlatoonLane, Proceed, ManeuverState
<1>9. CASE /\ ResetReceivedAck
           /\ AbortManeuver(v, ch)
           /\ timer' = ResetTimeoutMsg(timer)
           /\ UNCHANGED laneVars
  BY <1>1, <1>4, <1>5, <1>9, AbortManeuverType
     DEF TypeInv, TypeOK, Channels, ResetReceivedAck, laneVars
<1>10. QED
  BY <1>6, <1>7, <1>8, <1>9 DEF HandleWarnLaneChangeAck

LEMMA HandleLaneChangedType ==
  ASSUME TypeInv, NEW u \in Vehicle, NEW v \in Vehicle, HandleLaneChanged(u, v)
  PROVE  TypeInv'
<1> DEFINE ch == Dequeue(u, v)
<1>1. /\ channel \in Channels /\ channel[u][v] # <<>> /\ ch \in Channels
      /\ \A a, b \in Vehicle : \A k : Holds(ch[a][b], k) => Holds(channel[a][b], k)
      /\ Holds(channel[u][v], "LaneChanged")
  BY ReceiveLemma DEF HandleLaneChanged
<1>2. u \in Follower
  BY <1>1 DEF TypeInv, AcksFromFollowers
<1>3. Plain("LaneChangeClose") \in Message /\ Plain("LaneChangeClose").kind = "LaneChangeClose"
  BY PlainType DEF MessageKind
<1>4. UNCHANGED <<platoonLane, laneChanges, starts, simulating>>
  BY DEF HandleLaneChanged, laneVars, runVars
<1>5. CASE channel' = ch /\ UNCHANGED <<maneuverVars, leaderVars>>
  BY <1>1, <1>4, <1>5, DequeueType DEF TypeInv, TypeOK, Channels, maneuverVars, leaderVars
<1>6. CASE /\ receivedAck' = receivedAck \cup {u}
           /\ channel' = ch
           /\ UNCHANGED <<maneuverVars, timer>>
  BY <1>1, <1>2, <1>4, <1>6, DequeueType DEF TypeInv, TypeOK, Channels, maneuverVars
<1>7. CASE /\ ResetReceivedAck
           /\ timer' = ResetTimeoutMsg(timer)
           /\ channel' = SendToAll(ch, v, Follower, Plain("LaneChangeClose"))
           /\ Release(v)
  <2>1. channel' \in Channels /\ AcksFromFollowers'
    BY <1>1, <1>3, <1>7, SendType
  <2>2. timer' \in Timer
    BY <1>7, TimerType DEF TypeInv, TypeOK
  <2>3. QED
    BY <1>4, <1>7, <2>1, <2>2
       DEF TypeInv, TypeOK, Channels, ResetReceivedAck, Release, ManeuverState
<1>8. QED
  BY <1>5, <1>6, <1>7 DEF HandleLaneChanged

LEMMA HandleTimeoutMsgType == TypeInv /\ HandleTimeoutMsg => TypeInv'
<1> SUFFICES ASSUME TypeInv, HandleTimeoutMsg PROVE TypeInv'
  OBVIOUS
<1>1. channel \in Channels /\ Leader \in Vehicle
  BY DEF TypeInv, TypeOK, Channels, Vehicle
<1>2. AbortManeuver(Leader, channel)
      /\ UNCHANGED <<platoonLane, laneChanges, receivedAck, starts, simulating>>
  BY DEF HandleTimeoutMsg, laneVars, runVars
<1>3. timer' \in Timer
  <2>1. timer \in Timer /\ timer.orphans \in Nat
    BY DEF TypeInv, TypeOK, Timer
  <2>2. CASE timer' = [timer EXCEPT !.pointer = "delivered"]
    BY <2>1, <2>2, PointerExcept DEF TimerPointer
  <2>3. CASE timer.orphans > 0 /\ timer' = [timer EXCEPT !.orphans = @ - 1]
    <3>1. timer.orphans - 1 \in Nat
      BY <2>1, <2>3
    <3>2. QED
      BY <2>1, <2>3, <3>1, OrphansExcept
  <2>4. QED
    BY <2>2, <2>3 DEF HandleTimeoutMsg
<1>4. QED
  BY <1>1, <1>2, <1>3, AbortManeuverType DEF TypeInv, TypeOK, Channels

LEMMA HandleWarnLaneChangeType ==
  ASSUME TypeInv, NEW u \in Vehicle, NEW v \in Vehicle, HandleWarnLaneChange(u, v)
  PROVE  TypeInv'
<1> DEFINE ch == Dequeue(u, v)
<1>1. /\ channel \in Channels /\ channel[u][v] # <<>> /\ ch \in Channels
      /\ \A a, b \in Vehicle : \A k : Holds(ch[a][b], k) => Holds(channel[a][b], k)
      /\ Head(channel[u][v]) \in Message
  BY ReceiveLemma DEF HandleWarnLaneChange
<1>2. UNCHANGED <<platoonLane, laneChanges, receivedAck, timer, starts, simulating>>
  BY DEF HandleWarnLaneChange, laneVars, leaderVars, runVars
<1>3. CASE /\ Role(v) = "FOLLOWER"
           /\ Enter(v, "PREPARE_LANE_CHANGE", Head(channel[u][v]).lane)
           /\ channel' = SendUnicast(ch, v, u, Plain("WarnLaneChangeAck"))
  <2>1. v \in Follower
    BY <1>3 DEF Role, Vehicle
  <2>2. Plain("WarnLaneChangeAck") \in Message
    BY PlainType DEF MessageKind
  <2>3. channel' = SendToAll(ch, v, {u}, Plain("WarnLaneChangeAck"))
    BY <1>1, <1>3, <2>2, SendUnicastLemma
  <2>4. channel' \in Channels /\ AcksFromFollowers'
    BY <1>1, <2>1, <2>2, <2>3, SendType
  <2>5. Head(channel[u][v]).lane \in Lane \cup {NoLane}
    BY <1>1 DEF Message
  <2>6. QED
    BY <1>2, <1>3, <2>4, <2>5 DEF TypeInv, TypeOK, Channels, Enter, ManeuverState
<1>4. CASE AbortManeuver(v, ch)
  BY <1>1, <1>2, <1>4, AbortManeuverType DEF TypeInv, TypeOK, Channels
<1>5. QED
  BY <1>3, <1>4 DEF HandleWarnLaneChange, ProcessWarnLaneChange

LEMMA HandleStartSignalType ==
  ASSUME TypeInv, NEW u \in Vehicle, NEW v \in Vehicle, HandleStartSignal(u, v)
  PROVE  TypeInv'
<1> DEFINE ch == Dequeue(u, v)
<1>1. /\ channel \in Channels /\ channel[u][v] # <<>> /\ ch \in Channels
      /\ \A a, b \in Vehicle : \A k : Holds(ch[a][b], k) => Holds(channel[a][b], k)
  BY ReceiveLemma DEF HandleStartSignal
<1>2. UNCHANGED <<receivedAck, timer, starts, simulating>>
  BY DEF HandleStartSignal, leaderVars, runVars
<1>3. CASE /\ ProcessStartSignal(v)
           /\ SetFixedLane(v, nextDestination[v], FALSE)
           /\ SetPlatoonLane(v, nextDestination[v])
           /\ Proceed(v, "COMPLETE_LANE_CHANGE")
           /\ channel' = SendUnicast(ch, v, u, Plain("LaneChanged"))
  <2>1. v \in Follower
    BY <1>3 DEF Role, Vehicle, ProcessStartSignal
  <2>2. Plain("LaneChanged") \in Message
    BY PlainType DEF MessageKind
  <2>3. channel' = SendToAll(ch, v, {u}, Plain("LaneChanged"))
    BY <1>1, <1>3, <2>2, SendUnicastLemma
  <2>4. channel' \in Channels /\ AcksFromFollowers'
    BY <1>1, <2>1, <2>2, <2>3, SendType
  <2>5. nextDestination[v] \in Lane
    BY <1>3 DEF TypeInv, TypeOK, NoLane, ProcessStartSignal
  <2>6. laneChanges' \in [Vehicle -> LaneRequest \cup {NoRequest}]
    BY <1>3, <2>5 DEF SetFixedLane, TypeInv, TypeOK, LaneRequest
  <2>7. QED
    BY <1>2, <1>3, <2>4, <2>5, <2>6
       DEF TypeInv, TypeOK, Channels, SetPlatoonLane, Proceed, ManeuverState
<1>4. CASE AbortManeuver(v, ch) /\ UNCHANGED laneVars
  BY <1>1, <1>2, <1>4, AbortManeuverType DEF TypeInv, TypeOK, Channels, laneVars
<1>5. QED
  BY <1>3, <1>4 DEF HandleStartSignal

(* The handlers of LaneChangeClose and Abort.                              *)
LEMMA LeaveType ==
  ASSUME TypeInv, NEW u \in Vehicle, NEW v \in Vehicle,
         HandleLaneChangeClose(u, v) \/ HandleAbort(u, v)
  PROVE  TypeInv'
<1> DEFINE ch == Dequeue(u, v)
<1>1. /\ channel \in Channels /\ channel[u][v] # <<>> /\ ch \in Channels
      /\ \A a, b \in Vehicle : \A k : Holds(ch[a][b], k) => Holds(channel[a][b], k)
  BY ReceiveLemma DEF HandleLaneChangeClose, HandleAbort
<1>2. UNCHANGED <<platoonLane, laneChanges, receivedAck, timer, starts, simulating>>
  BY DEF HandleLaneChangeClose, HandleAbort, laneVars, leaderVars, runVars
<1>3. CASE channel' = ch /\ Release(v)
  BY <1>1, <1>2, <1>3, DequeueType DEF TypeInv, TypeOK, Channels, Release, ManeuverState
<1>4. CASE AbortManeuver(v, ch)
  BY <1>1, <1>2, <1>4, AbortManeuverType DEF TypeInv, TypeOK, Channels
<1>5. QED
  BY <1>3, <1>4 DEF HandleLaneChangeClose, HandleAbort

LEMMA NextType == TypeInv /\ [Next]_vars => TypeInv'
<1> SUFFICES ASSUME TypeInv, [Next]_vars PROVE TypeInv'
  OBVIOUS
<1>1. CASE StartManeuver
  BY <1>1, StartManeuverType
<1>2. CASE HandleTimeoutMsg
  BY <1>2, HandleTimeoutMsgType
<1>3. ASSUME NEW u \in Vehicle, NEW v \in Vehicle, OnManeuverMessage(u, v)
      PROVE  TypeInv'
  BY <1>3, HandleWarnLaneChangeType, HandleWarnLaneChangeAckType, HandleStartSignalType,
     HandleLaneChangedType, LeaveType DEF OnManeuverMessage
<1>4. ASSUME NEW u \in Vehicle, NEW v \in Vehicle, OnFailedTransmissionAttempt(u, v)
      PROVE  TypeInv'
  BY <1>4 DEF OnFailedTransmissionAttempt, TypeInv, TypeOK, AcksFromFollowers,
              maneuverVars, laneVars, leaderVars
<1>5. CASE UNCHANGED vars
  BY <1>5 DEF vars, TypeInv, TypeOK, AcksFromFollowers,
              maneuverVars, laneVars, leaderVars, runVars
<1>6. QED
  BY <1>1, <1>2, <1>3, <1>4, <1>5 DEF Next

LEMMA TypeInvariant == Spec => []TypeInv
BY InitType, NextType, PTL DEF Spec

(* The vehicles' states, the timer, the lanes and the messages in transit  *)
(* keep their types, however often the manoeuvre is started: receivedAck   *)
(* never counts a vehicle the platoon does not have (LaneChange.cc:193-327) *)
(* and every lane handed to SUMO is a lane of the road.                    *)
THEOREM TypeCorrect == Spec => []TypeOK
BY TypeInvariant, PTL DEF TypeInv

-----------------------------------------------------------------------------
(* The leader's timer *)

LEMMA TimerFields ==
  ASSUME NEW t \in Timer
  PROVE  /\ SendTimeoutMsg(t).pointer = "scheduled"
         /\ ResetTimeoutMsg(t).pointer = "deleted"
         /\ ResetTimeoutMsg(t).orphans = t.orphans
         /\ SendTimeoutMsg(ResetTimeoutMsg(t)).orphans = t.orphans
         /\ t.pointer # "scheduled" => SendTimeoutMsg(t).orphans = t.orphans
<1>1. "deleted" \in TimerPointer
  BY DEF TimerPointer
<1>2. /\ ResetTimeoutMsg(t) \in Timer
      /\ ResetTimeoutMsg(t).pointer = "deleted"
      /\ ResetTimeoutMsg(t).orphans = t.orphans
  BY <1>1, PointerExcept DEF ResetTimeoutMsg
<1>3. QED
  BY <1>2 DEF SendTimeoutMsg

(* Every step that is not the leader's own leaves its state and its timer; *)
(* an abort and a close take it out of the states that wait for the timer. *)
LEMMA NextTimerAlive == TypeInv /\ TimerAlive /\ [Next]_vars => TimerAlive'
<1> SUFFICES ASSUME TypeInv, TimerAlive, [Next]_vars PROVE TimerAlive'
  OBVIOUS
<1> DEFINE waiting == {"WAIT_REPLY", "WAIT_ALL_CHANGED"}
<1>1. /\ maneuverState \in [Vehicle -> ManeuverState]
      /\ timer \in Timer /\ Leader \in Vehicle
  BY DEF TypeInv, TypeOK, Vehicle
<1>2. ASSUME NEW v \in Vehicle, timer' = timer,
             Release(v) \/ UNCHANGED maneuverVars
      PROVE  TimerAlive'
  BY <1>1, <1>2 DEF TimerAlive, Release, maneuverVars
<1>3. ASSUME NEW ch, AbortManeuver(Leader, ch) PROVE TimerAlive'
  BY <1>1, <1>3 DEF AbortManeuver, Release, TimerAlive
<1>4. ASSUME NEW v \in Vehicle, NEW ch, AbortManeuver(v, ch), timer' = timer
      PROVE  TimerAlive'
  BY <1>2, <1>4 DEF AbortManeuver
<1>5. CASE StartManeuver
  <2>1. CASE timer' = SendTimeoutMsg(timer)
    BY <1>1, <2>1, TimerFields DEF TimerAlive
  <2>2. CASE UNCHANGED <<maneuverState, timer>>
    BY <2>2 DEF TimerAlive
  <2>3. QED
    BY <1>5, <2>1, <2>2 DEF StartManeuver, leaderVars
<1>6. CASE HandleTimeoutMsg
  BY <1>3, <1>6 DEF HandleTimeoutMsg
<1>7. ASSUME NEW u \in Vehicle, NEW v \in Vehicle, OnManeuverMessage(u, v)
      PROVE  TimerAlive'
  <2>1. ASSUME Role(v) = "FOLLOWER" PROVE v # Leader
    BY <2>1 DEF Role
  <2>2. CASE HandleWarnLaneChange(u, v)
    <3>1. timer' = timer
      BY <2>2 DEF HandleWarnLaneChange, leaderVars
    <3>2. CASE Role(v) = "FOLLOWER" /\ Enter(v, "PREPARE_LANE_CHANGE", Head(channel[u][v]).lane)
      BY <1>1, <2>1, <3>1, <3>2 DEF Enter, TimerAlive
    <3>3. QED
      BY <1>4, <2>2, <3>1, <3>2 DEF HandleWarnLaneChange, ProcessWarnLaneChange
  <2>3. CASE HandleWarnLaneChangeAck(u, v)
    <3>1. CASE timer' = timer /\ UNCHANGED maneuverVars
      BY <1>2, <3>1
    <3>2. CASE timer' = SendTimeoutMsg(ResetTimeoutMsg(timer))
      <4>1. ResetTimeoutMsg(timer) \in Timer
        BY <1>1, TimerType
      <4>2. QED
        BY <3>2, <4>1, TimerFields DEF TimerAlive
    <3>3. CASE CountsAck(v, "WAIT_REPLY") /\ AbortManeuver(v, Dequeue(u, v))
      <4>1. v = Leader
        BY <3>3 DEF CountsAck, Role
      <4>2. QED
        BY <1>3, <3>3, <4>1
    <3>4. QED
      BY <2>3, <3>1, <3>2, <3>3 DEF HandleWarnLaneChangeAck, leaderVars
  <2>4. CASE HandleStartSignal(u, v)
    <3>1. timer' = timer
      BY <2>4 DEF HandleStartSignal, leaderVars
    <3>2. CASE ProcessStartSignal(v) /\ Proceed(v, "COMPLETE_LANE_CHANGE")
      BY <1>1, <2>1, <3>1, <3>2 DEF Proceed, TimerAlive, ProcessStartSignal
    <3>3. QED
      BY <1>4, <2>4, <3>1, <3>2 DEF HandleStartSignal
  <2>5. CASE HandleLaneChanged(u, v)
    <3>1. CASE timer' = timer /\ UNCHANGED maneuverVars
      BY <1>2, <3>1
    <3>2. CASE CountsAck(v, "WAIT_ALL_CHANGED") /\ Release(v)
      BY <1>1, <3>2 DEF CountsAck, Role, Release, TimerAlive
    <3>3. QED
      BY <2>5, <3>1, <3>2 DEF HandleLaneChanged, leaderVars
  <2>6. CASE HandleLaneChangeClose(u, v)
    BY <1>2, <1>4, <2>6 DEF HandleLaneChangeClose, leaderVars
  <2>7. CASE HandleAbort(u, v)
    BY <1>2, <2>7 DEF HandleAbort, leaderVars
  <2>8. QED
    BY <1>7, <2>2, <2>3, <2>4, <2>5, <2>6, <2>7 DEF OnManeuverMessage
<1>8. ASSUME NEW u \in Vehicle, NEW v \in Vehicle, OnFailedTransmissionAttempt(u, v)
      PROVE  TimerAlive'
  BY <1>8 DEF OnFailedTransmissionAttempt, TimerAlive, maneuverVars, leaderVars
<1>9. CASE UNCHANGED vars
  BY <1>9 DEF vars, TimerAlive, maneuverVars, leaderVars
<1>10. QED
  BY <1>5, <1>6, <1>7, <1>8, <1>9 DEF Next

(* timeoutMsg is never cancelled uninitialised or twice: in the two states *)
(* whose handlers call resetTimeoutMsg it names a scheduled message        *)
(* (LaneChangePlatooningApp.cc:96-106), however often the manoeuvre is     *)
(* started and whatever timers were lost.                                  *)
THEOREM TimerIsAlive == Spec => []TimerAlive
<1>1. Init => TimerAlive
  BY DEF Init, TimerAlive, Vehicle
<1>2. QED
  BY <1>1, TypeInvariant, NextTimerAlive, PTL DEF Spec

-----------------------------------------------------------------------------
(* No vehicle is stranded in the manoeuvre, for every platoon and however  *)
(* often the manoeuvre is started.  As long as no timer of the leader      *)
(* runs, each follower in the manoeuvre has a message coming from the      *)
(* leader that lets it out, and behind each WarnLaneChange that could      *)
(* still draw a follower in there is such a message as well.               *)

TimerRunning == timer.pointer = "scheduled" \/ timer.orphans > 0

(* The messages whose handlers end the manoeuvre in every state.           *)
Releasing == {"Abort", "LaneChangeClose"}

Coming(q)  == \E j \in DOMAIN q : q[j].kind \in Releasing

Covered(q) ==
  \A i \in DOMAIN q : q[i].kind = "WarnLaneChange" =>
    \E j \in DOMAIN q : j > i /\ q[j].kind \in Releasing

ReleaseComing ==
  ~TimerRunning =>
    \A f \in Follower :
      /\ inManeuver[f] => Coming(channel[Leader][f])
      /\ Covered(channel[Leader][f])

WarnsFromLeader ==
  \A u, v \in Vehicle : Holds(channel[u][v], "WarnLaneChange") => u = Leader

StatesInManeuver ==
  /\ \A v \in Vehicle : maneuverState[v] # "IDLE" => inManeuver[v]
  /\ inManeuver[Leader] => maneuverState[Leader] \in {"WAIT_REPLY", "WAIT_ALL_CHANGED"}

ReleaseInv == ReleaseComing /\ WarnsFromLeader /\ StatesInManeuver

-----------------------------------------------------------------------------
(* Queues *)

LEMMA TailCovered ==
  ASSUME NEW q \in Seq(Message), q # <<>>
  PROVE  /\ Covered(q) => Covered(Tail(q))
         /\ Covered(q) /\ Head(q).kind = "WarnLaneChange" => Coming(Tail(q))
         /\ Coming(q) /\ Head(q).kind \notin Releasing => Coming(Tail(q))
<1>1. Len(q) \in Nat /\ Len(q) > 0 /\ DOMAIN q = 1 .. Len(q) /\ Head(q) = q[1]
  OBVIOUS
<1>2. /\ DOMAIN Tail(q) = 1 .. Len(q) - 1
      /\ \A i \in DOMAIN Tail(q) : Tail(q)[i] = q[i + 1]
  BY <1>1
<1>3. ASSUME NEW j \in DOMAIN q, j > 1
      PROVE  j - 1 \in DOMAIN Tail(q) /\ Tail(q)[j - 1] = q[j]
  BY <1>1, <1>2, <1>3
<1>4. ASSUME Covered(q) PROVE Covered(Tail(q))
  <2>1. SUFFICES ASSUME NEW i \in DOMAIN Tail(q), Tail(q)[i].kind = "WarnLaneChange"
                 PROVE  \E j \in DOMAIN Tail(q) : j > i /\ Tail(q)[j].kind \in Releasing
    BY DEF Covered
  <2>2. i + 1 \in DOMAIN q /\ q[i + 1].kind = "WarnLaneChange"
    BY <1>1, <1>2, <2>1
  <2>3. PICK j \in DOMAIN q : j > i + 1 /\ q[j].kind \in Releasing
    BY <1>4, <2>2 DEF Covered
  <2>4. j - 1 \in DOMAIN Tail(q) /\ Tail(q)[j - 1] = q[j] /\ j - 1 > i
    BY <1>1, <1>2, <1>3, <2>1, <2>3
  <2>5. QED
    BY <2>3, <2>4
<1>5. ASSUME Covered(q), Head(q).kind = "WarnLaneChange" PROVE Coming(Tail(q))
  <2>1. PICK j \in DOMAIN q : j > 1 /\ q[j].kind \in Releasing
    BY <1>1, <1>5 DEF Covered
  <2>2. QED
    BY <1>3, <2>1 DEF Coming
<1>6. ASSUME Coming(q), Head(q).kind \notin Releasing PROVE Coming(Tail(q))
  <2>1. PICK j \in DOMAIN q : q[j].kind \in Releasing
    BY <1>6 DEF Coming
  <2>2. j > 1
    BY <1>1, <1>6, <2>1
  <2>3. QED
    BY <1>3, <2>1, <2>2 DEF Coming
<1>7. QED
  BY <1>4, <1>5, <1>6

LEMMA AppendCovered ==
  ASSUME NEW q \in Seq(Message), NEW msg \in Message, msg.kind \in Releasing
  PROVE  Covered(Append(q, msg)) /\ Coming(Append(q, msg))
<1>1. /\ Len(q) \in Nat
      /\ DOMAIN Append(q, msg) = 1 .. Len(q) + 1
      /\ Append(q, msg)[Len(q) + 1] = msg
  OBVIOUS
<1>2. Coming(Append(q, msg))
  BY <1>1 DEF Coming
<1>3. ASSUME NEW i \in DOMAIN Append(q, msg), Append(q, msg)[i].kind = "WarnLaneChange"
      PROVE  i < Len(q) + 1
  BY <1>1, <1>3 DEF Releasing
<1>4. Covered(Append(q, msg))
  BY <1>1, <1>3 DEF Covered
<1>5. QED
  BY <1>2, <1>4

-----------------------------------------------------------------------------
(* The two kinds of steps *)

(* The leader sends Abort or LaneChangeClose to all its followers.         *)
LEMMA ReleaseAll ==
  ASSUME NEW ch \in Channels, NEW dest, Follower \subseteq dest,
         NEW msg \in Message, msg.kind \in Releasing,
         channel' = SendToAll(ch, Leader, dest, msg)
  PROVE  ReleaseComing'
<1>1. ASSUME NEW f \in Follower
      PROVE  Coming(channel'[Leader][f]) /\ Covered(channel'[Leader][f])
  <2>1. Leader \in Vehicle /\ f \in Vehicle /\ f \in Vehicle \cap dest
    BY DEF Vehicle
  <2>2. ch[Leader][f] \in Seq(Message)
    BY <2>1 DEF Channels
  <2>3. channel'[Leader][f] = Append(ch[Leader][f], msg)
    BY <2>1, SendToAllLemma
  <2>4. QED
    BY <2>2, <2>3, AppendCovered
<1>2. QED
  BY <1>1 DEF ReleaseComing

(* Vehicle v handles a message of u: only v enters or leaves the           *)
(* manoeuvre, and the leader sends nothing.                                *)
LEMMA ReceiverStep ==
  ASSUME TypeInv, ReleaseInv, NEW u \in Vehicle, NEW v \in Vehicle,
         NEW kind, Receives(u, v, kind), timer' = timer,
         \A g \in Follower : channel'[Leader][g] = Dequeue(u, v)[Leader][g],
         \A g \in Follower : g # v => inManeuver'[g] = inManeuver[g],
         inManeuver'[v] => \/ kind = "WarnLaneChange"
                           \/ inManeuver[v] /\ kind \notin Releasing
                           \/ v = Leader
  PROVE  ReleaseComing'
<1>1. channel \in Channels /\ channel[u][v] # <<>> /\ Head(channel[u][v]).kind = kind
  BY ReceiveLemma
<1>2. kind = "WarnLaneChange" => u = Leader
  BY ReceiveLemma DEF ReleaseInv, WarnsFromLeader
<1>3. SUFFICES ASSUME ~TimerRunning, NEW f \in Follower
               PROVE  /\ inManeuver'[f] => Coming(channel'[Leader][f])
                      /\ Covered(channel'[Leader][f])
  BY DEF ReleaseComing, TimerRunning
<1>4. /\ inManeuver[f] => Coming(channel[Leader][f])
      /\ Covered(channel[Leader][f])
  BY <1>3 DEF ReleaseInv, ReleaseComing
<1>5. f \in Vehicle /\ Leader \in Vehicle /\ f # Leader
  BY PlatoonAssumption DEF Vehicle
<1>6. channel[Leader][f] \in Seq(Message)
  BY <1>1, <1>5 DEF Channels
<1>7. CASE u = Leader /\ v = f
  <2>1. channel'[Leader][f] = Tail(channel[Leader][f])
    BY <1>1, <1>5, <1>7, DequeueLemma
  <2>2. QED
    BY <1>1, <1>4, <1>5, <1>6, <1>7, <2>1, TailCovered
<1>8. CASE ~(u = Leader /\ v = f)
  <2>1. channel'[Leader][f] = channel[Leader][f]
    BY <1>1, <1>5, <1>8, DequeueLemma
  <2>2. inManeuver'[f] => inManeuver[f]
    BY <1>2, <1>5, <1>8
  <2>3. QED
    BY <1>4, <2>1, <2>2
<1>9. QED
  BY <1>7, <1>8

-----------------------------------------------------------------------------
(* Only the leader sends WarnLaneChange *)

LEMMA SendWarns ==
  ASSUME WarnsFromLeader, NEW ch \in Channels, NEW v \in Vehicle, NEW dest,
         NEW msg \in Message, msg.kind = "WarnLaneChange" => v = Leader,
         \A a, b \in Vehicle : \A k : Holds(ch[a][b], k) => Holds(channel[a][b], k),
         channel' = SendToAll(ch, v, dest, msg)
  PROVE  WarnsFromLeader'
<1>1. ASSUME NEW a \in Vehicle, NEW b \in Vehicle, Holds(channel'[a][b], "WarnLaneChange")
      PROVE  a = Leader
  <2>1. Holds(channel'[a][b], "WarnLaneChange") <=>
          \/ Holds(ch[a][b], "WarnLaneChange")
          \/ (a = v /\ b \in dest /\ msg.kind = "WarnLaneChange")
    BY SendToAllHolds
  <2>2. QED
    BY <1>1, <2>1 DEF WarnsFromLeader
<1>2. QED
  BY <1>1 DEF WarnsFromLeader

LEMMA AbortWarns ==
  ASSUME WarnsFromLeader, NEW ch \in Channels, NEW v \in Vehicle,
         \A a, b \in Vehicle : \A k : Holds(ch[a][b], k) => Holds(channel[a][b], k),
         AbortManeuver(v, ch)
  PROVE  WarnsFromLeader'
BY PlainType, SendWarns DEF AbortManeuver, MessageKind

LEMMA NextWarns == TypeInv /\ WarnsFromLeader /\ [Next]_vars => WarnsFromLeader'
<1> SUFFICES ASSUME TypeInv, WarnsFromLeader, [Next]_vars PROVE WarnsFromLeader'
  OBVIOUS
<1>1. channel \in Channels /\ Leader \in Vehicle
  BY DEF TypeInv, TypeOK, Channels, Vehicle
<1>2. CASE channel' = channel
  BY <1>2 DEF WarnsFromLeader
<1>3. CASE StartManeuver
  <2>1. PICK lane \in Lane :
          channel' = channel \/ channel' = SendToAll(channel, Leader, Follower, Warn(lane))
    BY <1>3, DestinationType DEF StartManeuver
  <2>2. QED
    BY <1>1, <1>2, <2>1, WarnType, SendWarns
<1>4. CASE HandleTimeoutMsg
  BY <1>1, <1>4, AbortWarns DEF HandleTimeoutMsg
<1>5. ASSUME NEW u \in Vehicle, NEW v \in Vehicle, OnManeuverMessage(u, v)
      PROVE  WarnsFromLeader'
  <2> DEFINE ch == Dequeue(u, v)
  <2>1. /\ ch \in Channels
        /\ \A a, b \in Vehicle : \A k : Holds(ch[a][b], k) => Holds(channel[a][b], k)
    BY <1>5, ReceiveLemma, ZenonT(40)
       DEF OnManeuverMessage, HandleWarnLaneChange, HandleWarnLaneChangeAck,
           HandleStartSignal, HandleLaneChanged, HandleLaneChangeClose, HandleAbort
  <2>2. CASE channel' = ch
    BY <2>1, <2>2 DEF WarnsFromLeader
  <2>3. CASE AbortManeuver(v, ch)
    BY <2>1, <2>3, AbortWarns
  <2>4. ASSUME NEW kind \in MessageKind \ {"WarnLaneChange"}, NEW dest,
               channel' = SendToAll(ch, v, dest, Plain(kind))
        PROVE  WarnsFromLeader'
    BY <2>1, <2>4, PlainType, SendWarns
  <2>5. ASSUME NEW kind \in MessageKind \ {"WarnLaneChange"},
               channel' = SendUnicast(ch, v, u, Plain(kind))
        PROVE  WarnsFromLeader'
    BY <2>1, <2>4, <2>5, PlainType, SendUnicastLemma
  <2>6. CASE HandleWarnLaneChange(u, v)
    BY <2>3, <2>5, <2>6 DEF HandleWarnLaneChange, MessageKind
  <2>7. CASE HandleWarnLaneChangeAck(u, v)
    BY <2>2, <2>3, <2>4, <2>7 DEF HandleWarnLaneChangeAck, MessageKind
  <2>8. CASE HandleStartSignal(u, v)
    BY <2>3, <2>5, <2>8 DEF HandleStartSignal, MessageKind
  <2>9. CASE HandleLaneChanged(u, v)
    BY <2>2, <2>4, <2>9 DEF HandleLaneChanged, MessageKind
  <2>10. CASE HandleLaneChangeClose(u, v)
    BY <2>2, <2>3, <2>10 DEF HandleLaneChangeClose
  <2>11. CASE HandleAbort(u, v)
    BY <2>2, <2>11 DEF HandleAbort
  <2>12. QED
    BY <1>5, <2>6, <2>7, <2>8, <2>9, <2>10, <2>11 DEF OnManeuverMessage
<1>6. QED
  BY <1>2, <1>3, <1>4, <1>5 DEF Next, vars, OnFailedTransmissionAttempt

-----------------------------------------------------------------------------
(* A vehicle in a state of the manoeuvre is in the manoeuvre *)

LEMMA NextStates == TypeInv /\ StatesInManeuver /\ [Next]_vars => StatesInManeuver'
<1> SUFFICES ASSUME TypeInv, StatesInManeuver, [Next]_vars PROVE StatesInManeuver'
  OBVIOUS
<1>1. /\ maneuverState \in [Vehicle -> ManeuverState]
      /\ inManeuver \in [Vehicle -> BOOLEAN]
      /\ Leader \in Vehicle
  BY DEF TypeInv, TypeOK, Vehicle
<1>2. ASSUME NEW v \in Vehicle, Release(v) PROVE StatesInManeuver'
  BY <1>1, <1>2 DEF Release, StatesInManeuver
<1>3. CASE UNCHANGED <<maneuverState, inManeuver>>
  BY <1>3 DEF StatesInManeuver
<1>4. ASSUME NEW v \in Follower, NEW state, NEW lane, Enter(v, state, lane)
      PROVE  StatesInManeuver'
  BY <1>1, <1>4, PlatoonAssumption DEF Enter, StatesInManeuver, Vehicle
<1>5. ASSUME NEW v \in Vehicle, NEW state, inManeuver[v], Proceed(v, state),
             v = Leader => state = "WAIT_ALL_CHANGED"
      PROVE  StatesInManeuver'
  BY <1>1, <1>5 DEF Proceed, StatesInManeuver
<1>6. ASSUME NEW v \in Vehicle, Role(v) = "FOLLOWER" PROVE v \in Follower /\ v # Leader
  BY <1>6 DEF Role, Vehicle
<1>7. CASE StartManeuver
  BY <1>1, <1>3, <1>7 DEF StartManeuver, Enter, StatesInManeuver
<1>8. CASE HandleTimeoutMsg
  BY <1>1, <1>2, <1>8 DEF HandleTimeoutMsg, AbortManeuver
<1>9. ASSUME NEW u \in Vehicle, NEW v \in Vehicle, OnManeuverMessage(u, v)
      PROVE  StatesInManeuver'
  <2>1. CASE HandleWarnLaneChange(u, v)
    BY <1>2, <1>4, <1>6, <2>1
       DEF HandleWarnLaneChange, ProcessWarnLaneChange, AbortManeuver
  <2>2. CASE HandleWarnLaneChangeAck(u, v)
    BY <1>2, <1>3, <1>5, <2>2
       DEF HandleWarnLaneChangeAck, AbortManeuver, CountsAck, maneuverVars
  <2>3. CASE HandleStartSignal(u, v)
    BY <1>2, <1>5, <1>6, <2>3 DEF HandleStartSignal, ProcessStartSignal, AbortManeuver
  <2>4. CASE HandleLaneChanged(u, v)
    BY <1>2, <1>3, <2>4 DEF HandleLaneChanged, maneuverVars
  <2>5. CASE HandleLaneChangeClose(u, v)
    BY <1>2, <2>5 DEF HandleLaneChangeClose, AbortManeuver
  <2>6. CASE HandleAbort(u, v)
    BY <1>2, <2>6 DEF HandleAbort
  <2>7. QED
    BY <1>9, <2>1, <2>2, <2>3, <2>4, <2>5, <2>6 DEF OnManeuverMessage
<1>10. QED
  BY <1>3, <1>7, <1>8, <1>9 DEF Next, vars, maneuverVars, OnFailedTransmissionAttempt

-----------------------------------------------------------------------------
(* Without a timer a release is coming *)

LEMMA AbortRelease ==
  ASSUME NEW ch \in Channels, AbortManeuver(Leader, ch)
  PROVE  ReleaseComing'
<1>1. Plain("Abort") \in Message /\ Plain("Abort").kind \in Releasing
  BY PlainType DEF MessageKind, Releasing
<1>2. Follower \subseteq Vehicle \ {Leader}
  BY PlatoonAssumption DEF Vehicle
<1>3. channel' = SendToAll(ch, Leader, Vehicle \ {Leader}, Plain("Abort"))
  BY DEF AbortManeuver
<1>4. QED
  BY <1>1, <1>2, <1>3, ReleaseAll

(* Handlers that end with abortManeuver, of whichever vehicle.             *)
LEMMA AbortStep ==
  ASSUME TypeInv, ReleaseInv, NEW u \in Vehicle, NEW v \in Vehicle,
         NEW kind, Receives(u, v, kind), timer' = timer, AbortManeuver(v, Dequeue(u, v))
  PROVE  ReleaseComing'
<1> DEFINE ch == Dequeue(u, v)
<1>1. ch \in Channels /\ Leader \in Vehicle /\ Follower \subseteq Vehicle
  BY ReceiveLemma DEF Vehicle
<1>2. CASE v = Leader
  BY <1>1, <1>2, AbortRelease
<1>3. CASE v # Leader
  <2>1. Plain("Abort") \in Message
    BY PlainType DEF MessageKind
  <2>2. \A g \in Follower : channel'[Leader][g] = ch[Leader][g]
    BY <1>1, <1>3, <2>1, SendToAllLemma DEF AbortManeuver
  <2>3. inManeuver \in [Vehicle -> BOOLEAN]
    BY DEF TypeInv, TypeOK
  <2>4. ~inManeuver'[v] /\ \A g \in Follower : g # v => inManeuver'[g] = inManeuver[g]
    BY <1>1, <2>3 DEF AbortManeuver, Release
  <2>5. QED
    BY <2>2, <2>4, ReceiverStep
<1>4. QED
  BY <1>2, <1>3

(* Handlers of a follower that only answer their sender.                   *)
LEMMA ReplyStep ==
  ASSUME TypeInv, NEW u \in Vehicle, NEW v \in Follower, NEW kind, Receives(u, v, kind),
         NEW reply \in MessageKind,
         channel' = SendUnicast(Dequeue(u, v), v, u, Plain(reply))
  PROVE  \A g \in Follower : channel'[Leader][g] = Dequeue(u, v)[Leader][g]
<1> DEFINE ch == Dequeue(u, v)
<1>1. v \in Vehicle /\ v # Leader /\ Leader \in Vehicle /\ Follower \subseteq Vehicle
  BY PlatoonAssumption DEF Vehicle
<1>2. ch \in Channels
  BY <1>1, ReceiveLemma
<1>3. channel' = SendToAll(ch, v, {u}, Plain(reply)) /\ Plain(reply) \in Message
  BY <1>1, <1>2, PlainType, SendUnicastLemma
<1>4. QED
  BY <1>1, <1>2, <1>3, SendToAllLemma

LEMMA NextRelease == TypeInv /\ TimerAlive /\ ReleaseInv /\ [Next]_vars => ReleaseComing'
<1> SUFFICES ASSUME TypeInv, TimerAlive, ReleaseInv, [Next]_vars PROVE ReleaseComing'
  OBVIOUS
<1>1. /\ channel \in Channels /\ timer \in Timer
      /\ inManeuver \in [Vehicle -> BOOLEAN]
      /\ Leader \in Vehicle /\ Follower \subseteq Vehicle
  BY DEF TypeInv, TypeOK, Channels, Vehicle
<1>2. CASE timer'.pointer = "scheduled"
  BY <1>2 DEF ReleaseComing, TimerRunning
<1>3. CASE UNCHANGED <<inManeuver, timer, channel>>
  BY <1>3 DEF ReleaseInv, ReleaseComing, TimerRunning
<1>4. CASE StartManeuver
  BY <1>1, <1>2, <1>3, <1>4, TimerFields DEF StartManeuver, leaderVars
<1>5. CASE HandleTimeoutMsg
  BY <1>1, <1>5, AbortRelease DEF HandleTimeoutMsg
<1>6. ASSUME NEW u \in Vehicle, NEW v \in Vehicle, OnManeuverMessage(u, v)
      PROVE  ReleaseComing'
  <2> DEFINE ch == Dequeue(u, v)
  <2>1. ASSUME Role(v) = "FOLLOWER" PROVE v \in Follower /\ v # Leader
    BY <2>1 DEF Role, Vehicle
  <2>2. CASE HandleWarnLaneChange(u, v)
    <3>1. Receives(u, v, "WarnLaneChange") /\ timer' = timer
      BY <2>2 DEF HandleWarnLaneChange, leaderVars
    <3>2. CASE /\ Role(v) = "FOLLOWER"
               /\ Enter(v, "PREPARE_LANE_CHANGE", Head(channel[u][v]).lane)
               /\ channel' = SendUnicast(ch, v, u, Plain("WarnLaneChangeAck"))
      <4>1. \A g \in Follower : channel'[Leader][g] = ch[Leader][g]
        BY <2>1, <3>1, <3>2, ReplyStep DEF MessageKind
      <4>2. \A g \in Follower : g # v => inManeuver'[g] = inManeuver[g]
        BY <1>1, <3>2 DEF Enter
      <4>3. QED
        BY <3>1, <4>1, <4>2, ReceiverStep
    <3>3. QED
      BY <2>2, <3>1, <3>2, AbortStep DEF HandleWarnLaneChange, ProcessWarnLaneChange
  <2>3. CASE HandleWarnLaneChangeAck(u, v)
    <3>1. Receives(u, v, "WarnLaneChangeAck")
      BY <2>3 DEF HandleWarnLaneChangeAck
    <3>2. CASE timer' = timer /\ channel' = ch /\ UNCHANGED maneuverVars
      BY <3>1, <3>2, ReceiverStep DEF maneuverVars, Releasing, ReleaseInv, StatesInManeuver
    <3>3. CASE timer' = SendTimeoutMsg(ResetTimeoutMsg(timer))
      BY <1>1, <1>2, <3>3, TimerType, TimerFields
    <3>4. CASE CountsAck(v, "WAIT_REPLY") /\ AbortManeuver(v, ch)
      <4>1. v = Leader /\ ch \in Channels
        BY <3>1, <3>4, ReceiveLemma DEF CountsAck, Role
      <4>2. QED
        BY <3>4, <4>1, AbortRelease
    <3>5. QED
      BY <2>3, <3>2, <3>3, <3>4 DEF HandleWarnLaneChangeAck, leaderVars
  <2>4. CASE HandleStartSignal(u, v)
    <3>1. Receives(u, v, "StartSignal") /\ timer' = timer
      BY <2>4 DEF HandleStartSignal, leaderVars
    <3>2. CASE /\ ProcessStartSignal(v)
               /\ Proceed(v, "COMPLETE_LANE_CHANGE")
               /\ channel' = SendUnicast(ch, v, u, Plain("LaneChanged"))
      <4>1. \A g \in Follower : channel'[Leader][g] = ch[Leader][g]
        BY <2>1, <3>1, <3>2, ReplyStep DEF MessageKind, ProcessStartSignal
      <4>2. inManeuver' = inManeuver
        BY <3>2 DEF Proceed
      <4>3. QED
        BY <3>1, <4>1, <4>2, ReceiverStep DEF Releasing
    <3>3. QED
      BY <2>4, <3>1, <3>2, AbortStep DEF HandleStartSignal
  <2>5. CASE HandleLaneChanged(u, v)
    <3>1. Receives(u, v, "LaneChanged")
      BY <2>5 DEF HandleLaneChanged
    <3>2. CASE timer' = timer /\ channel' = ch /\ UNCHANGED maneuverVars
      BY <3>1, <3>2, ReceiverStep DEF maneuverVars, Releasing
    <3>3. CASE /\ CountsAck(v, "WAIT_ALL_CHANGED")
               /\ channel' = SendToAll(ch, v, Follower, Plain("LaneChangeClose"))
      <4>1. v = Leader /\ ch \in Channels
        BY <3>1, <3>3, ReceiveLemma DEF CountsAck, Role
      <4>2. Plain("LaneChangeClose") \in Message /\ Plain("LaneChangeClose").kind \in Releasing
        BY PlainType DEF MessageKind, Releasing
      <4>3. QED
        BY <3>3, <4>1, <4>2, ReleaseAll
    <3>4. QED
      BY <2>5, <3>2, <3>3 DEF HandleLaneChanged, leaderVars
  <2>6. CASE HandleLaneChangeClose(u, v) \/ HandleAbort(u, v)
    <3>1. PICK kind : Receives(u, v, kind)
      BY <2>6 DEF HandleLaneChangeClose, HandleAbort
    <3>2. timer' = timer
      BY <2>6 DEF HandleLaneChangeClose, HandleAbort, leaderVars
    <3>3. CASE channel' = ch /\ Release(v)
      <4>1. ~inManeuver'[v] /\ \A g \in Follower : g # v => inManeuver'[g] = inManeuver[g]
        BY <1>1, <3>3 DEF Release
      <4>2. QED
        BY <3>1, <3>2, <3>3, <4>1, ReceiverStep
    <3>4. QED
      BY <2>6, <3>1, <3>2, <3>3, AbortStep DEF HandleLaneChangeClose, HandleAbort
  <2>7. QED
    BY <1>6, <2>2, <2>3, <2>4, <2>5, <2>6 DEF OnManeuverMessage
<1>7. QED
  BY <1>3, <1>4, <1>5, <1>6
     DEF Next, vars, maneuverVars, leaderVars, OnFailedTransmissionAttempt

LEMMA InitRelease == Init => ReleaseInv
<1>1. Leader \in Vehicle /\ Follower \subseteq Vehicle
  BY DEF Vehicle
<1>2. QED
  BY <1>1 DEF Init, ReleaseInv, ReleaseComing, Covered, WarnsFromLeader, StatesInManeuver, Holds

LEMMA ReleaseInvariant == Spec => []ReleaseInv
<1>1. TypeInv /\ TimerAlive /\ ReleaseInv /\ [Next]_vars => ReleaseInv'
  BY NextRelease, NextWarns, NextStates DEF ReleaseInv
<1>2. QED
  BY <1>1, InitRelease, TypeInvariant, TimerIsAlive, PTL DEF Spec

(* Nobody is left in the manoeuvre when no message is in transit and no    *)
(* timer runs, whatever the order of refusals, timeouts and new starts:    *)
(* the timer that handleAbort leaves running is what frees a follower      *)
(* whose WarnLaneChange was overtaken (LaneChange.cc:105-127).             *)
THEOREM NobodyIsStranded == Spec => []NobodyStranded
<1>1. TypeInv /\ TimerAlive /\ ReleaseInv => NobodyStranded
  <2> SUFFICES ASSUME TypeInv, TimerAlive, ReleaseInv,
                      \A u, v \in Vehicle : channel[u][v] = <<>>,
                      timer.pointer # "scheduled", timer.orphans = 0,
                      NEW v \in Vehicle
               PROVE  maneuverState[v] = "IDLE" /\ ~inManeuver[v]
    BY DEF NobodyStranded
  <2>1. ~TimerRunning
    BY DEF TimerRunning
  <2>2. CASE v = Leader
    BY <2>2 DEF ReleaseInv, StatesInManeuver, TimerAlive
  <2>3. CASE v \in Follower
    BY <2>1, <2>3 DEF ReleaseInv, ReleaseComing, StatesInManeuver, Coming, Vehicle
  <2>4. QED
    BY <2>2, <2>3 DEF Vehicle
<1>2. QED
  BY <1>1, TypeInvariant, TimerIsAlive, ReleaseInvariant, PTL

=============================================================================
