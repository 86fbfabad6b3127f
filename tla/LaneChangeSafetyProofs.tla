------------------------ MODULE LaneChangeSafetyProofs ------------------------
(***************************************************************************)
(* The platoon stays in one piece, for every platoon and road, when the    *)
(* manoeuvre is started once, as the scenario of the repository does.      *)
(*                                                                         *)
(* The argument.  The leader commits, by changing its platoonLane, only    *)
(* when every follower has acknowledged.  A follower that refuses can      *)
(* never acknowledge any more, so a refusal in transit rules a commitment  *)
(* out, and without refusals nothing makes a follower that acknowledged    *)
(* leave PREPARE_LANE_CHANGE.  At the commitment the queues from the       *)
(* leader are empty, so StartSignal is the first message each follower     *)
(* gets after it.                                                          *)
(***************************************************************************)
EXTENDS LaneChangeProofs

Committed == platoonLane[Leader] # StartLane

InFlight(kind, u, v) == Holds(channel[u][v], kind)

(* Messages of that kind are at the front of the queue or nowhere in it.   *)
First(q, kind) == \A i \in DOMAIN q : q[i].kind = kind => i = 1

(* The queue's WarnLaneChange messages are for that lane.                  *)
WarnsOf(q, lane) ==
  \A i \in DOMAIN q : q[i].kind = "WarnLaneChange" => q[i].lane = lane

FirstKind == {"WarnLaneChange", "StartSignal", "LaneChangeClose"}

(* Nothing happens before the manoeuvre is started.                        *)
NotStarted ==
  starts = 0 =>
    /\ \A u, v \in Vehicle : channel[u][v] = <<>>
    /\ maneuverState[Leader] = "IDLE"
    /\ timer.pointer # "scheduled"
    /\ ~Committed

(* Who sends what to whom, and what is always first in its queue.          *)
Routes ==
  /\ \A u, v \in Vehicle, kind \in FirstKind :
       InFlight(kind, u, v) => u = Leader /\ v \in Follower
  /\ \A u, v \in Vehicle, kind \in {"WarnLaneChangeAck", "LaneChanged"} :
       InFlight(kind, u, v) => u \in Follower /\ v = Leader
  /\ \A f \in Follower, kind \in FirstKind :
       First(channel[Leader][f], kind)

LeaderPhase ==
  /\ maneuverState[Leader] \in {"IDLE", "WAIT_REPLY", "WAIT_ALL_CHANGED"}
  /\ maneuverState[Leader] = "WAIT_REPLY" =>
       ~Committed /\ nextDestination[Leader] \in Destination(StartLane)
  /\ maneuverState[Leader] = "WAIT_ALL_CHANGED" => Committed
  /\ maneuverState[Leader] # "IDLE" =>
       \A v \in Vehicle : ~InFlight("Abort", Leader, v)
  /\ timer.orphans = 0

Acked(f) == f \in receivedAck \/ InFlight("WarnLaneChangeAck", f, Leader)

(* This follower will never acknowledge.                                   *)
Vetoed(f) == ~InFlight("WarnLaneChange", Leader, f) /\ ~Acked(f)

Ready(f) ==
  /\ maneuverState[f] = "PREPARE_LANE_CHANGE"
  /\ inManeuver[f]
  /\ nextDestination[f] = nextDestination[Leader]

Vote ==
  \A f \in Follower :
    /\ InFlight("WarnLaneChange", Leader, f) => ~Committed /\ ~Acked(f)
    /\ maneuverState[Leader] = "WAIT_REPLY" =>
         /\ WarnsOf(channel[Leader][f], nextDestination[Leader])
         /\ Acked(f) => Ready(f) \/ \E g \in Follower : Vetoed(g)
    /\ \A v \in Vehicle : InFlight("Abort", f, v) => ~Committed /\ Vetoed(f)

Changing ==
  \A f \in Follower :
    /\ InFlight("StartSignal", Leader, f) =>
         /\ Committed
         /\ platoonLane[f] = StartLane
         /\ maneuverState[f] = "PREPARE_LANE_CHANGE"
         /\ inManeuver[f]
         /\ nextDestination[f] = platoonLane[Leader]
    /\ ~InFlight("StartSignal", Leader, f) =>
         /\ platoonLane[f] = platoonLane[Leader]
         /\ Committed => maneuverState[f] # "PREPARE_LANE_CHANGE"

Changed ==
  \A f \in Follower :
    /\ InFlight("LaneChanged", f, Leader) => Committed
    /\ /\ maneuverState[Leader] = "WAIT_ALL_CHANGED"
       /\ f \in receivedAck \/ InFlight("LaneChanged", f, Leader)
       => maneuverState[f] = "COMPLETE_LANE_CHANGE" /\ inManeuver[f]

Closing ==
  \A f \in Follower :
    InFlight("LaneChangeClose", Leader, f) =>
      /\ Committed
      /\ maneuverState[Leader] = "IDLE"
      /\ timer.pointer # "scheduled"
      /\ maneuverState[f] = "COMPLETE_LANE_CHANGE"
      /\ inManeuver[f]
      /\ \A g \in Follower : ~InFlight("StartSignal", Leader, g)

SafetyInv ==
  /\ NotStarted
  /\ Routes
  /\ LeaderPhase
  /\ Vote
  /\ Changing
  /\ Changed
  /\ Closing

-----------------------------------------------------------------------------
(* Queues *)

LEMMA TailFirst ==
  ASSUME NEW q \in Seq(Message), q # <<>>
  PROVE  /\ \A k : First(q, k) => First(Tail(q), k) /\ ~Holds(Tail(q), k)
         /\ \A k : First(q, k) /\ Holds(q, k) => Head(q).kind = k
         /\ \A lane : WarnsOf(q, lane) => WarnsOf(Tail(q), lane)
         /\ \A lane : WarnsOf(q, lane) /\ Head(q).kind = "WarnLaneChange" =>
              Head(q).lane = lane
<1>1. Len(q) \in Nat /\ Len(q) > 0 /\ DOMAIN q = 1 .. Len(q) /\ Head(q) = q[1]
  OBVIOUS
<1>2. /\ DOMAIN Tail(q) = 1 .. Len(q) - 1
      /\ \A i \in DOMAIN Tail(q) : Tail(q)[i] = q[i + 1] /\ i + 1 \in DOMAIN q /\ i + 1 # 1
  BY <1>1
<1>3. \A k : First(q, k) => First(Tail(q), k) /\ ~Holds(Tail(q), k)
  BY <1>2 DEF First, Holds
<1>4. \A k : First(q, k) /\ Holds(q, k) => Head(q).kind = k
  BY <1>1 DEF First, Holds
<1>5. \A lane : WarnsOf(q, lane) => WarnsOf(Tail(q), lane)
  BY <1>2 DEF WarnsOf
<1>6. \A lane : WarnsOf(q, lane) /\ Head(q).kind = "WarnLaneChange" => Head(q).lane = lane
  BY <1>1 DEF WarnsOf
<1>7. QED
  BY <1>3, <1>4, <1>5, <1>6

LEMMA AppendFirst ==
  ASSUME NEW q \in Seq(Message), NEW msg \in Message
  PROVE  /\ \A k : First(q, k) /\ msg.kind # k => First(Append(q, msg), k)
         /\ q = <<>> => \A k : First(Append(q, msg), k)
         /\ \A lane : WarnsOf(q, lane) /\ (msg.kind = "WarnLaneChange" => msg.lane = lane) =>
              WarnsOf(Append(q, msg), lane)
<1>1. /\ Len(q) \in Nat /\ DOMAIN q = 1 .. Len(q)
      /\ DOMAIN Append(q, msg) = 1 .. Len(q) + 1
      /\ \A i \in DOMAIN q : Append(q, msg)[i] = q[i]
      /\ \A i \in DOMAIN Append(q, msg) : i \in DOMAIN q \/ i = Len(q) + 1
      /\ Append(q, msg)[Len(q) + 1] = msg
      /\ q = <<>> => Len(q) = 0
  OBVIOUS
<1>2. \A k : First(q, k) /\ msg.kind # k => First(Append(q, msg), k)
  BY <1>1 DEF First
<1>3. q = <<>> => \A k : First(Append(q, msg), k)
  BY <1>1 DEF First
<1>4. QED
  BY <1>1, <1>2, <1>3 DEF WarnsOf

LEMMA EmptyQueue ==
  /\ \A k : ~Holds(<<>>, k) /\ First(<<>>, k)
  /\ \A lane : WarnsOf(<<>>, lane)
BY DEF Holds, First, WarnsOf

(* A queue that holds no message of any kind is empty.                     *)
LEMMA NoKinds ==
  ASSUME NEW q \in Seq(Message), \A k \in MessageKind : ~Holds(q, k)
  PROVE  q = <<>>
<1>1. SUFFICES ASSUME q # <<>> PROVE FALSE
  OBVIOUS
<1>2. Head(q) \in Message /\ Holds(q, Head(q).kind)
  BY <1>1, TailHolds
<1>3. QED
  BY <1>2 DEF Message

(* What the handler of a message starts from, once it has dequeued it.     *)
Dequeued(ch, u, v, kind) ==
  /\ ch \in Channels
  /\ Holds(channel[u][v], kind)
  /\ \A a, b \in Vehicle : a # u \/ b # v => ch[a][b] = channel[a][b]
  /\ \A k : Holds(ch[u][v], k) => Holds(channel[u][v], k)
  /\ \A f \in Follower, k \in FirstKind : First(ch[Leader][f], k)
  /\ \A f \in Follower : \A lane :
       WarnsOf(channel[Leader][f], lane) => WarnsOf(ch[Leader][f], lane)
  /\ u = Leader /\ v \in Follower =>
       \A k \in FirstKind :
         /\ ~Holds(ch[u][v], k)
         /\ k # kind => ~Holds(channel[u][v], k)

LEMMA DequeuedLemma ==
  ASSUME TypeInv, Routes, NEW u \in Vehicle, NEW v \in Vehicle, NEW kind, Receives(u, v, kind)
  PROVE  Dequeued(Dequeue(u, v), u, v, kind)
<1> DEFINE ch == Dequeue(u, v)
           q  == channel[u][v]
<1>1. /\ channel \in Channels /\ q # <<>> /\ Head(q).kind = kind /\ Holds(q, kind)
      /\ ch \in Channels
  BY ReceiveLemma
<1>2. q \in Seq(Message)
  BY <1>1 DEF Channels
<1>3. ch[u][v] = Tail(q) /\ \A a, b \in Vehicle : a # u \/ b # v => ch[a][b] = channel[a][b]
  BY <1>1, DequeueLemma
<1>4. \A k : Holds(ch[u][v], k) => Holds(q, k)
  BY <1>1, <1>2, <1>3, TailHolds
<1>5. Leader \in Vehicle /\ Follower \subseteq Vehicle
  BY DEF Vehicle
<1>6. \A f \in Follower, k \in FirstKind : First(channel[Leader][f], k)
  BY DEF Routes
<1>7. ASSUME NEW f \in Follower
      PROVE  /\ \A k \in FirstKind : First(ch[Leader][f], k)
             /\ \A lane : WarnsOf(channel[Leader][f], lane) => WarnsOf(ch[Leader][f], lane)
  <2>1. CASE u = Leader /\ v = f
    BY <1>1, <1>2, <1>3, <1>6, <2>1, TailFirst
  <2>2. CASE ~(u = Leader /\ v = f)
    BY <1>3, <1>5, <1>6, <2>2
  <2>3. QED
    BY <2>1, <2>2
<1>8. ASSUME u = Leader, v \in Follower, NEW k \in FirstKind
      PROVE  ~Holds(ch[u][v], k) /\ (k # kind => ~Holds(q, k))
  <2>1. First(q, k)
    BY <1>6, <1>8
  <2>2. QED
    BY <1>1, <1>2, <1>3, <2>1, TailFirst
<1>9. QED
  BY <1>1, <1>3, <1>4, <1>7, <1>8 DEF Dequeued

(* What is in transit after a message to dest.                             *)
SentTo(ch, v, dest, sent) ==
  /\ \A a, b \in Vehicle : \A k :
       Holds(channel'[a][b], k) <=> Holds(ch[a][b], k) \/ (a = v /\ b \in dest /\ sent = k)
  /\ \A a, b \in Vehicle : \A k :
       First(ch[a][b], k) /\ (sent # k \/ a # v \/ b \notin dest \/ ch[a][b] = <<>>) =>
         First(channel'[a][b], k)
  /\ sent # "WarnLaneChange" =>
       \A a, b \in Vehicle : \A lane : WarnsOf(ch[a][b], lane) => WarnsOf(channel'[a][b], lane)

LEMMA SentToLemma ==
  ASSUME NEW ch \in Channels, NEW v \in Vehicle, NEW dest, NEW msg \in Message,
         channel' = SendToAll(ch, v, dest, msg)
  PROVE  SentTo(ch, v, dest, msg.kind)
<1>1. \A a, b \in Vehicle : \A k :
        Holds(channel'[a][b], k) <=> Holds(ch[a][b], k) \/ (a = v /\ b \in dest /\ msg.kind = k)
  BY SendToAllHolds
<1>2. ASSUME NEW a \in Vehicle, NEW b \in Vehicle
      PROVE  /\ ch[a][b] \in Seq(Message)
             /\ a = v /\ b \in dest => channel'[a][b] = Append(ch[a][b], msg)
             /\ ~(a = v /\ b \in dest) => channel'[a][b] = ch[a][b]
  <2>1. ch[a][b] \in Seq(Message)
    BY DEF Channels
  <2>2. a = v /\ b \in dest => channel'[a][b] = Append(ch[a][b], msg)
    BY SendToAllLemma
  <2>3. ~(a = v /\ b \in dest) => channel'[a][b] = ch[a][b]
    BY SendToAllLemma
  <2>4. QED
    BY <2>1, <2>2, <2>3
<1>3. ASSUME NEW a \in Vehicle, NEW b \in Vehicle, NEW k, First(ch[a][b], k),
             msg.kind # k \/ a # v \/ b \notin dest \/ ch[a][b] = <<>>
      PROVE  First(channel'[a][b], k)
  <2>1. CASE a = v /\ b \in dest
    <3>1. channel'[a][b] = Append(ch[a][b], msg) /\ ch[a][b] \in Seq(Message)
      BY <1>2, <2>1
    <3>2. QED
      BY <1>3, <2>1, <3>1, AppendFirst
  <2>2. CASE ~(a = v /\ b \in dest)
    BY <1>2, <1>3, <2>2
  <2>3. QED
    BY <2>1, <2>2
<1>4. ASSUME NEW a \in Vehicle, NEW b \in Vehicle, NEW lane, WarnsOf(ch[a][b], lane),
             msg.kind # "WarnLaneChange"
      PROVE  WarnsOf(channel'[a][b], lane)
  <2>1. CASE a = v /\ b \in dest
    <3>1. channel'[a][b] = Append(ch[a][b], msg) /\ ch[a][b] \in Seq(Message)
      BY <1>2, <2>1
    <3>2. QED
      BY <1>4, <3>1, AppendFirst
  <2>2. CASE ~(a = v /\ b \in dest)
    BY <1>2, <1>4, <2>2
  <2>3. QED
    BY <2>1, <2>2
<1>5. QED
  BY <1>1, <1>3, <1>4 DEF SentTo

LEMMA NothingSent ==
  ASSUME NEW ch \in Channels, NEW v \in Vehicle, channel' = ch
  PROVE  SentTo(ch, v, {}, "")
BY DEF SentTo

LEMMA Types ==
  ASSUME TypeInv
  PROVE  /\ Leader \in Vehicle /\ Leader \notin Follower /\ Follower \subseteq Vehicle
         /\ Vehicle = {Leader} \cup Follower
         /\ maneuverState \in [Vehicle -> ManeuverState]
         /\ inManeuver \in [Vehicle -> BOOLEAN]
         /\ nextDestination \in [Vehicle -> Lane \cup {NoLane}]
         /\ platoonLane \in [Vehicle -> Lane]
         /\ laneChanges \in [Vehicle -> LaneRequest \cup {NoRequest}]
         /\ channel \in Channels
         /\ timer \in Timer
BY PlatoonAssumption DEF TypeInv, TypeOK, Vehicle, Channels

LEMMA FollowerRole ==
  ASSUME NEW v \in Vehicle
  PROVE  Role(v) = "FOLLOWER" <=> v \in Follower
BY PlatoonAssumption DEF Role, Vehicle

-----------------------------------------------------------------------------
(* Steps of a follower *)

(* Follower f handles a message of u and sends to dest: the leader and the *)
(* other followers stay as they are.                                       *)
FollowerStep(ch, u, f, kind, dest, sent) ==
  /\ Dequeued(ch, u, f, kind)
  /\ SentTo(ch, f, dest, sent)
  /\ sent \notin FirstKind
  /\ sent \in {"WarnLaneChangeAck", "LaneChanged"} => dest = {Leader}
  /\ UNCHANGED <<receivedAck, timer, starts>>
  /\ \A g \in Vehicle : g # f =>
       /\ maneuverState'[g] = maneuverState[g]
       /\ inManeuver'[g] = inManeuver[g]
       /\ nextDestination'[g] = nextDestination[g]
       /\ platoonLane'[g] = platoonLane[g]
       /\ laneChanges'[g] = laneChanges[g]

LEMMA FollowerFrame ==
  ASSUME TypeInv, SafetyInv, NEW ch, NEW u \in Vehicle, NEW f \in Follower,
         NEW kind, NEW dest, NEW sent, FollowerStep(ch, u, f, kind, dest, sent)
  PROVE  NotStarted' /\ Routes' /\ LeaderPhase'
<1>1. /\ Leader \in Vehicle /\ Leader \notin Follower /\ Follower \subseteq Vehicle
      /\ f \in Vehicle /\ f # Leader
  BY Types
<1>2. Routes /\ NotStarted /\ LeaderPhase
  BY DEF SafetyInv
<1>3. NotStarted'
  BY <1>1, <1>2 DEF FollowerStep, Dequeued, NotStarted, Holds, Committed
<1>4. \A a, b \in Vehicle : \A k :
        Holds(channel'[a][b], k) => Holds(channel[a][b], k) \/ (a = f /\ b \in dest /\ sent = k)
  BY <1>1, SMTT(30) DEF FollowerStep, Dequeued, SentTo
<1>5. \A a, b \in Vehicle, k \in FirstKind :
        Holds(channel'[a][b], k) => a = Leader /\ b \in Follower
  BY <1>2, <1>4 DEF Routes, InFlight, FollowerStep
<1>6. \A a, b \in Vehicle, k \in {"WarnLaneChangeAck", "LaneChanged"} :
        Holds(channel'[a][b], k) => a \in Follower /\ b = Leader
  BY <1>2, <1>4, ZenonT(60) DEF Routes, InFlight, FollowerStep
<1>7. \A g \in Follower, k \in FirstKind : First(channel'[Leader][g], k)
  BY <1>1 DEF FollowerStep, Dequeued, SentTo
<1>8. Routes'
  BY <1>5, <1>6, <1>7 DEF Routes, InFlight
<1>9. LeaderPhase'
  BY <1>1, <1>2, <1>4 DEF LeaderPhase, Committed, InFlight, FollowerStep
<1>10. QED
  BY <1>3, <1>8, <1>9

(* The queues after the step, as the invariant speaks of them.             *)
FollowerEffect(ch, u, f, kind, dest, sent) ==
  /\ \A g \in Follower : \A k :
       /\ Holds(channel'[Leader][g], k) => Holds(channel[Leader][g], k)
       /\ g # f \/ u # Leader =>
            (Holds(channel[Leader][g], k) <=> Holds(channel'[Leader][g], k))
  /\ \A g \in Follower, v \in Vehicle : \A k :
       g # f =>
         /\ Holds(channel'[g][v], k) => Holds(channel[g][v], k)
         /\ v # f \/ u # g => (Holds(channel[g][v], k) <=> Holds(channel'[g][v], k))
  /\ \A v \in Vehicle : \A k :
       Holds(channel'[f][v], k) <=> Holds(ch[f][v], k) \/ (v \in dest /\ sent = k)
  /\ \A v \in Vehicle : \A k : Holds(ch[f][v], k) => Holds(channel[f][v], k)
  /\ \A v \in Vehicle : \A k :
       v # f \/ u # f => (Holds(ch[f][v], k) <=> Holds(channel[f][v], k))
  /\ u = Leader => \A k \in FirstKind :
       ~Holds(channel'[Leader][f], k) /\ (k # kind => ~Holds(channel[Leader][f], k))
  /\ \A g \in Follower : \A lane :
       WarnsOf(channel[Leader][g], lane) => WarnsOf(channel'[Leader][g], lane)

LEMMA FollowerQueues ==
  ASSUME TypeInv, NEW ch, NEW u \in Vehicle, NEW f \in Follower,
         NEW kind, NEW dest, NEW sent, FollowerStep(ch, u, f, kind, dest, sent)
  PROVE  FollowerEffect(ch, u, f, kind, dest, sent)
<1>1. /\ Leader \in Vehicle /\ Leader \notin Follower /\ Follower \subseteq Vehicle
      /\ f \in Vehicle /\ f # Leader
  BY Types
<1>2. \A a, b \in Vehicle : \A k :
        /\ Holds(ch[a][b], k) => Holds(channel[a][b], k)
        /\ a # u \/ b # f => (Holds(ch[a][b], k) <=> Holds(channel[a][b], k))
  BY <1>1 DEF FollowerStep, Dequeued
<1>3. \A a, b \in Vehicle : \A k :
        Holds(channel'[a][b], k) <=> Holds(ch[a][b], k) \/ (a = f /\ b \in dest /\ sent = k)
  BY DEF FollowerStep, SentTo
<1>4. \A g \in Follower : \A lane :
        WarnsOf(channel[Leader][g], lane) => WarnsOf(channel'[Leader][g], lane)
  BY <1>1 DEF FollowerStep, Dequeued, SentTo, FirstKind
<1>5. u = Leader => \A k \in FirstKind :
        ~Holds(channel'[Leader][f], k) /\ (k # kind => ~Holds(channel[Leader][f], k))
  BY <1>1, <1>3 DEF FollowerStep, Dequeued
<1>6. QED
  BY <1>1, <1>2, <1>3, <1>4, <1>5 DEF FollowerEffect

(* A follower answers WarnLaneChange.                                      *)
LEMMA WarnAccepted ==
  ASSUME TypeInv, SafetyInv, NEW f \in Follower, Receives(Leader, f, "WarnLaneChange"),
         Enter(f, "PREPARE_LANE_CHANGE", Head(channel[Leader][f]).lane),
         channel' = SendUnicast(Dequeue(Leader, f), f, Leader, Plain("WarnLaneChangeAck")),
         UNCHANGED <<laneVars, leaderVars, runVars>>
  PROVE  SafetyInv'
<1> DEFINE ch == Dequeue(Leader, f)
           ack == "WarnLaneChangeAck"
<1>1. /\ Leader \in Vehicle /\ Leader \notin Follower /\ Follower \subseteq Vehicle
      /\ f \in Vehicle /\ f # Leader
  BY Types
<1>2. Routes /\ Vote /\ Changing /\ Changed /\ Closing
  BY DEF SafetyInv
<1>3. Dequeued(ch, Leader, f, "WarnLaneChange") /\ ch \in Channels
  BY <1>1, <1>2, DequeuedLemma DEF Dequeued
<1>4. Plain(ack) \in Message /\ Plain(ack).kind = ack
  BY PlainType DEF MessageKind
<1>5. channel' = SendToAll(ch, f, {Leader}, Plain(ack))
  BY <1>1, <1>3, <1>4, SendUnicastLemma
<1>6. SentTo(ch, f, {Leader}, ack)
  BY <1>1, <1>3, <1>4, <1>5, SentToLemma
<1>7. /\ maneuverState' = [maneuverState EXCEPT ![f] = "PREPARE_LANE_CHANGE"]
      /\ inManeuver' = [inManeuver EXCEPT ![f] = TRUE]
      /\ nextDestination' = [nextDestination EXCEPT ![f] = Head(channel[Leader][f]).lane]
      /\ UNCHANGED <<platoonLane, laneChanges, receivedAck, timer, starts>>
  BY DEF Enter, laneVars, leaderVars, runVars
<1>8. FollowerStep(ch, Leader, f, "WarnLaneChange", {Leader}, ack)
  BY <1>1, <1>3, <1>6, <1>7, Types DEF FollowerStep, FirstKind
<1>9. NotStarted' /\ Routes' /\ LeaderPhase'
  BY <1>1, <1>8, FollowerFrame
<1>10. /\ maneuverState'[f] = "PREPARE_LANE_CHANGE"
       /\ inManeuver'[f]
       /\ nextDestination'[f] = Head(channel[Leader][f]).lane
       /\ \A g \in Vehicle : g # f =>
            /\ maneuverState'[g] = maneuverState[g]
            /\ inManeuver'[g] = inManeuver[g]
            /\ nextDestination'[g] = nextDestination[g]
  BY <1>1, <1>7, Types
<1>11. Holds(channel[Leader][f], "WarnLaneChange") /\ ~Committed /\ ~Acked(f)
  BY <1>2, <1>3 DEF Dequeued, Vote, InFlight
<1>12. ~Committed'
  BY <1>7, <1>11 DEF Committed
<1>13. /\ \A g \in Follower : \A k :
            /\ Holds(channel'[Leader][g], k) => Holds(channel[Leader][g], k)
            /\ g # f => (Holds(channel[Leader][g], k) <=> Holds(channel'[Leader][g], k))
       /\ \A g \in Follower, v \in Vehicle : \A k :
            Holds(channel'[g][v], k) <=>
              Holds(channel[g][v], k) \/ (g = f /\ v = Leader /\ k = ack)
       /\ \A k \in FirstKind :
            ~Holds(channel'[Leader][f], k) /\ (k # "WarnLaneChange" => ~Holds(channel[Leader][f], k))
       /\ \A g \in Follower : \A lane :
            WarnsOf(channel[Leader][g], lane) => WarnsOf(channel'[Leader][g], lane)
  <2>1. FollowerEffect(ch, Leader, f, "WarnLaneChange", {Leader}, ack)
    BY <1>1, <1>8, FollowerQueues
  <2>2. QED
    BY <1>1, <2>1 DEF FollowerEffect
<1>14. \A g \in Follower : g # f =>
         /\ Acked(g)' <=> Acked(g)
         /\ Vetoed(g)' <=> Vetoed(g)
         /\ Ready(g)' <=> Ready(g)
  BY <1>1, <1>7, <1>10, <1>13 DEF Acked, Vetoed, Ready, InFlight
<1>15. Vote'
  <2>1. ASSUME NEW g \in Follower, Holds(channel'[Leader][g], "WarnLaneChange")
        PROVE  ~Acked(g)'
    <3>1. g # f /\ Holds(channel[Leader][g], "WarnLaneChange")
      BY <1>13, <2>1 DEF FirstKind
    <3>2. QED
      BY <1>2, <1>14, <3>1 DEF Vote, InFlight
  <2>2. ASSUME NEW g \in Follower, maneuverState'[Leader] = "WAIT_REPLY"
        PROVE  /\ WarnsOf(channel'[Leader][g], nextDestination'[Leader])
               /\ Acked(g)' => Ready(g)' \/ \E h \in Follower : Vetoed(h)'
    <3>1. maneuverState[Leader] = "WAIT_REPLY" /\ nextDestination'[Leader] = nextDestination[Leader]
      BY <1>1, <1>10, <2>2
    <3>2. WarnsOf(channel[Leader][g], nextDestination[Leader])
      BY <1>2, <3>1 DEF Vote
    <3>3. CASE g = f
      <4>1. channel[Leader][f] \in Seq(Message) /\ channel[Leader][f] # <<>>
            /\ Head(channel[Leader][f]).kind = "WarnLaneChange"
        BY <1>1, Types DEF Receives, Channels
      <4>2. Head(channel[Leader][f]).lane = nextDestination[Leader]
        BY <3>2, <3>3, <4>1, TailFirst
      <4>3. Ready(f)'
        BY <1>10, <3>1, <4>2 DEF Ready
      <4>4. QED
        BY <1>13, <3>1, <3>2, <3>3, <4>3
    <3>4. CASE g # f
      <4>1. ~Vetoed(f)
        BY <1>11 DEF Vetoed, InFlight
      <4>2. Acked(g) => Ready(g) \/ \E h \in Follower : h # f /\ Vetoed(h)
        BY <1>2, <3>1, <4>1 DEF Vote
      <4>3. QED
        BY <1>13, <1>14, <3>1, <3>2, <3>4, <4>2
    <3>5. QED
      BY <3>3, <3>4
  <2>3. ASSUME NEW g \in Follower, NEW v \in Vehicle, Holds(channel'[g][v], "Abort")
        PROVE  Vetoed(g)'
    <3>1. Holds(channel[g][v], "Abort")
      BY <1>13, <2>3
    <3>2. Vetoed(g)
      BY <1>2, <3>1 DEF Vote, InFlight
    <3>3. QED
      BY <1>11, <1>14, <3>2 DEF Vetoed, InFlight
  <2>4. QED
    BY <1>12, <2>1, <2>2, <2>3 DEF Vote, InFlight
<1>16. Changing'
  BY <1>1, <1>2, <1>7, <1>10, <1>11, <1>12, <1>13 DEF Changing, InFlight, FirstKind
<1>17. Changed'
  BY <1>1, <1>2, <1>9, <1>11, <1>12, <1>13 DEF Changed, LeaderPhase, InFlight
<1>18. Closing'
  BY <1>2, <1>11, <1>13 DEF Closing, InFlight
<1>20. QED
  BY <1>9, <1>15, <1>16, <1>17, <1>18 DEF SafetyInv

(* A follower refuses WarnLaneChange.                                      *)
LEMMA WarnRefused ==
  ASSUME TypeInv, SafetyInv, NEW f \in Follower, Receives(Leader, f, "WarnLaneChange"),
         AbortManeuver(f, Dequeue(Leader, f)),
         UNCHANGED <<laneVars, leaderVars, runVars>>
  PROVE  SafetyInv'
<1> DEFINE ch == Dequeue(Leader, f)
           others == Vehicle \ {f}
<1>1. /\ Leader \in Vehicle /\ Leader \notin Follower /\ Follower \subseteq Vehicle
      /\ f \in Vehicle /\ f # Leader
  BY Types
<1>2. Routes /\ Vote /\ Changing /\ Changed /\ Closing
  BY DEF SafetyInv
<1>3. Dequeued(ch, Leader, f, "WarnLaneChange") /\ ch \in Channels
  BY <1>1, <1>2, DequeuedLemma DEF Dequeued
<1>4. Plain("Abort") \in Message /\ Plain("Abort").kind = "Abort"
  BY PlainType DEF MessageKind
<1>5. channel' = SendToAll(ch, f, others, Plain("Abort"))
  BY DEF AbortManeuver
<1>6. SentTo(ch, f, others, "Abort")
  BY <1>1, <1>3, <1>4, <1>5, SentToLemma
<1>7. /\ maneuverState' = [maneuverState EXCEPT ![f] = "IDLE"]
      /\ inManeuver' = [inManeuver EXCEPT ![f] = FALSE]
      /\ nextDestination' = [nextDestination EXCEPT ![f] = NoLane]
      /\ UNCHANGED <<platoonLane, laneChanges, receivedAck, timer, starts>>
  BY DEF AbortManeuver, Release, laneVars, leaderVars, runVars
<1>8. FollowerStep(ch, Leader, f, "WarnLaneChange", others, "Abort")
  BY <1>1, <1>3, <1>6, <1>7, Types DEF FollowerStep, FirstKind
<1>9. NotStarted' /\ Routes' /\ LeaderPhase'
  BY <1>1, <1>8, FollowerFrame
<1>10. /\ maneuverState'[f] = "IDLE"
       /\ \A g \in Vehicle : g # f =>
            /\ maneuverState'[g] = maneuverState[g]
            /\ inManeuver'[g] = inManeuver[g]
            /\ nextDestination'[g] = nextDestination[g]
  BY <1>1, <1>7, Types
<1>11. Holds(channel[Leader][f], "WarnLaneChange") /\ ~Committed /\ ~Acked(f)
  BY <1>2, <1>3 DEF Dequeued, Vote, InFlight
<1>12. ~Committed'
  BY <1>7, <1>11 DEF Committed
<1>13. /\ \A g \in Follower : \A k :
            /\ Holds(channel'[Leader][g], k) => Holds(channel[Leader][g], k)
            /\ g # f => (Holds(channel[Leader][g], k) <=> Holds(channel'[Leader][g], k))
       /\ \A g \in Follower, v \in Vehicle : \A k :
            Holds(channel'[g][v], k) <=>
              Holds(channel[g][v], k) \/ (g = f /\ v \in others /\ k = "Abort")
       /\ \A k \in FirstKind :
            ~Holds(channel'[Leader][f], k) /\ (k # "WarnLaneChange" => ~Holds(channel[Leader][f], k))
       /\ \A g \in Follower : \A lane :
            WarnsOf(channel[Leader][g], lane) => WarnsOf(channel'[Leader][g], lane)
  <2>1. FollowerEffect(ch, Leader, f, "WarnLaneChange", others, "Abort")
    BY <1>1, <1>8, FollowerQueues
  <2>2. QED
    BY <1>1, <2>1 DEF FollowerEffect
<1>14. \A g \in Follower : Acked(g)' <=> Acked(g)
  BY <1>1, <1>7, <1>13 DEF Acked, InFlight
<1>15. Vetoed(f)' /\ \A g \in Follower : Vetoed(g) => Vetoed(g)'
  BY <1>11, <1>13, <1>14 DEF Vetoed, InFlight, FirstKind
<1>16. Vote'
  <2>1. ASSUME NEW g \in Follower, Holds(channel'[Leader][g], "WarnLaneChange")
        PROVE  ~Acked(g)'
    BY <1>2, <1>13, <1>14, <2>1 DEF Vote, InFlight
  <2>2. ASSUME NEW g \in Follower, maneuverState'[Leader] = "WAIT_REPLY"
        PROVE  WarnsOf(channel'[Leader][g], nextDestination'[Leader])
    BY <1>1, <1>2, <1>10, <1>13, <2>2 DEF Vote
  <2>3. ASSUME NEW g \in Follower, NEW v \in Vehicle, Holds(channel'[g][v], "Abort")
        PROVE  Vetoed(g)'
    <3>1. g = f \/ Holds(channel[g][v], "Abort")
      BY <1>13, <2>3
    <3>2. QED
      BY <1>2, <1>15, <3>1 DEF Vote, InFlight
  <2>4. QED
    BY <1>12, <1>15, <2>1, <2>2, <2>3 DEF Vote, InFlight
<1>17. Changing'
  BY <1>1, <1>2, <1>7, <1>10, <1>11, <1>12, <1>13 DEF Changing, InFlight, FirstKind
<1>18. Changed'
  BY <1>1, <1>2, <1>9, <1>11, <1>12, <1>13 DEF Changed, LeaderPhase, InFlight
<1>19. Closing'
  BY <1>2, <1>11, <1>13 DEF Closing, InFlight
<1>21. QED
  BY <1>9, <1>16, <1>17, <1>18, <1>19 DEF SafetyInv

(* A follower leaves the manoeuvre on LaneChangeClose or Abort.            *)
LEMMA FollowerLeaves ==
  ASSUME TypeInv, SafetyInv, NEW u \in Vehicle, NEW f \in Follower,
         NEW kind \in {"LaneChangeClose", "Abort"}, Receives(u, f, kind),
         channel' = Dequeue(u, f), Release(f),
         UNCHANGED <<laneVars, leaderVars, runVars>>
  PROVE  SafetyInv'
<1> DEFINE ch == Dequeue(u, f)
<1>1. /\ Leader \in Vehicle /\ Leader \notin Follower /\ Follower \subseteq Vehicle
      /\ f \in Vehicle /\ f # Leader /\ Vehicle = {Leader} \cup Follower
  BY Types
<1>2. Routes /\ LeaderPhase /\ Vote /\ Changing /\ Changed /\ Closing
  BY DEF SafetyInv
<1>3. Dequeued(ch, u, f, kind) /\ ch \in Channels
  <2>1. Dequeued(ch, u, f, kind)
    BY <1>1, <1>2, DequeuedLemma
  <2>2. QED
    BY <2>1 DEF Dequeued
<1>4. SentTo(ch, f, {}, "")
  BY <1>1, <1>3, NothingSent
<1>5. /\ maneuverState' = [maneuverState EXCEPT ![f] = "IDLE"]
      /\ inManeuver' = [inManeuver EXCEPT ![f] = FALSE]
      /\ nextDestination' = [nextDestination EXCEPT ![f] = NoLane]
      /\ UNCHANGED <<platoonLane, laneChanges, receivedAck, timer, starts>>
  BY DEF Release, laneVars, leaderVars, runVars
<1>6. FollowerStep(ch, u, f, kind, {}, "")
  BY <1>1, <1>3, <1>4, <1>5, Types DEF FollowerStep, FirstKind
<1>7. NotStarted' /\ Routes' /\ LeaderPhase'
  BY <1>1, <1>6, FollowerFrame
<1>8. /\ maneuverState'[f] = "IDLE"
      /\ \A g \in Vehicle : g # f =>
           /\ maneuverState'[g] = maneuverState[g]
           /\ inManeuver'[g] = inManeuver[g]
           /\ nextDestination'[g] = nextDestination[g]
  BY <1>1, <1>5, Types
<1>9. /\ \A g \in Follower : \A k :
           /\ Holds(channel'[Leader][g], k) => Holds(channel[Leader][g], k)
           /\ g # f \/ u # Leader =>
                (Holds(channel[Leader][g], k) <=> Holds(channel'[Leader][g], k))
      /\ \A g \in Follower, v \in Vehicle : \A k :
           /\ Holds(channel'[g][v], k) => Holds(channel[g][v], k)
           /\ v # f => (Holds(channel[g][v], k) <=> Holds(channel'[g][v], k))
      /\ u = Leader => \A k \in FirstKind :
           ~Holds(channel'[Leader][f], k) /\ (k # kind => ~Holds(channel[Leader][f], k))
      /\ \A g \in Follower : \A lane :
           WarnsOf(channel[Leader][g], lane) => WarnsOf(channel'[Leader][g], lane)
  <2>1. FollowerEffect(ch, u, f, kind, {}, "")
    BY <1>1, <1>6, FollowerQueues
  <2>2. QED
    BY <1>1, <2>1 DEF FollowerEffect
<1>10. /\ u = Leader => maneuverState[Leader] = "IDLE"
       /\ u # Leader => ~Committed /\ u \in Follower /\ Vetoed(u)
  <2>1. Holds(channel[u][f], kind)
    BY <1>3 DEF Dequeued
  <2>2. CASE kind = "LaneChangeClose"
    BY <1>1, <1>2, <2>1, <2>2 DEF Routes, Closing, InFlight, FirstKind
  <2>3. CASE kind = "Abort"
    BY <1>1, <1>2, <2>1, <2>3 DEF LeaderPhase, Vote, InFlight
  <2>4. QED
    BY <2>2, <2>3
<1>11. /\ \A g \in Follower : Acked(g)' <=> Acked(g)
       /\ \A g \in Follower : Vetoed(g) => Vetoed(g)'
       /\ Committed' <=> Committed
  BY <1>1, <1>5, <1>9 DEF Acked, Vetoed, InFlight, Committed
<1>12. Vote'
  <2>1. ASSUME NEW g \in Follower, Holds(channel'[Leader][g], "WarnLaneChange")
        PROVE  ~Acked(g)' /\ ~Committed'
    BY <1>2, <1>9, <1>11, <2>1 DEF Vote, InFlight
  <2>2. ASSUME NEW g \in Follower, maneuverState'[Leader] = "WAIT_REPLY"
        PROVE  WarnsOf(channel'[Leader][g], nextDestination'[Leader]) /\ Vetoed(u)'
    BY <1>1, <1>2, <1>8, <1>9, <1>10, <1>11, <2>2 DEF Vote
  <2>3. ASSUME NEW g \in Follower, NEW v \in Vehicle, Holds(channel'[g][v], "Abort")
        PROVE  Vetoed(g)' /\ ~Committed'
    BY <1>2, <1>9, <1>11, <2>3 DEF Vote, InFlight
  <2>4. u \in Follower \/ maneuverState'[Leader] # "WAIT_REPLY"
    BY <1>1, <1>8, <1>10
  <2>5. QED
    BY <2>1, <2>2, <2>3, <2>4 DEF Vote, InFlight
<1>13. Changing'
  <2>1. ~Holds(channel[Leader][f], "StartSignal") \/ ~Committed
    BY <1>9, <1>10 DEF FirstKind
  <2>2. QED
    BY <1>1, <1>2, <1>5, <1>8, <1>9, <1>11, <2>1 DEF Changing, InFlight, FirstKind
<1>14. Changed'
  BY <1>1, <1>2, <1>5, <1>8, <1>9, <1>10, <1>11 DEF Changed, LeaderPhase, InFlight
<1>15. Closing'
  BY <1>1, <1>2, <1>5, <1>8, <1>9, <1>10, <1>11 DEF Closing, InFlight, FirstKind
<1>17. QED
  BY <1>7, <1>12, <1>13, <1>14, <1>15 DEF SafetyInv

(* A follower carries out StartSignal.                                     *)
LEMMA StartAccepted ==
  ASSUME TypeInv, SafetyInv, NEW f \in Follower, Receives(Leader, f, "StartSignal"),
         SetFixedLane(f, nextDestination[f], FALSE),
         SetPlatoonLane(f, nextDestination[f]),
         Proceed(f, "COMPLETE_LANE_CHANGE"),
         channel' = SendUnicast(Dequeue(Leader, f), f, Leader, Plain("LaneChanged")),
         UNCHANGED <<leaderVars, runVars>>
  PROVE  SafetyInv'
<1> DEFINE ch == Dequeue(Leader, f)
           reply == "LaneChanged"
<1>1. /\ Leader \in Vehicle /\ Leader \notin Follower /\ Follower \subseteq Vehicle
      /\ f \in Vehicle /\ f # Leader
  BY Types
<1>2. Routes /\ Vote /\ Changing /\ Changed /\ Closing
  BY DEF SafetyInv
<1>3. Dequeued(ch, Leader, f, "StartSignal") /\ ch \in Channels
  BY <1>1, <1>2, DequeuedLemma DEF Dequeued
<1>4. Plain(reply) \in Message /\ Plain(reply).kind = reply
  BY PlainType DEF MessageKind
<1>5. channel' = SendToAll(ch, f, {Leader}, Plain(reply))
  BY <1>1, <1>3, <1>4, SendUnicastLemma
<1>6. SentTo(ch, f, {Leader}, reply)
  BY <1>1, <1>3, <1>4, <1>5, SentToLemma
<1>7. /\ maneuverState' = [maneuverState EXCEPT ![f] = "COMPLETE_LANE_CHANGE"]
      /\ platoonLane' = [platoonLane EXCEPT ![f] = nextDestination[f]]
      /\ laneChanges' = [laneChanges EXCEPT
                           ![f] = [lane |-> nextDestination[f], safe |-> FALSE, wait |-> FALSE]]
      /\ UNCHANGED <<inManeuver, nextDestination, receivedAck, timer, starts>>
  BY DEF Proceed, SetPlatoonLane, SetFixedLane, leaderVars, runVars
<1>8. FollowerStep(ch, Leader, f, "StartSignal", {Leader}, reply)
  BY <1>1, <1>3, <1>6, <1>7, Types DEF FollowerStep, FirstKind
<1>9. NotStarted' /\ Routes' /\ LeaderPhase'
  BY <1>1, <1>8, FollowerFrame
<1>10. /\ Committed
       /\ inManeuver[f]
       /\ nextDestination[f] = platoonLane[Leader]
  BY <1>2, <1>3 DEF Dequeued, Changing, InFlight
<1>11. /\ maneuverState'[f] = "COMPLETE_LANE_CHANGE"
       /\ platoonLane'[f] = platoonLane[Leader]
       /\ laneChanges'[f].lane = platoonLane[Leader]
       /\ \A g \in Vehicle : g # f =>
            /\ maneuverState'[g] = maneuverState[g]
            /\ platoonLane'[g] = platoonLane[g]
            /\ laneChanges'[g] = laneChanges[g]
  BY <1>1, <1>7, <1>10, Types
<1>12. Committed'
  BY <1>1, <1>10, <1>11 DEF Committed
<1>13. /\ \A g \in Follower : \A k :
            /\ Holds(channel'[Leader][g], k) => Holds(channel[Leader][g], k)
            /\ g # f => (Holds(channel[Leader][g], k) <=> Holds(channel'[Leader][g], k))
       /\ \A g \in Follower, v \in Vehicle : \A k :
            Holds(channel'[g][v], k) <=>
              Holds(channel[g][v], k) \/ (g = f /\ v = Leader /\ k = reply)
       /\ \A k \in FirstKind :
            ~Holds(channel'[Leader][f], k) /\ (k # "StartSignal" => ~Holds(channel[Leader][f], k))
  <2>1. FollowerEffect(ch, Leader, f, "StartSignal", {Leader}, reply)
    BY <1>1, <1>8, FollowerQueues
  <2>2. QED
    BY <1>1, <2>1 DEF FollowerEffect
<1>14. Vote'
  <2>1. \A g \in Follower : ~Holds(channel'[Leader][g], "WarnLaneChange")
    BY <1>2, <1>10, <1>13 DEF Vote, InFlight
  <2>2. maneuverState'[Leader] # "WAIT_REPLY"
    BY <1>9, <1>12 DEF LeaderPhase
  <2>3. \A g \in Follower, v \in Vehicle : ~Holds(channel'[g][v], "Abort")
    BY <1>2, <1>10, <1>13 DEF Vote, InFlight
  <2>4. QED
    BY <2>1, <2>2, <2>3 DEF Vote, InFlight
<1>15. Changing'
  BY <1>1, <1>2, <1>7, <1>11, <1>12, <1>10, <1>13 DEF Changing, InFlight, FirstKind
<1>16. Changed'
  BY <1>1, <1>2, <1>7, <1>10, <1>11, <1>12, <1>13, SMTT(30) DEF Changed, InFlight
<1>17. Closing'
  BY <1>1, <1>2, <1>3, <1>13 DEF Closing, InFlight, Dequeued
<1>19. QED
  BY <1>9, <1>14, <1>15, <1>16, <1>17 DEF SafetyInv

-----------------------------------------------------------------------------
(* Steps of the leader *)

LEMMA RoutesKept ==
  ASSUME Routes,
         \A a, b \in Vehicle : \A k :
           k # "Abort" /\ Holds(channel'[a][b], k) => Holds(channel[a][b], k),
         \A g \in Follower, k \in FirstKind : First(channel'[Leader][g], k)
  PROVE  Routes'
<1>1. \A a, b \in Vehicle, k \in FirstKind :
        Holds(channel'[a][b], k) => a = Leader /\ b \in Follower
  BY DEF Routes, InFlight, FirstKind
<1>2. \A a, b \in Vehicle, k \in {"WarnLaneChangeAck", "LaneChanged"} :
        Holds(channel'[a][b], k) => a \in Follower /\ b = Leader
  BY DEF Routes, InFlight
<1>3. QED
  BY <1>1, <1>2 DEF Routes, InFlight

(* The leader handles a message and sends nothing: it ignores the message, *)
(* counts it, or leaves the manoeuvre.                                     *)
LEMMA LeaderReceives ==
  ASSUME TypeInv, SafetyInv, NEW u \in Vehicle, NEW kind, Receives(u, Leader, kind),
         channel' = Dequeue(u, Leader),
         UNCHANGED <<laneVars, timer, runVars>>,
         \/ UNCHANGED <<maneuverVars, receivedAck>>
         \/ /\ kind = "WarnLaneChangeAck" /\ maneuverState[Leader] = "WAIT_REPLY"
            /\ receivedAck' = receivedAck \cup {u}
            /\ UNCHANGED maneuverVars
         \/ /\ kind = "LaneChanged" /\ maneuverState[Leader] = "WAIT_ALL_CHANGED"
            /\ receivedAck' = receivedAck \cup {u}
            /\ UNCHANGED maneuverVars
         \/ Release(Leader) /\ UNCHANGED receivedAck
  PROVE  SafetyInv'
<1> DEFINE ch == Dequeue(u, Leader)
           counts(k, state) == /\ kind = k /\ maneuverState[Leader] = state
                               /\ receivedAck' = receivedAck \cup {u}
<1>1. /\ Leader \in Vehicle /\ Leader \notin Follower /\ Follower \subseteq Vehicle
      /\ Vehicle = {Leader} \cup Follower
  BY Types
<1>2. /\ NotStarted /\ Routes /\ LeaderPhase /\ Vote /\ Changing
      /\ Changed /\ Closing
  BY DEF SafetyInv
<1>3. Dequeued(ch, u, Leader, kind)
  BY <1>1, <1>2, DequeuedLemma
<1>4. /\ Holds(channel[u][Leader], kind)
      /\ \A a, b \in Vehicle : \A k : Holds(channel'[a][b], k) => Holds(channel[a][b], k)
      /\ \A a, b \in Vehicle : \A k :
           a # u \/ b # Leader => (Holds(channel'[a][b], k) <=> Holds(channel[a][b], k))
      /\ \A g \in Follower : channel'[Leader][g] = channel[Leader][g]
  BY <1>1, <1>3 DEF Dequeued
<1>5. /\ UNCHANGED <<platoonLane, laneChanges, timer, starts>>
      /\ Committed' <=> Committed
  BY DEF laneVars, runVars, Committed
<1>6. /\ \A g \in Follower :
           /\ maneuverState'[g] = maneuverState[g]
           /\ inManeuver'[g] = inManeuver[g]
           /\ nextDestination'[g] = nextDestination[g]
      /\ \/ maneuverState'[Leader] = "IDLE"
         \/ /\ maneuverState'[Leader] = maneuverState[Leader]
            /\ nextDestination'[Leader] = nextDestination[Leader]
      /\ maneuverState[Leader] = "IDLE" => maneuverState'[Leader] = "IDLE"
  BY <1>1, Types DEF maneuverVars, Release
<1>7. \/ receivedAck' = receivedAck
      \/ counts("WarnLaneChangeAck", "WAIT_REPLY")
      \/ counts("LaneChanged", "WAIT_ALL_CHANGED")
  OBVIOUS
<1>8. NotStarted'
  BY <1>1, <1>2, <1>4, <1>5 DEF NotStarted, Holds
<1>9. Routes'
  <2>1. \A g \in Follower, k \in FirstKind : First(channel'[Leader][g], k)
    BY <1>2, <1>4 DEF Routes
  <2>2. QED
    BY <1>2, <1>4, <2>1, RoutesKept
<1>10. LeaderPhase'
  BY <1>1, <1>2, <1>4, <1>5, <1>6 DEF LeaderPhase, InFlight
<1>11. \A g \in Follower : Acked(g)' => Acked(g) \/ Committed
  BY <1>1, <1>2, <1>4, <1>7 DEF Acked, InFlight, LeaderPhase
<1>12. \A g \in Follower : ~Committed /\ Vetoed(g) => Vetoed(g)'
  BY <1>4, <1>11 DEF Vetoed, InFlight
<1>13. Vote'
  <2>1. ASSUME NEW g \in Follower, Holds(channel'[Leader][g], "WarnLaneChange")
        PROVE  ~Committed' /\ ~Acked(g)'
    BY <1>2, <1>4, <1>5, <1>11, <2>1 DEF Vote, InFlight
  <2>2. ASSUME NEW g \in Follower, maneuverState'[Leader] = "WAIT_REPLY"
        PROVE  /\ WarnsOf(channel'[Leader][g], nextDestination'[Leader])
               /\ Acked(g)' => Ready(g)' \/ \E h \in Follower : Vetoed(h)'
    <3>1. /\ maneuverState[Leader] = "WAIT_REPLY" /\ ~Committed
          /\ nextDestination'[Leader] = nextDestination[Leader]
      BY <1>2, <1>6, <2>2 DEF LeaderPhase
    <3>2. Ready(g) => Ready(g)'
      BY <1>6, <3>1 DEF Ready
    <3>3. QED
      BY <1>2, <1>4, <1>11, <1>12, <3>1, <3>2 DEF Vote
  <2>3. ASSUME NEW g \in Follower, NEW v \in Vehicle, Holds(channel'[g][v], "Abort")
        PROVE  ~Committed' /\ Vetoed(g)'
    BY <1>1, <1>2, <1>4, <1>5, <1>12, <2>3 DEF Vote, InFlight
  <2>4. QED
    BY <2>1, <2>2, <2>3 DEF Vote, InFlight
<1>14. Changing'
  BY <1>2, <1>4, <1>5, <1>6 DEF Changing, InFlight
<1>15. Changed'
  <2>1. ASSUME NEW g \in Follower, Holds(channel'[g][Leader], "LaneChanged")
        PROVE  Committed'
    BY <1>1, <1>2, <1>4, <1>5, <2>1 DEF Changed, InFlight
  <2>2. ASSUME NEW g \in Follower, maneuverState'[Leader] = "WAIT_ALL_CHANGED",
               g \in receivedAck' \/ Holds(channel'[g][Leader], "LaneChanged")
        PROVE  maneuverState'[g] = "COMPLETE_LANE_CHANGE" /\ inManeuver'[g]
    <3>1. maneuverState[Leader] = "WAIT_ALL_CHANGED"
      BY <1>6, <2>2
    <3>2. g \in receivedAck \/ Holds(channel[g][Leader], "LaneChanged")
      BY <1>1, <1>4, <1>7, <2>2, <3>1
    <3>3. QED
      BY <1>2, <1>6, <3>1, <3>2 DEF Changed, InFlight
  <2>3. QED
    BY <2>1, <2>2 DEF Changed, InFlight
<1>16. Closing'
  BY <1>2, <1>4, <1>5, <1>6 DEF Closing, InFlight
<1>18. QED
  BY <1>8, <1>9, <1>10, <1>13, <1>14, <1>15, <1>16 DEF SafetyInv

(* The leader's timeout: it aborts the manoeuvre and tells its followers.  *)
LEMMA LeaderTimesOut == TypeInv /\ SafetyInv /\ HandleTimeoutMsg => SafetyInv'
<1> SUFFICES ASSUME TypeInv, SafetyInv, HandleTimeoutMsg PROVE SafetyInv'
  OBVIOUS
<1> DEFINE others == Vehicle \ {Leader}
<1>1. /\ Leader \in Vehicle /\ Leader \notin Follower /\ Follower \subseteq Vehicle
      /\ Vehicle = {Leader} \cup Follower /\ channel \in Channels /\ timer \in Timer
  BY Types
<1>2. /\ NotStarted /\ Routes /\ LeaderPhase /\ Vote /\ Changing
      /\ Changed /\ Closing
  BY DEF SafetyInv
<1>3. /\ UNCHANGED <<platoonLane, laneChanges, receivedAck, starts>>
      /\ AbortManeuver(Leader, channel)
      /\ Committed' <=> Committed
  BY DEF HandleTimeoutMsg, laneVars, runVars, Committed
<1>4. /\ timer.pointer = "scheduled"
      /\ timer'.pointer # "scheduled"
      /\ timer'.orphans = 0
  <2>1. timer.pointer = "scheduled" /\ timer' = [timer EXCEPT !.pointer = "delivered"]
    BY <1>2 DEF HandleTimeoutMsg, LeaderPhase
  <2>2. QED
    BY <1>1, <1>2, <2>1, PointerExcept DEF LeaderPhase, TimerPointer
<1>5. Plain("Abort") \in Message /\ Plain("Abort").kind = "Abort"
  BY PlainType DEF MessageKind
<1>6. SentTo(channel, Leader, others, "Abort")
  BY <1>1, <1>3, <1>5, SentToLemma DEF AbortManeuver
<1>7. /\ \A a, b \in Vehicle : \A k :
           Holds(channel'[a][b], k) <=>
             Holds(channel[a][b], k) \/ (a = Leader /\ b \in others /\ "Abort" = k)
      /\ \A g \in Follower, k \in FirstKind : First(channel'[Leader][g], k)
  BY <1>1, <1>2, <1>6, SMTT(30) DEF SentTo, Routes, FirstKind
<1>8. /\ \A g \in Follower :
           /\ maneuverState'[g] = maneuverState[g]
           /\ inManeuver'[g] = inManeuver[g]
           /\ nextDestination'[g] = nextDestination[g]
      /\ maneuverState'[Leader] = "IDLE"
  BY <1>1, <1>3, Types DEF AbortManeuver, Release
<1>9. NotStarted'
  BY <1>2, <1>3, <1>4 DEF NotStarted
<1>10. Routes'
  BY <1>2, <1>7, RoutesKept
<1>11. LeaderPhase'
  BY <1>4, <1>8 DEF LeaderPhase
<1>12. Vote'
  BY <1>1, <1>2, <1>3, <1>7, <1>8 DEF Vote, Acked, Vetoed, InFlight
<1>13. Changing'
  BY <1>1, <1>2, <1>3, <1>7, <1>8 DEF Changing, InFlight
<1>14. Changed'
  BY <1>1, <1>2, <1>3, <1>7, <1>8 DEF Changed, InFlight
<1>15. Closing'
  BY <1>1, <1>2, <1>3, <1>4, <1>7, <1>8 DEF Closing, InFlight
<1>16. QED
  BY <1>9, <1>10, <1>11, <1>12, <1>13, <1>14, <1>15 DEF SafetyInv

(* What holds when the last acknowledgement arrives.                       *)
LEMMA CommitPoint ==
  ASSUME TypeInv, SafetyInv, NEW u \in Vehicle, Receives(u, Leader, "WarnLaneChangeAck"),
         maneuverState[Leader] = "WAIT_REPLY", AllAcked(receivedAck \cup {u})
  PROVE  /\ u \in Follower
         /\ ~Committed
         /\ nextDestination[Leader] \in Destination(StartLane)
         /\ \A f \in Follower :
              /\ Ready(f)
              /\ platoonLane[f] = StartLane
              /\ channel[Leader][f] = <<>>
              /\ ~InFlight("LaneChanged", f, Leader)
              /\ \A v \in Vehicle : ~InFlight("Abort", f, v)
<1>1. /\ Leader \in Vehicle /\ Leader \notin Follower /\ Follower \subseteq Vehicle
      /\ channel \in Channels
  BY Types
<1>2. Routes /\ LeaderPhase /\ Vote /\ Changing /\ Changed /\ Closing
  BY DEF SafetyInv
<1>3. Holds(channel[u][Leader], "WarnLaneChangeAck")
  BY <1>1, ReceiveLemma
<1>4. u \in Follower /\ ~Committed /\ nextDestination[Leader] \in Destination(StartLane)
  BY <1>1, <1>2, <1>3 DEF Routes, InFlight, LeaderPhase
<1>5. \A f \in Follower : Acked(f) /\ ~Vetoed(f)
  BY <1>3 DEF AllAcked, Acked, Vetoed, InFlight
<1>6. ASSUME NEW f \in Follower
      PROVE  /\ Ready(f)
             /\ platoonLane[f] = StartLane
             /\ ~InFlight("LaneChanged", f, Leader)
             /\ \A v \in Vehicle : ~InFlight("Abort", f, v)
  <2>1. Ready(f)
    BY <1>2, <1>5 DEF Vote
  <2>2. \A v \in Vehicle : ~InFlight("Abort", f, v)
    BY <1>2, <1>5 DEF Vote
  <2>3. platoonLane[f] = StartLane /\ ~InFlight("LaneChanged", f, Leader)
    BY <1>2, <1>4 DEF Changing, Changed, Committed
  <2>4. QED
    BY <2>1, <2>2, <2>3
<1>7. ASSUME NEW f \in Follower PROVE channel[Leader][f] = <<>>
  <2>1. ~InFlight("WarnLaneChange", Leader, f)
    BY <1>2, <1>5 DEF Vote
  <2>2. ~InFlight("StartSignal", Leader, f) /\ ~InFlight("LaneChangeClose", Leader, f)
    BY <1>2, <1>4 DEF Changing, Closing
  <2>3. ~InFlight("Abort", Leader, f)
    BY <1>1, <1>2 DEF LeaderPhase
  <2>4. ~InFlight("WarnLaneChangeAck", Leader, f) /\ ~InFlight("LaneChanged", Leader, f)
    BY <1>1, <1>2 DEF Routes
  <2>5. \A k \in MessageKind : ~Holds(channel[Leader][f], k)
    BY <2>1, <2>2, <2>3, <2>4 DEF MessageKind, InFlight
  <2>6. channel[Leader][f] \in Seq(Message)
    BY <1>1 DEF Channels
  <2>7. QED
    BY <2>5, <2>6, NoKinds
<1>8. QED
  BY <1>4, <1>6, <1>7

(* A message to all followers, when their queues from the leader are empty. *)
LEMMA SentFirst ==
  ASSUME TypeInv, NEW ch, NEW sent, SentTo(ch, Leader, Follower, sent),
         \A f \in Follower : ch[Leader][f] = <<>>
  PROVE  \A f \in Follower :
           /\ \A k : Holds(channel'[Leader][f], k) <=> k = sent
           /\ \A k \in FirstKind : First(channel'[Leader][f], k)
<1> SUFFICES ASSUME NEW f \in Follower
             PROVE  /\ \A k : Holds(channel'[Leader][f], k) <=> k = sent
                    /\ \A k \in FirstKind : First(channel'[Leader][f], k)
  OBVIOUS
<1>1. Leader \in Vehicle /\ f \in Vehicle
  BY Types
<1>2. \A k : ~Holds(ch[Leader][f], k) /\ First(ch[Leader][f], k)
  BY EmptyQueue
<1>3. \A k : Holds(channel'[Leader][f], k) <=> k = sent
  BY <1>1, <1>2 DEF SentTo
<1>4. \A k : First(channel'[Leader][f], k)
  BY <1>1, <1>2 DEF SentTo
<1>5. QED
  BY <1>3, <1>4

(* The leader commits.                                                     *)
LEMMA LeaderCommits ==
  ASSUME TypeInv, SafetyInv, NEW u \in Vehicle, Receives(u, Leader, "WarnLaneChangeAck"),
         maneuverState[Leader] = "WAIT_REPLY", AllAcked(receivedAck \cup {u}),
         ResetReceivedAck,
         SetFixedLane(Leader, nextDestination[Leader], FALSE),
         SetPlatoonLane(Leader, nextDestination[Leader]),
         channel' = SendToAll(Dequeue(u, Leader), Leader, Follower, Plain("StartSignal")),
         Proceed(Leader, "WAIT_ALL_CHANGED"),
         timer' = SendTimeoutMsg(ResetTimeoutMsg(timer)),
         UNCHANGED runVars
  PROVE  SafetyInv'
<1> DEFINE ch == Dequeue(u, Leader)
           lane == nextDestination[Leader]
<1>1. /\ Leader \in Vehicle /\ Leader \notin Follower /\ Follower \subseteq Vehicle
      /\ Vehicle = {Leader} \cup Follower /\ timer \in Timer
  BY Types
<1>2. NotStarted /\ Routes /\ LeaderPhase /\ Changing
  BY DEF SafetyInv
<1>3. /\ u \in Follower
      /\ ~Committed
      /\ lane \in Destination(StartLane)
      /\ \A f \in Follower :
           /\ Ready(f)
           /\ platoonLane[f] = StartLane
           /\ channel[Leader][f] = <<>>
           /\ ~InFlight("LaneChanged", f, Leader)
           /\ \A v \in Vehicle : ~InFlight("Abort", f, v)
  BY CommitPoint
<1>4. Dequeued(ch, u, Leader, "WarnLaneChangeAck")
  BY <1>1, <1>2, DequeuedLemma
<1>5. /\ ch \in Channels
      /\ \A a, b \in Vehicle : \A k : Holds(ch[a][b], k) => Holds(channel[a][b], k)
      /\ \A f \in Follower : ch[Leader][f] = <<>>
  BY <1>1, <1>3, <1>4 DEF Dequeued
<1>6. Plain("StartSignal") \in Message /\ Plain("StartSignal").kind = "StartSignal"
  BY PlainType DEF MessageKind
<1>7. SentTo(ch, Leader, Follower, "StartSignal")
  BY <1>1, <1>5, <1>6, SentToLemma
<1>8. \A a, b \in Vehicle : \A k :
        Holds(channel'[a][b], k) =>
          Holds(channel[a][b], k) \/ (a = Leader /\ b \in Follower /\ k = "StartSignal")
  BY <1>5, <1>7 DEF SentTo
<1>9. \A f \in Follower :
        /\ \A k : Holds(channel'[Leader][f], k) <=> k = "StartSignal"
        /\ \A k \in FirstKind : First(channel'[Leader][f], k)
  BY <1>5, <1>7, SentFirst
<1>10. /\ maneuverState' = [maneuverState EXCEPT ![Leader] = "WAIT_ALL_CHANGED"]
       /\ platoonLane' = [platoonLane EXCEPT ![Leader] = lane]
       /\ laneChanges' = [laneChanges EXCEPT
                            ![Leader] = [lane |-> lane, safe |-> FALSE, wait |-> FALSE]]
       /\ UNCHANGED <<inManeuver, nextDestination, starts>>
       /\ receivedAck' = {}
  BY DEF Proceed, SetPlatoonLane, SetFixedLane, ResetReceivedAck, runVars
<1>11. /\ maneuverState'[Leader] = "WAIT_ALL_CHANGED"
       /\ platoonLane'[Leader] = lane
       /\ laneChanges'[Leader].lane = lane
       /\ \A f \in Follower :
            /\ maneuverState'[f] = maneuverState[f]
            /\ platoonLane'[f] = platoonLane[f]
            /\ laneChanges'[f] = laneChanges[f]
  BY <1>1, <1>10, Types
<1>12. Committed'
  BY <1>3, <1>11, LaneAssumption DEF Committed, Destination
<1>13. timer'.orphans = 0
  BY <1>1, <1>2, TimerFields DEF LeaderPhase
<1>14. starts # 0
  BY <1>2 DEF NotStarted
<1>15. NotStarted'
  BY <1>10, <1>14 DEF NotStarted
<1>16. Routes'
  <2>1. \A a, b \in Vehicle, k \in FirstKind :
          Holds(channel'[a][b], k) => a = Leader /\ b \in Follower
    BY <1>2, <1>8 DEF Routes, InFlight
  <2>2. \A a, b \in Vehicle, k \in {"WarnLaneChangeAck", "LaneChanged"} :
          Holds(channel'[a][b], k) => a \in Follower /\ b = Leader
    BY <1>2, <1>8 DEF Routes, InFlight
  <2>3. QED
    BY <1>9, <2>1, <2>2 DEF Routes, InFlight
<1>17. LeaderPhase'
  <2>1. \A v \in Vehicle : ~Holds(channel'[Leader][v], "Abort")
    BY <1>1, <1>2, <1>8 DEF LeaderPhase, InFlight
  <2>2. QED
    BY <1>11, <1>12, <1>13, <2>1 DEF LeaderPhase, InFlight
<1>18. Vote'
  <2>1. \A f \in Follower, v \in Vehicle : ~Holds(channel'[f][v], "Abort")
    BY <1>1, <1>3, <1>8 DEF InFlight
  <2>2. QED
    BY <1>9, <1>11, <2>1 DEF Vote, InFlight
<1>19. Changing'
  BY <1>3, <1>9, <1>10, <1>11, <1>12, ZenonT(40) DEF Changing, Ready, InFlight
<1>20. Changed'
  <2>1. \A f \in Follower : ~Holds(channel'[f][Leader], "LaneChanged")
    BY <1>1, <1>3, <1>8 DEF InFlight
  <2>2. QED
    BY <1>10, <2>1 DEF Changed, InFlight
<1>21. Closing'
  BY <1>9 DEF Closing, InFlight
<1>23. QED
  BY <1>15, <1>16, <1>17, <1>18, <1>19, <1>20, <1>21 DEF SafetyInv

(* The leader has heard from everyone and closes the manoeuvre.            *)
LEMMA LeaderCloses ==
  ASSUME TypeInv, SafetyInv, NEW u \in Vehicle, Receives(u, Leader, "LaneChanged"),
         maneuverState[Leader] = "WAIT_ALL_CHANGED", AllAcked(receivedAck \cup {u}),
         ResetReceivedAck,
         channel' = SendToAll(Dequeue(u, Leader), Leader, Follower, Plain("LaneChangeClose")),
         Release(Leader),
         timer' = ResetTimeoutMsg(timer),
         UNCHANGED <<laneVars, runVars>>
  PROVE  SafetyInv'
<1> DEFINE ch == Dequeue(u, Leader)
<1>1. /\ Leader \in Vehicle /\ Leader \notin Follower /\ Follower \subseteq Vehicle
      /\ Vehicle = {Leader} \cup Follower /\ timer \in Timer /\ channel \in Channels
  BY Types
<1>2. /\ NotStarted /\ Routes /\ LeaderPhase /\ Vote /\ Changing
      /\ Changed /\ Closing
  BY DEF SafetyInv
<1>3. Dequeued(ch, u, Leader, "LaneChanged")
  BY <1>1, <1>2, DequeuedLemma
<1>4. u \in Follower /\ Holds(channel[u][Leader], "LaneChanged") /\ Committed
  BY <1>1, <1>2, <1>3 DEF Dequeued, Routes, LeaderPhase, InFlight
<1>5. \A f \in Follower : maneuverState[f] = "COMPLETE_LANE_CHANGE" /\ inManeuver[f]
  BY <1>2, <1>4 DEF AllAcked, Changed, InFlight
<1>6. \A f \in Follower :
        /\ ~Holds(channel[Leader][f], "StartSignal")
        /\ platoonLane[f] = platoonLane[Leader]
  BY <1>2, <1>5 DEF Changing, InFlight
<1>7. ASSUME NEW f \in Follower PROVE channel[Leader][f] = <<>>
  <2>1. ~InFlight("WarnLaneChange", Leader, f)
    BY <1>2, <1>4 DEF Vote
  <2>2. ~InFlight("LaneChangeClose", Leader, f)
    BY <1>2 DEF Closing
  <2>3. ~InFlight("Abort", Leader, f)
    BY <1>1, <1>2 DEF LeaderPhase
  <2>4. ~InFlight("WarnLaneChangeAck", Leader, f) /\ ~InFlight("LaneChanged", Leader, f)
    BY <1>1, <1>2 DEF Routes
  <2>5. \A k \in MessageKind : ~Holds(channel[Leader][f], k)
    BY <1>6, <2>1, <2>2, <2>3, <2>4 DEF MessageKind, InFlight
  <2>6. channel[Leader][f] \in Seq(Message)
    BY <1>1 DEF Channels
  <2>7. QED
    BY <2>5, <2>6, NoKinds
<1>8. /\ ch \in Channels
      /\ \A a, b \in Vehicle : \A k : Holds(ch[a][b], k) => Holds(channel[a][b], k)
      /\ \A f \in Follower : ch[Leader][f] = <<>>
  BY <1>1, <1>3, <1>4, <1>7 DEF Dequeued
<1>9. Plain("LaneChangeClose") \in Message /\ Plain("LaneChangeClose").kind = "LaneChangeClose"
  BY PlainType DEF MessageKind
<1>10. SentTo(ch, Leader, Follower, "LaneChangeClose")
  BY <1>1, <1>8, <1>9, SentToLemma
<1>11. \A a, b \in Vehicle : \A k :
         Holds(channel'[a][b], k) =>
           Holds(channel[a][b], k) \/ (a = Leader /\ b \in Follower /\ k = "LaneChangeClose")
  BY <1>8, <1>10 DEF SentTo
<1>12. \A f \in Follower :
         /\ \A k : Holds(channel'[Leader][f], k) <=> k = "LaneChangeClose"
         /\ \A k \in FirstKind : First(channel'[Leader][f], k)
  BY <1>8, <1>10, SentFirst
<1>13. /\ maneuverState'[Leader] = "IDLE"
       /\ \A f \in Follower :
            /\ maneuverState'[f] = maneuverState[f]
            /\ inManeuver'[f] = inManeuver[f]
            /\ nextDestination'[f] = nextDestination[f]
       /\ UNCHANGED <<platoonLane, laneChanges, starts>>
       /\ Committed'
  BY <1>1, <1>4, Types DEF Release, laneVars, runVars, Committed
<1>14. timer'.orphans = 0 /\ timer'.pointer # "scheduled"
  BY <1>1, <1>2, TimerFields DEF LeaderPhase
<1>15. NotStarted'
  BY <1>2, <1>4, <1>13 DEF NotStarted
<1>16. Routes'
  <2>1. \A a, b \in Vehicle, k \in FirstKind :
          Holds(channel'[a][b], k) => a = Leader /\ b \in Follower
    BY <1>2, <1>11 DEF Routes, InFlight
  <2>2. \A a, b \in Vehicle, k \in {"WarnLaneChangeAck", "LaneChanged"} :
          Holds(channel'[a][b], k) => a \in Follower /\ b = Leader
    BY <1>2, <1>11 DEF Routes, InFlight
  <2>3. QED
    BY <1>12, <2>1, <2>2 DEF Routes, InFlight
<1>17. LeaderPhase'
  BY <1>13, <1>14 DEF LeaderPhase
<1>18. Vote'
  <2>1. \A f \in Follower, v \in Vehicle : ~Holds(channel'[f][v], "Abort")
    BY <1>1, <1>2, <1>4, <1>11 DEF Vote, InFlight
  <2>2. QED
    BY <1>12, <1>13, <2>1 DEF Vote, InFlight
<1>19. Changing'
  BY <1>5, <1>6, <1>12, <1>13 DEF Changing, InFlight
<1>20. Changed'
  BY <1>13 DEF Changed
<1>21. Closing'
  BY <1>5, <1>12, <1>13, <1>14 DEF Closing, InFlight
<1>23. QED
  BY <1>15, <1>16, <1>17, <1>18, <1>19, <1>20, <1>21 DEF SafetyInv

(* The manoeuvre is started, for the only time.                            *)
LEMMA LeaderStarts ==
  ASSUME TypeInv, SafetyInv, MaxStarts = 1, StartManeuver
  PROVE  SafetyInv'
<1>1. /\ Leader \in Vehicle /\ Leader \notin Follower /\ Follower \subseteq Vehicle
      /\ Vehicle = {Leader} \cup Follower /\ timer \in Timer /\ channel \in Channels
  BY Types
<1>2. NotStarted /\ Routes /\ LeaderPhase /\ Changing
  BY DEF SafetyInv
<1>3. starts = 0 /\ starts' = 1
  BY StartsAssumption DEF StartManeuver, TypeInv, TypeOK
<1>4. /\ \A a, b \in Vehicle : channel[a][b] = <<>>
      /\ maneuverState[Leader] = "IDLE"
      /\ timer.pointer # "scheduled"
      /\ ~Committed
  BY <1>2, <1>3 DEF NotStarted
<1>5. \A f \in Follower : platoonLane[f] = StartLane
  BY <1>1, <1>2, <1>4, EmptyQueue DEF Changing, Committed, InFlight
<1>6. UNCHANGED <<platoonLane, laneChanges>> /\ ~Committed'
  BY <1>4 DEF StartManeuver, laneVars, Committed
<1>7. PICK lane \in Destination(platoonLane[Leader]), laneFree \in BOOLEAN :
        IF CanInitialize(laneFree)
        THEN /\ Enter(Leader, "WAIT_REPLY", lane)
             /\ timer' = SendTimeoutMsg(timer)
             /\ ResetReceivedAck
             /\ channel' = SendToAll(channel, Leader, Follower, Warn(lane))
        ELSE /\ nextDestination' = [nextDestination EXCEPT ![Leader] = lane]
             /\ UNCHANGED <<maneuverState, inManeuver, leaderVars, channel>>
  BY DEF StartManeuver
<1>8. CASE CanInitialize(laneFree)
  <2>1. lane \in Destination(StartLane) /\ lane \in Lane
    BY <1>4, DestinationType DEF Committed
  <2>2. /\ Warn(lane) \in Message
        /\ Warn(lane).kind = "WarnLaneChange"
        /\ Warn(lane).lane = lane
    BY <2>1, WarnType
  <2>3. /\ channel' = SendToAll(channel, Leader, Follower, Warn(lane))
        /\ receivedAck' = {}
        /\ timer' = SendTimeoutMsg(timer)
        /\ maneuverState' = [maneuverState EXCEPT ![Leader] = "WAIT_REPLY"]
        /\ nextDestination' = [nextDestination EXCEPT ![Leader] = lane]
    BY <1>7, <1>8 DEF Enter, ResetReceivedAck
  <2>4. SentTo(channel, Leader, Follower, "WarnLaneChange")
    BY <1>1, <2>2, <2>3, SentToLemma
  <2>5. \A a, b \in Vehicle : \A k :
          Holds(channel'[a][b], k) <=> a = Leader /\ b \in Follower /\ k = "WarnLaneChange"
    <3>1. \A a, b \in Vehicle : \A k : ~Holds(channel[a][b], k)
      BY <1>4, EmptyQueue
    <3>2. QED
      BY <2>4, <3>1 DEF SentTo
  <2>6. \A f \in Follower, k \in FirstKind : First(channel'[Leader][f], k)
    BY <1>1, <1>4, <2>4, SentFirst
  <2>7. ASSUME NEW f \in Follower PROVE WarnsOf(channel'[Leader][f], lane)
    <3>1. channel'[Leader][f] = Append(<<>>, Warn(lane))
      BY <1>1, <1>4, <2>2, <2>3, SendToAllLemma
    <3>2. <<>> \in Seq(Message)
      OBVIOUS
    <3>3. QED
      BY <2>2, <3>1, <3>2, AppendFirst, EmptyQueue
  <2>8. /\ maneuverState'[Leader] = "WAIT_REPLY"
        /\ nextDestination'[Leader] = lane
        /\ timer'.orphans = 0
    BY <1>1, <1>2, <1>4, <2>3, Types, TimerFields DEF LeaderPhase
  <2>9. NotStarted'
    BY <1>3 DEF NotStarted
  <2>10. Routes'
    BY <2>5, <2>6 DEF Routes, InFlight, FirstKind
  <2>11. LeaderPhase'
    <3>1. \A v \in Vehicle : ~Holds(channel'[Leader][v], "Abort")
      BY <1>1, <2>5
    <3>2. QED
      BY <1>6, <2>1, <2>8, <3>1 DEF LeaderPhase, InFlight
  <2>12. Vote'
    <3>1. ASSUME NEW f \in Follower
          PROVE  ~Acked(f)' /\ \A v \in Vehicle : ~Holds(channel'[f][v], "Abort")
      BY <1>1, <2>3, <2>5 DEF Acked, InFlight
    <3>2. QED
      BY <1>6, <2>7, <2>8, <3>1 DEF Vote, InFlight
  <2>13. Changing'
    <3>1. \A f \in Follower : ~Holds(channel'[Leader][f], "StartSignal")
      BY <1>1, <2>5
    <3>2. QED
      BY <1>4, <1>5, <1>6, <3>1 DEF Changing, Committed, InFlight
  <2>14. Changed' /\ Closing'
    BY <1>1, <2>5, <2>8 DEF Changed, Closing, InFlight
  <2>16. QED
    BY <2>9, <2>10, <2>11, <2>12, <2>13, <2>14 DEF SafetyInv
<1>9. CASE ~CanInitialize(laneFree)
  <2>1. UNCHANGED <<maneuverState, inManeuver, receivedAck, timer, channel>>
    BY <1>7, <1>9 DEF leaderVars
  <2>2. \A a, b \in Vehicle : \A k : ~Holds(channel'[a][b], k) /\ First(channel'[a][b], k)
    BY <1>4, <2>1, EmptyQueue
  <2>3. NotStarted'
    BY <1>3 DEF NotStarted
  <2>4. Routes'
    BY <1>1, <2>2 DEF Routes, InFlight
  <2>5. LeaderPhase'
    BY <1>2, <1>4, <2>1 DEF LeaderPhase
  <2>6. Vote'
    BY <1>1, <1>4, <2>1, <2>2 DEF Vote, InFlight
  <2>7. Changing'
    BY <1>1, <1>4, <1>5, <1>6, <2>2 DEF Changing, Committed, InFlight
  <2>8. Changed' /\ Closing'
    BY <1>1, <1>4, <2>1, <2>2 DEF Changed, Closing, InFlight
  <2>10. QED
    BY <2>3, <2>4, <2>5, <2>6, <2>7, <2>8 DEF SafetyInv
<1>10. QED
  BY <1>8, <1>9

-----------------------------------------------------------------------------
(* The invariant *)

LEMMA InitSafety == Init => SafetyInv
<1> SUFFICES ASSUME Init PROVE SafetyInv
  OBVIOUS
<1>1. /\ Leader \in Vehicle /\ Leader \notin Follower /\ Follower \subseteq Vehicle
  BY PlatoonAssumption DEF Vehicle
<1>2. /\ \A a, b \in Vehicle : channel[a][b] = <<>>
      /\ \A a, b \in Vehicle : \A k : ~Holds(channel[a][b], k) /\ First(channel[a][b], k)
      /\ \A v \in Vehicle : platoonLane[v] = StartLane
      /\ maneuverState[Leader] = "IDLE"
      /\ timer.pointer # "scheduled" /\ timer.orphans = 0
  BY <1>1, EmptyQueue DEF Init
<1>3. NotStarted /\ Routes /\ LeaderPhase
  BY <1>1, <1>2 DEF NotStarted, Routes, LeaderPhase, Committed, InFlight
<1>4. Vote /\ Changing /\ Changed /\ Closing
  BY <1>1, <1>2 DEF Vote, Changing, Changed, Closing, Committed, InFlight
<1>5. QED
  BY <1>3, <1>4 DEF SafetyInv

LEMMA MessageSafety ==
  ASSUME TypeInv, SafetyInv, NEW u \in Vehicle, NEW v \in Vehicle, OnManeuverMessage(u, v)
  PROVE  SafetyInv'
<1>1. /\ Leader \in Vehicle /\ Leader \notin Follower /\ Follower \subseteq Vehicle
      /\ Vehicle = {Leader} \cup Follower
      /\ nextDestination \in [Vehicle -> Lane \cup {NoLane}]
      /\ platoonLane \in [Vehicle -> Lane]
  BY Types
<1>2. /\ NotStarted /\ Routes /\ LeaderPhase /\ Vote /\ Changing
      /\ Changed /\ Closing
  BY DEF SafetyInv
<1>3. ASSUME NEW kind \in FirstKind, Receives(u, v, kind)
      PROVE  u = Leader /\ v \in Follower /\ InFlight(kind, Leader, v)
  BY <1>2, <1>3, ReceiveLemma DEF Routes, InFlight
<1>4. ASSUME NEW kind \in {"WarnLaneChangeAck", "LaneChanged"}, Receives(u, v, kind)
      PROVE  u \in Follower /\ v = Leader
  BY <1>2, <1>4, ReceiveLemma DEF Routes, InFlight
<1>5. CASE HandleWarnLaneChange(u, v)
  <2>1. u = Leader /\ v \in Follower /\ Receives(Leader, v, "WarnLaneChange")
    BY <1>3, <1>5 DEF HandleWarnLaneChange, FirstKind
  <2>2. UNCHANGED <<laneVars, leaderVars, runVars>>
    BY <1>5 DEF HandleWarnLaneChange
  <2>3. \/ /\ Enter(v, "PREPARE_LANE_CHANGE", Head(channel[Leader][v]).lane)
           /\ channel' = SendUnicast(Dequeue(Leader, v), v, Leader, Plain("WarnLaneChangeAck"))
        \/ AbortManeuver(v, Dequeue(Leader, v))
    BY <1>5, <2>1 DEF HandleWarnLaneChange
  <2>4. QED
    BY <2>1, <2>2, <2>3, WarnAccepted, WarnRefused
<1>6. CASE HandleWarnLaneChangeAck(u, v)
  <2>1. v = Leader /\ u \in Follower /\ Receives(u, Leader, "WarnLaneChangeAck")
    BY <1>4, <1>6 DEF HandleWarnLaneChangeAck
  <2>2. UNCHANGED runVars
    BY <1>6 DEF HandleWarnLaneChangeAck
  <2>3. CASE channel' = Dequeue(u, v) /\ UNCHANGED <<maneuverVars, laneVars, leaderVars>>
    BY <2>1, <2>2, <2>3, LeaderReceives DEF leaderVars
  <2>4. CASE /\ CountsAck(v, "WAIT_REPLY")
             /\ receivedAck' = receivedAck \cup {u}
             /\ channel' = Dequeue(u, v)
             /\ UNCHANGED <<maneuverVars, laneVars, timer>>
    BY <2>1, <2>2, <2>4, LeaderReceives DEF CountsAck
  <2>5. CASE /\ CountsAck(v, "WAIT_REPLY")
             /\ AllAcked(receivedAck \cup {u})
             /\ ResetReceivedAck
             /\ nextDestination[v] >= 0
             /\ SetFixedLane(v, nextDestination[v], FALSE)
             /\ SetPlatoonLane(v, nextDestination[v])
             /\ channel' = SendToAll(Dequeue(u, v), v, Follower, Plain("StartSignal"))
             /\ Proceed(v, "WAIT_ALL_CHANGED")
             /\ timer' = SendTimeoutMsg(ResetTimeoutMsg(timer))
    BY <2>1, <2>2, <2>5, LeaderCommits DEF CountsAck
  <2>6. CASE CountsAck(v, "WAIT_REPLY") /\ ~(nextDestination[v] >= 0)
    <3>1. nextDestination[Leader] \in Destination(StartLane)
      BY <1>2, <2>1, <2>6 DEF LeaderPhase, CountsAck
    <3>2. QED
      BY <2>1, <2>6, <3>1, DestinationType
  <2>7. QED
    BY <1>6, <2>3, <2>4, <2>5, <2>6 DEF HandleWarnLaneChangeAck
<1>7. CASE HandleStartSignal(u, v)
  <2>1. u = Leader /\ v \in Follower /\ Receives(Leader, v, "StartSignal")
        /\ InFlight("StartSignal", Leader, v)
    BY <1>3, <1>7 DEF HandleStartSignal, FirstKind
  <2>2. ProcessStartSignal(v)
    <3>1. /\ maneuverState[v] = "PREPARE_LANE_CHANGE"
          /\ inManeuver[v]
          /\ nextDestination[v] = platoonLane[Leader]
      BY <1>2, <2>1 DEF Changing
    <3>2. nextDestination[v] >= 0
      BY <1>1, <3>1, LaneAssumption DEF Lane
    <3>3. QED
      BY <2>1, <3>1, <3>2, FollowerRole DEF ProcessStartSignal
  <2>3. /\ SetFixedLane(v, nextDestination[v], FALSE)
        /\ SetPlatoonLane(v, nextDestination[v])
        /\ Proceed(v, "COMPLETE_LANE_CHANGE")
        /\ channel' = SendUnicast(Dequeue(u, v), v, u, Plain("LaneChanged"))
        /\ UNCHANGED <<leaderVars, runVars>>
    BY <1>7, <2>2 DEF HandleStartSignal
  <2>4. QED
    BY <2>1, <2>3, StartAccepted
<1>8. CASE HandleLaneChanged(u, v)
  <2>1. v = Leader /\ u \in Follower /\ Receives(u, Leader, "LaneChanged")
    BY <1>4, <1>8 DEF HandleLaneChanged
  <2>2. UNCHANGED <<laneVars, runVars>>
    BY <1>8 DEF HandleLaneChanged
  <2>3. CASE channel' = Dequeue(u, v) /\ UNCHANGED <<maneuverVars, leaderVars>>
    BY <2>1, <2>2, <2>3, LeaderReceives DEF leaderVars
  <2>4. CASE /\ CountsAck(v, "WAIT_ALL_CHANGED")
             /\ receivedAck' = receivedAck \cup {u}
             /\ channel' = Dequeue(u, v)
             /\ UNCHANGED <<maneuverVars, timer>>
    BY <2>1, <2>2, <2>4, LeaderReceives DEF CountsAck
  <2>5. CASE /\ CountsAck(v, "WAIT_ALL_CHANGED")
             /\ AllAcked(receivedAck \cup {u})
             /\ ResetReceivedAck
             /\ timer' = ResetTimeoutMsg(timer)
             /\ channel' = SendToAll(Dequeue(u, v), v, Follower, Plain("LaneChangeClose"))
             /\ Release(v)
    BY <2>1, <2>2, <2>5, LeaderCloses DEF CountsAck
  <2>6. QED
    BY <1>8, <2>3, <2>4, <2>5 DEF HandleLaneChanged
<1>9. CASE HandleLaneChangeClose(u, v)
  <2>1. u = Leader /\ v \in Follower /\ Receives(Leader, v, "LaneChangeClose")
        /\ InFlight("LaneChangeClose", Leader, v)
    BY <1>3, <1>9 DEF HandleLaneChangeClose, FirstKind
  <2>2. ProcessLaneChangeClose(v)
    BY <1>1, <1>2, <2>1, FollowerRole DEF ProcessLaneChangeClose, Closing
  <2>3. channel' = Dequeue(u, v) /\ Release(v) /\ UNCHANGED <<laneVars, leaderVars, runVars>>
    BY <1>9, <2>2 DEF HandleLaneChangeClose
  <2>4. QED
    BY <2>1, <2>3, FollowerLeaves
<1>10. CASE HandleAbort(u, v)
  <2>1. /\ Receives(u, v, "Abort")
        /\ channel' = Dequeue(u, v) /\ Release(v)
        /\ UNCHANGED <<laneVars, receivedAck, timer, runVars>>
    BY <1>10 DEF HandleAbort, leaderVars
  <2>2. CASE v = Leader
    BY <2>1, <2>2, LeaderReceives
  <2>3. CASE v \in Follower
    BY <2>1, <2>3, FollowerLeaves DEF leaderVars
  <2>4. QED
    BY <1>1, <2>2, <2>3
<1>11. QED
  BY <1>5, <1>6, <1>7, <1>8, <1>9, <1>10 DEF OnManeuverMessage

LEMMA StutterSafety ==
  ASSUME SafetyInv,
         UNCHANGED <<maneuverVars, platoonLane, leaderVars, channel, starts>>
  PROVE  SafetyInv'
<1>1. UNCHANGED <<maneuverState, inManeuver, nextDestination, platoonLane,
                  receivedAck, timer, channel, starts>>
  BY DEF maneuverVars, leaderVars
<1>2. NotStarted' /\ Routes' /\ LeaderPhase'
  BY <1>1 DEF SafetyInv, NotStarted, Routes, LeaderPhase, InFlight, Committed
<1>3. Vote' /\ Changing' /\ Changed' /\ Closing'
  BY <1>1 DEF SafetyInv, Vote, Changing, Changed, Closing, InFlight, Committed,
              Acked, Vetoed, Ready
<1>4. QED
  BY <1>2, <1>3 DEF SafetyInv

LEMMA NextSafety ==
  ASSUME MaxStarts = 1, TypeInv, SafetyInv, [Next]_vars PROVE SafetyInv'
<1>1. CASE StartManeuver
  BY <1>1, LeaderStarts
<1>2. CASE HandleTimeoutMsg
  BY <1>2, LeaderTimesOut
<1>3. ASSUME NEW u \in Vehicle, NEW v \in Vehicle, OnManeuverMessage(u, v)
      PROVE  SafetyInv'
  BY <1>3, MessageSafety
<1>4. ASSUME NEW u \in Vehicle, NEW v \in Vehicle, OnFailedTransmissionAttempt(u, v)
      PROVE  SafetyInv'
  BY <1>4, StutterSafety DEF OnFailedTransmissionAttempt, laneVars
<1>5. CASE UNCHANGED vars
  BY <1>5, StutterSafety DEF vars, runVars, laneVars
<1>6. QED
  BY <1>1, <1>2, <1>3, <1>4, <1>5 DEF Next

LEMMA SafetyInvariant == MaxStarts = 1 => (Spec => []SafetyInv)
<1> SUFFICES ASSUME MaxStarts = 1 PROVE Spec => []SafetyInv
  OBVIOUS
<1>1. TypeInv /\ SafetyInv /\ [Next]_vars => SafetyInv'
  BY NextSafety
<1>2. QED
  BY <1>1, InitSafety, TypeInvariant, PTL DEF Spec

-----------------------------------------------------------------------------
(* What the invariant says of one manoeuvre *)

(* No follower is left behind: one that is in another lane than the leader *)
(* is prepared to follow and has its StartSignal coming                    *)
(* (handleStartSignal, LaneChange.cc:247-263).                             *)
THEOREM PlatoonInOneLane == MaxStarts = 1 => (Spec => []SingleLane)
<1> SUFFICES ASSUME MaxStarts = 1 PROVE Spec => []SingleLane
  OBVIOUS
<1>1. SafetyInv => SingleLane
  BY DEF SafetyInv, Changing, SingleLane, InFlight, Holds, InTransit
<1>2. QED
  BY <1>1, SafetyInvariant, PTL

(* After the leader's change no refusal of a follower is under way         *)
(* (abortManeuver, LaneChange.cc:112-127).                                 *)
THEOREM NoRefusalAfterChange == MaxStarts = 1 => (Spec => []PointOfNoReturn)
<1> SUFFICES ASSUME MaxStarts = 1 PROVE Spec => []PointOfNoReturn
  OBVIOUS
<1>1. SafetyInv => PointOfNoReturn
  BY DEF SafetyInv, Vote, Committed, PointOfNoReturn, InFlight, Holds, InTransit
<1>2. QED
  BY <1>1, SafetyInvariant, PTL

(* A handler of the manoeuvre leaves a vehicle's lane and request alone or *)
(* sets both to the same lane.                                             *)
LEMMA LanesTogether ==
  ASSUME TypeInv, [Next]_vars, NEW v \in Vehicle
  PROVE  \/ laneChanges'[v] = laneChanges[v] /\ platoonLane'[v] = platoonLane[v]
         \/ \E d \in Lane :
              /\ laneChanges'[v] = [lane |-> d, safe |-> FALSE, wait |-> FALSE]
              /\ platoonLane'[v] = d
<1>1. ASSUME NEW w \in Vehicle, nextDestination[w] >= 0,
             SetFixedLane(w, nextDestination[w], FALSE), SetPlatoonLane(w, nextDestination[w])
      PROVE  \/ laneChanges'[v] = laneChanges[v] /\ platoonLane'[v] = platoonLane[v]
             \/ \E d \in Lane :
                  /\ laneChanges'[v] = [lane |-> d, safe |-> FALSE, wait |-> FALSE]
                  /\ platoonLane'[v] = d
  <2>1. nextDestination[w] \in Lane
    BY <1>1 DEF TypeInv, TypeOK, NoLane
  <2>2. CASE v = w
    BY <1>1, <2>1, <2>2 DEF TypeInv, TypeOK, SetFixedLane, SetPlatoonLane
  <2>3. CASE v # w
    BY <1>1, <2>3 DEF TypeInv, TypeOK, SetFixedLane, SetPlatoonLane
  <2>4. QED
    BY <2>2, <2>3
<1>2. ASSUME NEW u \in Vehicle, NEW w \in Vehicle, HandleWarnLaneChangeAck(u, w)
      PROVE  \/ UNCHANGED laneVars
             \/ /\ nextDestination[w] >= 0
                /\ SetFixedLane(w, nextDestination[w], FALSE)
                /\ SetPlatoonLane(w, nextDestination[w])
  BY <1>2 DEF HandleWarnLaneChangeAck, laneVars
<1>3. ASSUME NEW u \in Vehicle, NEW w \in Vehicle, HandleStartSignal(u, w)
      PROVE  \/ UNCHANGED laneVars
             \/ /\ nextDestination[w] >= 0
                /\ SetFixedLane(w, nextDestination[w], FALSE)
                /\ SetPlatoonLane(w, nextDestination[w])
  BY <1>3 DEF HandleStartSignal, ProcessStartSignal, laneVars
<1>4. ASSUME NEW u \in Vehicle, NEW w \in Vehicle,
             OnManeuverMessage(u, w) \/ OnFailedTransmissionAttempt(u, w)
      PROVE  \/ UNCHANGED laneVars
             \/ /\ nextDestination[w] >= 0
                /\ SetFixedLane(w, nextDestination[w], FALSE)
                /\ SetPlatoonLane(w, nextDestination[w])
  BY <1>2, <1>3, <1>4
  DEF OnManeuverMessage, OnFailedTransmissionAttempt, HandleWarnLaneChange,
      HandleLaneChanged, HandleLaneChangeClose, HandleAbort
<1>5. CASE UNCHANGED laneVars
  BY <1>5 DEF laneVars
<1>6. CASE StartManeuver \/ HandleTimeoutMsg \/ UNCHANGED vars
  BY <1>5, <1>6 DEF StartManeuver, HandleTimeoutMsg, vars
<1>7. QED
  BY <1>1, <1>4, <1>5, <1>6 DEF Next

(* Who has left the start lane has a request for its lane.                 *)
Requests ==
  \A v \in Vehicle : platoonLane[v] # StartLane => laneChanges[v].lane = platoonLane[v]

LEMMA RequestsInvariant == Spec => []Requests
<1>1. Init => Requests
  BY DEF Init, Requests
<1>2. ASSUME TypeInv, Requests, [Next]_vars PROVE Requests'
  <2> SUFFICES ASSUME NEW v \in Vehicle, platoonLane'[v] # StartLane
               PROVE  laneChanges'[v].lane = platoonLane'[v]
    BY DEF Requests
  <2>1. CASE laneChanges'[v] = laneChanges[v] /\ platoonLane'[v] = platoonLane[v]
    BY <1>2, <2>1 DEF Requests
  <2>2. ASSUME NEW d \in Lane,
               laneChanges'[v] = [lane |-> d, safe |-> FALSE, wait |-> FALSE],
               platoonLane'[v] = d
        PROVE  laneChanges'[v].lane = platoonLane'[v]
    BY <2>2
  <2>3. QED
    BY <1>2, <2>1, <2>2, LanesTogether
<1>3. QED
  BY <1>1, <1>2, TypeInvariant, PTL DEF Spec

(* While a LaneChangeClose is in transit the whole platoon has asked for   *)
(* the leader's lane and no timeout is pending (LaneChange.cc:193-231).    *)
THEOREM CloseReportsChange == MaxStarts = 1 => (Spec => []CloseMeansChanged)
<1> SUFFICES ASSUME MaxStarts = 1 PROVE Spec => []CloseMeansChanged
  OBVIOUS
<1>1. TypeInv /\ SafetyInv /\ Requests => CloseMeansChanged
  <2> SUFFICES ASSUME TypeInv, SafetyInv, Requests,
                      NEW f \in Follower, InTransit("LaneChangeClose", Leader, f)
               PROVE  /\ \A v \in Vehicle : laneChanges[v].lane = platoonLane[Leader]
                      /\ timer.pointer # "scheduled"
                      /\ timer.orphans = 0
    BY DEF CloseMeansChanged
  <2>1. InFlight("LaneChangeClose", Leader, f)
    BY DEF InTransit, InFlight, Holds
  <2>2. /\ Committed
        /\ timer.pointer # "scheduled"
        /\ \A g \in Follower : ~InFlight("StartSignal", Leader, g)
    BY <2>1 DEF SafetyInv, Closing
  <2>3. timer.orphans = 0
    BY DEF SafetyInv, LeaderPhase
  <2>4. \A v \in Vehicle : platoonLane[v] = platoonLane[Leader]
    BY <2>2, Types DEF SafetyInv, Changing
  <2>5. \A v \in Vehicle : laneChanges[v].lane = platoonLane[Leader]
    BY <2>2, <2>4 DEF Requests, Committed
  <2>6. QED
    BY <2>2, <2>3, <2>5
<1>2. QED
  BY <1>1, SafetyInvariant, RequestsInvariant, TypeInvariant, PTL

(* Whatever the step, the leader's lane changes only at the last           *)
(* acknowledgement.                                                        *)
LEMMA LeaderChangesLane ==
  ASSUME TypeInv, SafetyInv, [Next]_vars, platoonLane'[Leader] # platoonLane[Leader]
  PROVE  \E u \in Vehicle :
           /\ Receives(u, Leader, "WarnLaneChangeAck")
           /\ CountsAck(Leader, "WAIT_REPLY")
           /\ AllAcked(receivedAck \cup {u})
           /\ Proceed(Leader, "WAIT_ALL_CHANGED")
           /\ SetPlatoonLane(Leader, nextDestination[Leader])
<1>1. PICK u \in Vehicle, v \in Vehicle :
        HandleWarnLaneChangeAck(u, v) \/ HandleStartSignal(u, v)
  BY DEF Next, OnManeuverMessage, vars, laneVars, StartManeuver, HandleTimeoutMsg,
         HandleWarnLaneChange, HandleLaneChanged, HandleLaneChangeClose, HandleAbort,
         OnFailedTransmissionAttempt
<1>2. platoonLane \in [Vehicle -> Lane] /\ Leader \in Vehicle
  BY Types
<1>3. CASE HandleStartSignal(u, v)
  <2>1. v # Leader \/ UNCHANGED platoonLane
    BY <1>3 DEF HandleStartSignal, ProcessStartSignal, Role, laneVars
  <2>2. QED
    BY <1>2, <1>3, <2>1 DEF HandleStartSignal, SetPlatoonLane, laneVars
<1>4. CASE HandleWarnLaneChangeAck(u, v)
  <2>1. CountsAck(v, "WAIT_REPLY") /\ Receives(u, v, "WarnLaneChangeAck")
    BY <1>4 DEF HandleWarnLaneChangeAck, laneVars
  <2>2. v = Leader
    BY <2>1 DEF CountsAck, Role
  <2>3. /\ AllAcked(receivedAck \cup {u})
        /\ Proceed(v, "WAIT_ALL_CHANGED")
        /\ SetPlatoonLane(v, nextDestination[v])
    BY <1>4 DEF HandleWarnLaneChangeAck, laneVars
  <2>4. QED
    BY <2>1, <2>2, <2>3
<1>5. QED
  BY <1>1, <1>3, <1>4

(* The leader changes lane only with every follower prepared for exactly   *)
(* that lane and still beside it (processWarnLaneChangeAck,                *)
(* LaneChange.cc:265-284).                                                 *)
THEOREM ChangeIsUnanimous == MaxStarts = 1 => (Spec => UnanimousChange)
<1> SUFFICES ASSUME MaxStarts = 1 PROVE Spec => UnanimousChange
  OBVIOUS
<1>1. ASSUME TypeInv, SafetyInv, [Next]_vars
      PROVE  [platoonLane'[Leader] # platoonLane[Leader] =>
                \A f \in Follower :
                  /\ maneuverState[f] = "PREPARE_LANE_CHANGE"
                  /\ nextDestination[f] = platoonLane'[Leader]
                  /\ platoonLane[f] = platoonLane[Leader]]_vars
  <2> SUFFICES ASSUME platoonLane'[Leader] # platoonLane[Leader], NEW f \in Follower
               PROVE  /\ maneuverState[f] = "PREPARE_LANE_CHANGE"
                      /\ nextDestination[f] = platoonLane'[Leader]
                      /\ platoonLane[f] = platoonLane[Leader]
    OBVIOUS
  <2>1. PICK u \in Vehicle :
          /\ Receives(u, Leader, "WarnLaneChangeAck")
          /\ CountsAck(Leader, "WAIT_REPLY")
          /\ AllAcked(receivedAck \cup {u})
          /\ SetPlatoonLane(Leader, nextDestination[Leader])
    BY <1>1, LeaderChangesLane
  <2>2. Ready(f) /\ platoonLane[f] = StartLane /\ ~Committed
    BY <1>1, <2>1, CommitPoint DEF CountsAck
  <2>3. platoonLane'[Leader] = nextDestination[Leader]
    BY <1>1, <2>1, Types DEF SetPlatoonLane
  <2>4. QED
    BY <2>2, <2>3 DEF Ready, Committed
<1>2. QED
  BY <1>1, SafetyInvariant, TypeInvariant, PTL DEF Spec, UnanimousChange

-----------------------------------------------------------------------------
(***************************************************************************)
(* The manoeuvre, started once, implements the indivisible change of       *)
(* PlatoonLaneChange, for every platoon and road.                          *)
(*                                                                         *)
(* The argument.  Until the leader has changed lane the platoon drives     *)
(* together, and a step that moves one follower into or out of             *)
(* PREPARE_LANE_CHANGE is its consent or its withdrawal.  Afterwards the   *)
(* followers that still consent are exactly those that still drive in the  *)
(* old lane, so that a step that changes no lane is a stutter, whatever    *)
(* refusal or timeout it handles.                                          *)
(***************************************************************************)

Consent == {f \in Follower : maneuverState[f] = "PREPARE_LANE_CHANGE"}

(* What the safety invariant says in the terms of the promise.             *)
LEMMA ConsentAndLanes ==
  ASSUME TypeInv, SafetyInv
  PROVE  /\ ~Committed => \A v \in Vehicle : platoonLane[v] = StartLane
         /\ Committed => Consent = {f \in Follower : platoonLane[f] # platoonLane[Leader]}
<1>1. Changing /\ Vehicle = {Leader} \cup Follower
  BY Types DEF SafetyInv
<1>2. ~Committed => \A v \in Vehicle : platoonLane[v] = StartLane
  BY <1>1 DEF Changing, Committed
<1>3. ASSUME Committed, NEW f \in Follower
      PROVE  maneuverState[f] = "PREPARE_LANE_CHANGE" <=>
               platoonLane[f] # platoonLane[Leader]
  BY <1>1, <1>3 DEF Changing, Committed
<1>4. QED
  BY <1>2, <1>3 DEF Consent

(* Every handler sets the manoeuvre state of at most one vehicle.          *)
OneMoves == \E v \in Vehicle : \A w \in Vehicle \ {v} : maneuverState'[w] = maneuverState[w]

LEMMA OneVehicleMoves ==
  ASSUME TypeInv, [Next]_vars PROVE OneMoves
<1>1. Leader \in Vehicle /\ maneuverState \in [Vehicle -> ManeuverState]
  BY Types
<1>2. ASSUME NEW v \in Vehicle,
             \/ UNCHANGED maneuverState
             \/ \E s : maneuverState' = [maneuverState EXCEPT ![v] = s]
      PROVE  OneMoves
  BY <1>1, <1>2 DEF OneMoves
<1>3. CASE StartManeuver
  BY <1>1, <1>2, <1>3 DEF StartManeuver, Enter
<1>4. CASE HandleTimeoutMsg
  BY <1>1, <1>2, <1>4 DEF HandleTimeoutMsg, AbortManeuver, Release
<1>5. ASSUME NEW u \in Vehicle, NEW v \in Vehicle, OnManeuverMessage(u, v)
      PROVE  OneMoves
  <2>1. CASE HandleWarnLaneChange(u, v)
    BY <1>2, <2>1 DEF HandleWarnLaneChange, Enter, AbortManeuver, Release
  <2>2. CASE HandleWarnLaneChangeAck(u, v)
    BY <1>2, <2>2 DEF HandleWarnLaneChangeAck, Proceed, AbortManeuver, Release, maneuverVars
  <2>3. CASE HandleStartSignal(u, v)
    BY <1>2, <2>3 DEF HandleStartSignal, Proceed, AbortManeuver, Release
  <2>4. CASE HandleLaneChanged(u, v)
    BY <1>2, <2>4 DEF HandleLaneChanged, Release, maneuverVars
  <2>5. CASE HandleLaneChangeClose(u, v)
    BY <1>2, <2>5 DEF HandleLaneChangeClose, AbortManeuver, Release
  <2>6. CASE HandleAbort(u, v)
    BY <1>2, <2>6 DEF HandleAbort, Release
  <2>7. QED
    BY <1>5, <2>1, <2>2, <2>3, <2>4, <2>5, <2>6 DEF OnManeuverMessage
<1>6. ASSUME NEW u \in Vehicle, NEW v \in Vehicle, OnFailedTransmissionAttempt(u, v)
      PROVE  OneMoves
  BY <1>2, <1>6 DEF OnFailedTransmissionAttempt, maneuverVars
<1>7. CASE UNCHANGED vars
  BY <1>1, <1>2, <1>7 DEF vars, maneuverVars
<1>8. QED
  BY <1>3, <1>4, <1>5, <1>6, <1>7 DEF Next

(* A step that moves no vehicle to another lane.                           *)
LEMMA NoLaneStep ==
  ASSUME TypeInv, SafetyInv, TypeInv', SafetyInv', [Next]_vars, UNCHANGED platoonLane
  PROVE  \/ UNCHANGED Consent
         \/ /\ \A v \in Vehicle : platoonLane[v] = platoonLane[Leader]
            /\ \E f \in Follower : Consent' = Consent \cup {f} \/ Consent' = Consent \ {f}
<1>1. Leader \in Vehicle /\ Leader \notin Follower /\ Follower \subseteq Vehicle
  BY Types
<1>2. CASE Committed
  <2>1. Committed' /\ Changing'
    BY <1>2 DEF Committed, SafetyInv
  <2>2. Consent = {f \in Follower : platoonLane[f] # platoonLane[Leader]}
    BY <1>2, ConsentAndLanes
  <2>3. ASSUME NEW f \in Follower
        PROVE  f \in Consent' <=> platoonLane[f] # platoonLane[Leader]
    BY <2>1 DEF Changing, Committed, Consent
  <2>4. Consent' \subseteq Follower
    BY DEF Consent
  <2>5. QED
    BY <2>2, <2>3, <2>4
<1>3. CASE ~Committed
  <2>1. \A v \in Vehicle : platoonLane[v] = platoonLane[Leader]
    BY <1>1, <1>3, ConsentAndLanes
  <2>2. PICK v \in Vehicle : \A w \in Vehicle \ {v} : maneuverState'[w] = maneuverState[w]
    BY OneVehicleMoves DEF OneMoves
  <2>3. \A f \in Follower : f # v => (f \in Consent' <=> f \in Consent)
    BY <1>1, <2>2 DEF Consent
  <2>4. Consent \subseteq Follower /\ Consent' \subseteq Follower
    BY DEF Consent
  <2>5. CASE v \notin Follower
    BY <2>3, <2>4, <2>5
  <2>6. CASE v \in Follower
    <3>1. Consent' = Consent \cup {v} \/ Consent' = Consent \ {v}
      BY <2>3, <2>4, <2>6
    <3>2. QED
      BY <2>1, <2>6, <3>1
  <2>7. QED
    BY <2>5, <2>6
<1>4. QED
  BY <1>2, <1>3

(* A step that moves the leader to another lane.                           *)
LEMMA LeaderStep ==
  ASSUME TypeInv, SafetyInv, [Next]_vars, platoonLane'[Leader] # platoonLane[Leader]
  PROVE  Promise!Lead
<1>1. PICK u \in Vehicle :
        /\ Receives(u, Leader, "WarnLaneChangeAck")
        /\ CountsAck(Leader, "WAIT_REPLY")
        /\ AllAcked(receivedAck \cup {u})
        /\ Proceed(Leader, "WAIT_ALL_CHANGED")
        /\ SetPlatoonLane(Leader, nextDestination[Leader])
  BY LeaderChangesLane
<1>2. /\ ~Committed
      /\ nextDestination[Leader] \in Destination(StartLane)
      /\ \A f \in Follower : Ready(f)
  BY <1>1, CommitPoint DEF CountsAck
<1>3. \A v \in Vehicle : platoonLane[v] = platoonLane[Leader]
  BY <1>2, ConsentAndLanes, Types
<1>4. Consent = Follower
  BY <1>2 DEF Consent, Ready
<1>5. Consent' = Consent
  <2>1. \A f \in Follower : maneuverState'[f] = maneuverState[f]
    BY <1>1, Types DEF Proceed
  <2>2. QED
    BY <2>1 DEF Consent
<1>6. PICK d \in Lane :
        /\ d = platoonLane[Leader] + 1 \/ d = platoonLane[Leader] - 1
        /\ platoonLane' = [platoonLane EXCEPT ![Leader] = d]
  BY <1>1, <1>2 DEF Destination, Committed, SetPlatoonLane
<1>7. QED
  BY <1>3, <1>4, <1>5, <1>6
     DEF Promise!Lead, Promise!Together, Promise!Vehicle, Promise!Lane, Vehicle, Lane, Consent

(* A step that moves a follower to another lane.                           *)
LEMMA FollowerLaneStep ==
  ASSUME TypeInv, SafetyInv, [Next]_vars,
         platoonLane'[Leader] = platoonLane[Leader], platoonLane' # platoonLane
  PROVE  \E f \in Follower : Promise!Follow(f)
<1>1. PICK u \in Vehicle, v \in Vehicle :
        HandleWarnLaneChangeAck(u, v) \/ HandleStartSignal(u, v)
  BY DEF Next, OnManeuverMessage, vars, laneVars, StartManeuver, HandleTimeoutMsg,
         HandleWarnLaneChange, HandleLaneChanged, HandleLaneChangeClose, HandleAbort,
         OnFailedTransmissionAttempt
<1>2. /\ platoonLane \in [Vehicle -> Lane] /\ maneuverState \in [Vehicle -> ManeuverState]
      /\ Leader \in Vehicle /\ Leader \notin Follower /\ Follower \subseteq Vehicle
      /\ Changing /\ Routes
  BY Types DEF SafetyInv
<1>3. CASE HandleWarnLaneChangeAck(u, v)
  <2>1. v = Leader
    BY <1>3 DEF HandleWarnLaneChangeAck, CountsAck, Role, laneVars
  <2>2. SetPlatoonLane(v, nextDestination[v])
    BY <1>3 DEF HandleWarnLaneChangeAck, laneVars
  <2>3. platoonLane' = platoonLane
    BY <1>2, <2>1, <2>2 DEF SetPlatoonLane
  <2>4. QED
    BY <2>3
<1>4. CASE HandleStartSignal(u, v)
  <2>1. /\ ProcessStartSignal(v)
        /\ SetPlatoonLane(v, nextDestination[v])
        /\ Proceed(v, "COMPLETE_LANE_CHANGE")
    BY <1>4 DEF HandleStartSignal, laneVars
  <2>2. u = Leader /\ v \in Follower /\ InFlight("StartSignal", Leader, v)
    BY <1>2, <1>4, ReceiveLemma DEF HandleStartSignal, Routes, InFlight, FirstKind
  <2>3. /\ platoonLane[v] # platoonLane[Leader]
        /\ maneuverState[v] = "PREPARE_LANE_CHANGE"
        /\ nextDestination[v] = platoonLane[Leader]
    BY <1>2, <2>2 DEF Changing, Committed
  <2>4. platoonLane' = [platoonLane EXCEPT ![v] = platoonLane[Leader]]
    BY <2>1, <2>3 DEF SetPlatoonLane
  <2>5. \A f \in Follower :
          maneuverState'[f] = IF f = v THEN "COMPLETE_LANE_CHANGE" ELSE maneuverState[f]
    BY <1>2, <2>1 DEF Proceed
  <2>6. v \in Consent /\ Consent' = Consent \ {v}
    BY <2>2, <2>3, <2>5 DEF Consent
  <2>7. QED
    BY <2>2, <2>3, <2>4, <2>6 DEF Promise!Follow, Consent
<1>5. QED
  BY <1>1, <1>3, <1>4

(* The indivisible change of PlatoonLaneChange is what the messages and    *)
(* timers of the manoeuvre carry out: a refusal or a timeout before the    *)
(* leader's change is a withdrawal, and after it no step undoes or delays  *)
(* a consent (LaneChange.cc:112-127, 193-231 and 247-327).                 *)
THEOREM ManeuverImplementsPromise == MaxStarts = 1 => (Spec => ImplementsPromise)
<1> SUFFICES ASSUME MaxStarts = 1 PROVE Spec => ImplementsPromise
  OBVIOUS
<1>1. Init => Promise!Init
  BY PlatoonAssumption DEF Init, Promise!Init, Promise!Vehicle, Vehicle
<1>2. ASSUME TypeInv, SafetyInv, TypeInv', SafetyInv', [Next]_vars
      PROVE  [Promise!Next]_<<platoonLane, Consent>>
  <2>1. CASE UNCHANGED platoonLane
    <3>1. CASE UNCHANGED Consent
      BY <2>1, <3>1
    <3>2. ASSUME \A v \in Vehicle : platoonLane[v] = platoonLane[Leader],
                 NEW f \in Follower, Consent' = Consent \cup {f} \/ Consent' = Consent \ {f}
          PROVE  Promise!Next
      <4>1. Promise!Agree(f) \/ Promise!Withdraw(f)
        BY <2>1, <3>2 DEF Promise!Agree, Promise!Withdraw, Promise!Together, Promise!Vehicle,
                          Vehicle, Consent
      <4>2. QED
        BY <4>1 DEF Promise!Next
    <3>3. QED
      BY <1>2, <2>1, <3>1, <3>2, NoLaneStep
  <2>2. CASE platoonLane'[Leader] # platoonLane[Leader]
    BY <1>2, <2>2, LeaderStep DEF Promise!Next
  <2>3. CASE platoonLane'[Leader] = platoonLane[Leader] /\ platoonLane' # platoonLane
    BY <1>2, <2>3, FollowerLaneStep DEF Promise!Next
  <2>4. QED
    BY <2>1, <2>2, <2>3
<1>3. QED
  BY <1>1, <1>2, SafetyInvariant, TypeInvariant, PTL
     DEF Spec, ImplementsPromise, Promise!Spec, Consent

=============================================================================
