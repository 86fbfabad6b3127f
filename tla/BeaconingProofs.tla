-------------------------- MODULE BeaconingProofs ---------------------------
(***************************************************************************)
(* Proofs about Beaconing: types, what the controllers hold, and when      *)
(* vehicles send, for every platoon, beaconing interval, delay and number  *)
(* of radios.                                                              *)
(*                                                                         *)
(* The argument about time.  A copy of the leader's beacon is as old as    *)
(* the leader's last beacon (LeadAir), so it sets a timer to fire within   *)
(* the delay after the start of the slot.  A slot begins later than the    *)
(* delay, so the beacon of this round was not yet sent and is moved, never *)
(* doubled; and from one round to the next a timer keeps its place in the  *)
(* slot (InSlot).                                                          *)
(***************************************************************************)
EXTENDS Beaconing, TLAPS

Size == Len(setup.platoon)
Lead == Whole[1]

(* The offset of the vehicle at a place of the registered platoon.         *)
SlotOf(place) == ((place - 1) * setup.interval) \div Size

(* Everyone has the registered platoon or a longer one, but for joiners    *)
(* that still have their stray formation.                                  *)
Seated(v) ==
  \/ v \notin Registered /\ formation[v] = <<stray[v].leader>>
  \/ \E k \in Size..Len(Whole) :
       /\ formation[v] = FirstOfWhole(k)
       /\ v \notin Registered => k > Size

(* Nobody sends without a beaconing interval.                              *)
TypeInv ==
  /\ TypeOK
  /\ \A v \in Vehicle : Seated(v)
  /\ \A v \in Vehicle : timer[v] # NotScheduled \/ seq_n[v] > 0 => setup.interval > 0

-----------------------------------------------------------------------------
(* Facts about setups and formations *)

LEMMA SetupFacts ==
  ASSUME setup \in Setups
  PROVE  /\ setup.interval \in Int /\ (setup.protocol = "slotted" => setup.interval > 0)
         /\ setup.second \in Nat \ {0} /\ setup.delay \in Nat /\ setup.radios \in Nat
         /\ setup.protocol # "slotted" => setup.protocol = "simple"
         /\ setup.platoon \in Seq(Vehicle) /\ setup.joining \in Seq(Vehicle)
         /\ Len(setup.platoon) \in Nat \ {0}
         /\ Whole \in Seq(Vehicle) /\ Len(Whole) \in Nat \ {0}
         /\ Len(setup.platoon) <= Len(Whole)
         /\ \A i, j \in 1..Len(Whole) : Whole[i] = Whole[j] => i = j
<1>0. /\ setup.platoon \in Seq(Vehicle) /\ setup.joining \in Seq(Vehicle)
      /\ Len(setup.platoon) > 0
      /\ setup.interval \in Int /\ (setup.protocol = "slotted" => setup.interval > 0)
      /\ setup.second \in Nat \ {0} /\ setup.delay \in Nat /\ setup.radios \in Nat
      /\ setup.protocol # "slotted" => setup.protocol = "simple"
  BY SetupAssumption
<1>1. IsInjective(Whole)
  BY SetupAssumption, Zenon DEF Whole
<1>2. Whole \in Seq(Vehicle) /\ Len(Whole) = Len(setup.platoon) + Len(setup.joining)
  BY <1>0 DEF Whole
<1>3. DOMAIN Whole = 1..Len(Whole)
  BY <1>2
<1>4. \A i, j \in 1..Len(Whole) : Whole[i] = Whole[j] => i = j
  BY <1>1, <1>3, Zenon DEF IsInjective
<1>5. /\ Len(setup.platoon) \in Nat \ {0} /\ Len(Whole) \in Nat \ {0}
      /\ Len(setup.platoon) <= Len(Whole)
  <2>1. ASSUME NEW p \in Seq(Vehicle)
        PROVE  Len(p) \in Nat
    OBVIOUS
  <2>2. Len(setup.platoon) \in Nat /\ Len(setup.joining) \in Nat
    BY <1>0, <2>1
  <2>3. ASSUME NEW n \in Nat, NEW m \in Nat, n > 0
        PROVE  n \in Nat \ {0} /\ n + m \in Nat \ {0} /\ n <= n + m
    BY <2>3
  <2>4. Len(setup.platoon) > 0 /\ Len(Whole) = Len(setup.platoon) + Len(setup.joining)
    BY <1>0, <1>2
  <2>5. QED
    BY <2>2, <2>3, <2>4, Zenon
<1>6. QED
  BY <1>0, <1>2, <1>4, <1>5, Zenon

LEMMA FirstFacts ==
  ASSUME setup \in Setups, NEW k \in 1..Len(Whole)
  PROVE  /\ FirstOfWhole(k) \in Seq(Vehicle) /\ Len(FirstOfWhole(k)) = k
         /\ \A i \in 1..k : FirstOfWhole(k)[i] = Whole[i]
BY SetupFacts DEF FirstOfWhole

(* Slots are an equal distance apart, whatever is lost in rounding.        *)
LEMMA Quotients ==
  ASSUME NEW n \in Nat \ {0}, NEW m \in Nat, NEW a \in Nat, NEW b \in Nat, a < b
  PROVE  (a * m) \div n + m \div n <= (b * m) \div n
<1>1. ASSUME NEW x \in Nat
      PROVE  /\ x \div n \in Nat
             /\ n * (x \div n) <= x
             /\ x < n * (x \div n) + n
  BY <1>1
<1> DEFINE x == (a * m) \div n
           q == m \div n
           y == (b * m) \div n
<1>2. a * m \in Nat /\ b * m \in Nat /\ a * m + m <= b * m
  <2>1. b - a \in Nat /\ b - a >= 1
    OBVIOUS
  <2>2. (b - a) * m >= m
    BY <2>1
  <2>3. b * m = a * m + (b - a) * m
    BY <2>1
  <2>4. a * m \in Nat /\ b * m \in Nat
    OBVIOUS
  <2>5. QED
    BY <2>2, <2>3, <2>4
<1>3. x \in Nat /\ q \in Nat /\ y \in Nat
  BY <1>1, <1>2
<1>4. n * x <= a * m /\ n * q <= m /\ b * m < n * y + n
  BY <1>1, <1>2
<1> HIDE DEF x, q, y
<1>5. n * x + n * q < n * y + n
  BY <1>2, <1>3, <1>4
<1>6. n * (x + q) < n * (y + 1)
  BY <1>3, <1>5
<1>7. x + q < y + 1
  <2>1. SUFFICES ASSUME x + q >= y + 1 PROVE FALSE
    BY <1>3
  <2>2. n * (x + q) >= n * (y + 1)
    BY <1>3, <2>1
  <2>3. QED
    BY <1>3, <1>6, <2>2
<1>8. QED
  BY <1>3, <1>7 DEF x, q, y

LEMMA DivByFactor ==
  ASSUME NEW n \in Nat \ {0}, NEW m \in Nat
  PROVE  (n * m) \div n = m
<1> DEFINE y == (n * m) \div n
<1>1. ASSUME NEW x \in Nat
      PROVE  /\ x \div n \in Nat
             /\ n * (x \div n) <= x
             /\ x < n * (x \div n) + n
  BY <1>1
<1>2. y \in Nat /\ n * y <= n * m /\ n * m < n * y + n
  <2>1. n * m \in Nat
    OBVIOUS
  <2>2. QED
    BY <1>1, <2>1
<1> HIDE DEF y
<1>3. n * m < n * (y + 1)
  BY <1>2
<1>4. ~(y > m)
  <2>1. SUFFICES ASSUME y >= m + 1 PROVE FALSE
    BY <1>2
  <2>2. n * y >= n * (m + 1)
    BY <1>2, <2>1
  <2>3. n * (m + 1) = n * m + n
    OBVIOUS
  <2>4. QED
    BY <1>2, <2>2, <2>3
<1>5. ~(m >= y + 1)
  <2>1. SUFFICES ASSUME m >= y + 1 PROVE FALSE
    OBVIOUS
  <2>2. n * m >= n * (y + 1)
    BY <1>2, <2>1
  <2>3. QED
    BY <1>2, <1>3, <2>2
<1>6. y = m
  BY <1>2, <1>4, <1>5
<1>7. QED
  BY <1>6 DEF y

LEMMA PlatoonFacts ==
  ASSUME setup \in Setups
  PROVE  /\ Size \in Nat \ {0} /\ Len(Whole) \in Nat /\ Size <= Len(Whole)
         /\ \A i \in 1..Size : Whole[i] \in Registered
         /\ \A v \in Registered : \E i \in 1..Size : v = Whole[i]
         /\ \A i, j \in 1..Size : Whole[i] = Whole[j] => i = j
         /\ Registered \subseteq OnRoad /\ OnRoad \subseteq Vehicle
         /\ Lead \in Registered /\ setup.platoon[1] = Lead
<1>1. /\ setup.platoon \in Seq(Vehicle) /\ setup.joining \in Seq(Vehicle)
      /\ Whole \in Seq(Vehicle) /\ Len(Whole) \in Nat /\ Size \in Nat \ {0}
      /\ Size <= Len(Whole)
      /\ \A i, j \in 1..Len(Whole) : Whole[i] = Whole[j] => i = j
  BY SetupFacts DEF Size
<1>2. \A i \in 1..Size : Whole[i] = setup.platoon[i]
  <2>1. ASSUME NEW p \in Seq(Vehicle), NEW q \in Seq(Vehicle), NEW i \in 1..Len(p)
        PROVE  (p \o q)[i] = p[i]
    OBVIOUS
  <2>2. QED
    BY <1>1, <2>1 DEF Whole, Size
<1>3. Registered = {setup.platoon[i] : i \in 1..Size}
  BY <1>1 DEF ToSet, Registered, Size
<1>4. OnRoad = {Whole[i] : i \in 1..Len(Whole)} /\ OnRoad \subseteq Vehicle
  BY <1>1 DEF ToSet, OnRoad
<1>5. 1..Size \subseteq 1..Len(Whole) /\ 1 \in 1..Size
  BY <1>1
<1>6. /\ \A i \in 1..Size : Whole[i] \in Registered
      /\ \A v \in Registered : \E i \in 1..Size : v = Whole[i]
  BY <1>2, <1>3, Zenon
<1>7. Registered \subseteq OnRoad
  BY <1>4, <1>5, <1>6
<1>8. \A i, j \in 1..Size : Whole[i] = Whole[j] => i = j
  BY <1>1, <1>5
<1>9. Lead \in Registered /\ setup.platoon[1] = Lead
  BY <1>2, <1>5, <1>6 DEF Lead
<1>10. QED
  BY <1>1, <1>4, <1>6, <1>7, <1>8, <1>9

LEMMA SlotOrder ==
  ASSUME setup \in Setups, setup.interval > 0
  PROVE  /\ setup.interval \div Size \in Nat
         /\ \A i, j \in 1..Size : i < j =>
              SlotOf(i) + setup.interval \div Size <= SlotOf(j)
         /\ \A i \in 1..Size :
              /\ SlotOf(i) \in Nat
              /\ SlotOf(i) + setup.interval \div Size <= setup.interval
         /\ \A i \in 1..Size : SlotOf(i) < setup.interval
         /\ \A i \in 2..Size : setup.interval \div Size <= SlotOf(i)
<1>1. Size \in Nat \ {0} /\ setup.interval \in Nat
  BY SetupFacts DEF Size
<1> DEFINE q == setup.interval \div Size
<1>2. q \in Nat
  BY <1>1
<1>3. ASSUME NEW i \in 1..Size
      PROVE  SlotOf(i) = ((i - 1) * setup.interval) \div Size /\ SlotOf(i) \in Nat
  <2>1. (i - 1) * setup.interval \in Nat
    BY <1>1
  <2>2. QED
    BY <1>1, <2>1, SMTT(30) DEF SlotOf, Size
<1>4. ASSUME NEW i \in 1..Size, NEW j \in 1..Size, i < j
      PROVE  SlotOf(i) + q <= SlotOf(j)
  <2>1. i - 1 \in Nat /\ j - 1 \in Nat /\ i - 1 < j - 1
    BY <1>1, <1>4
  <2>2. QED
    BY <1>1, <1>3, <2>1, Quotients
<1>5. ASSUME NEW i \in 1..Size
      PROVE  SlotOf(i) + q <= setup.interval
  <2>1. i - 1 \in Nat /\ Size \in Nat /\ i - 1 < Size
    BY <1>1
  <2>2. SlotOf(i) + q <= (Size * setup.interval) \div Size
    BY <1>1, <1>3, <2>1, Quotients
  <2>3. ASSUME NEW n \in Nat \ {0}, NEW m \in Nat
        PROVE  (n * m) \div n = m
    BY <2>3, DivByFactor
  <2>4. QED
    BY <1>1, <2>2, <2>3
<1>6. ASSUME NEW i \in 2..Size
      PROVE  q <= SlotOf(i)
  <2>1. 1 \in 1..Size /\ i \in 1..Size /\ 1 < i
    BY <1>1
  <2>2. SlotOf(1) + q <= SlotOf(i) /\ SlotOf(1) \in Nat /\ SlotOf(i) \in Nat
    BY <1>3, <1>4, <2>1
  <2>3. QED
    BY <1>2, <2>2
<1>7. ASSUME NEW i \in 1..Size
      PROVE  SlotOf(i) < setup.interval
  <2>1. i - 1 \in Nat /\ Size - (i - 1) >= 1 /\ setup.interval >= 1
    BY <1>1
  <2>2. ASSUME NEW n \in Nat \ {0}, NEW x \in Nat
        PROVE  x \div n \in Nat /\ n * (x \div n) <= x
    BY <2>2
  <2>3. (i - 1) * setup.interval \in Nat
    BY <1>1, <2>1
  <2>4. Size * SlotOf(i) <= (i - 1) * setup.interval
    BY <1>1, <1>3, <2>2, <2>3
  <2>5. (i - 1) * setup.interval < Size * setup.interval
    <3>1. (Size - (i - 1)) * setup.interval >= 1
      BY <1>1, <2>1
    <3>2. \A x, y \in Int : x * y = (x - (i - 1)) * y + (i - 1) * y
      BY <1>1, <2>1
    <3>3. QED
      BY <1>1, <2>1, <2>3, <3>1, <3>2
  <2>6. SUFFICES ASSUME SlotOf(i) >= setup.interval PROVE FALSE
    BY <1>1, <1>3
  <2>7. Size * SlotOf(i) >= Size * setup.interval
    BY <1>1, <1>3, <2>6
  <2>8. QED
    BY <1>1, <1>3, <2>3, <2>4, <2>5, <2>7
<1>8. QED
  BY <1>2, <1>3, <1>4, <1>5, <1>6, <1>7

LEMMA PlatoonIsFirst ==
  ASSUME setup \in Setups
  PROVE  setup.platoon = FirstOfWhole(Len(setup.platoon))
<1>1. setup.platoon \in Seq(Vehicle) /\ setup.joining \in Seq(Vehicle)
  BY SetupFacts
<1>2. ASSUME NEW p \in Seq(Vehicle), NEW q \in Seq(Vehicle)
      PROVE  p = SubSeq(p \o q, 1, Len(p))
  OBVIOUS
<1>3. QED
  BY <1>1, <1>2 DEF FirstOfWhole, Whole

LEMMA FirstFormationFacts ==
  ASSUME setup \in Setups, NEW v \in Vehicle, stray[v].leader \in Vehicle
  PROVE  /\ FirstFormation(v) \in Seq(Vehicle)
         /\ v \in Registered => FirstFormation(v) = FirstOfWhole(Size)
         /\ v \notin Registered => FirstFormation(v) = <<stray[v].leader>>
<1>1. setup.platoon = FirstOfWhole(Size)
  BY PlatoonIsFirst DEF Size
<1>2. QED
  BY <1>1, SetupFacts DEF FirstFormation

-----------------------------------------------------------------------------
(* Slots *)

SlotsGiven ==
  /\ setup.protocol = "simple" => \A v \in Vehicle : slotTime[v] = 0
  /\ setup.protocol = "slotted" =>
       /\ \A i \in 1..Size : slotTime[Whole[i]] = SlotOf(i)
       /\ \A v \in Vehicle \ Registered : slotTime[v] \in {0, -setup.interval}

LEMMA InitSlots == Init => SlotsGiven
<1> SUFFICES ASSUME Init PROVE SlotsGiven
  OBVIOUS
<1>1. /\ setup \in Setups /\ setup.interval \in Int
      /\ \A v \in Vehicle : formation[v] = FirstFormation(v) /\ slotTime[v] = SlotTime(v)
      /\ \A v \in Vehicle : stray[v].leader \in Vehicle
  BY SetupFacts DEF Init
<1>2. /\ Size \in Nat \ {0} /\ Len(Whole) \in Nat /\ Size <= Len(Whole)
      /\ \A i \in 1..Size : Whole[i] \in Registered
      /\ \A i, j \in 1..Size : Whole[i] = Whole[j] => i = j
      /\ Registered \subseteq OnRoad /\ OnRoad \subseteq Vehicle
  BY <1>1, PlatoonFacts
<1>3. ASSUME NEW i \in 1..Size, setup.protocol = "slotted"
      PROVE  slotTime[Whole[i]] = SlotOf(i)
  <2> DEFINE v == Whole[i]
  <2>1. v \in Registered /\ v \in Vehicle
    BY <1>2
  <2>2. formation[v] = FirstOfWhole(Size)
    BY <1>1, <2>1, FirstFormationFacts
  <2>3. Len(formation[v]) = Size /\ \A j \in 1..Size : formation[v][j] = Whole[j]
    <3>1. Size \in 1..Len(Whole)
      BY <1>2
    <3>2. QED
      BY <1>1, <2>2, <3>1, FirstFacts
  <2>4. \A j \in 1..Size : formation[v][j] = v <=> j = i
    BY <1>2, <2>3
  <2> HIDE DEF v
  <2>5. IsInSamePlatoon(v, v) /\ MemberPosition(v, v) = i
    BY <2>3, <2>4 DEF IsInSamePlatoon, MemberPosition
  <2>6. Position(v) = i - 1
    BY <2>5 DEF Position
  <2>7. slotTime[v] = SlotOf(i)
    BY <1>1, <1>3, <2>1, <2>3, <2>6 DEF SlotTime, SlotOf
  <2>8. QED
    BY <2>7 DEF v
<1>4. ASSUME NEW v \in Vehicle \ Registered, setup.protocol = "slotted"
      PROVE  slotTime[v] \in {0, -setup.interval}
  <2>1. formation[v] = <<stray[v].leader>> /\ Len(formation[v]) = 1
    BY <1>1, FirstFormationFacts
  <2>2. CASE stray[v].leader = v
    <3>1. IsInSamePlatoon(v, v) /\ MemberPosition(v, v) = 1
      BY <2>1, <2>2 DEF IsInSamePlatoon, MemberPosition
    <3>2. Position(v) = 0
      BY <3>1 DEF Position
    <3>3. slotTime[v] = (0 * setup.interval) \div 1
      BY <1>1, <1>4, <2>1, <3>2 DEF SlotTime
    <3>4. QED
      BY <1>1, <3>3
  <2>3. CASE stray[v].leader # v
    <3>1. Position(v) = -1
      BY <2>1, <2>3 DEF IsInSamePlatoon, Position
    <3>2. slotTime[v] = ((-1) * setup.interval) \div 1
      BY <1>1, <1>4, <2>1, <3>1 DEF SlotTime
    <3>3. QED
      BY <1>1, <3>2
  <2>4. QED
    BY <2>2, <2>3
<1>5. setup.protocol = "simple" => \A v \in Vehicle : slotTime[v] = 0
  BY <1>1 DEF SlotTime
<1>6. QED
  BY <1>3, <1>4, <1>5 DEF SlotsGiven

(* Slots of the registered platoon are in the interval, others not in it   *)
(* are in the past.                                                        *)
LEMMA SlotBounds ==
  ASSUME setup \in Setups, SlotsGiven, NEW v \in Vehicle
  PROVE  /\ slotTime[v] \in Int
         /\ v \in Registered => slotTime[v] >= 0
         /\ v \notin Registered => slotTime[v] <= 0
         /\ setup.protocol = "slotted" => slotTime[v] < setup.interval
<1>1. setup.interval \in Int /\ (setup.protocol = "slotted" => setup.interval > 0)
  BY SetupFacts
<1>2. CASE setup.protocol # "slotted"
  <2>1. slotTime[v] = 0
    BY <1>2, SetupFacts DEF SlotsGiven
  <2>2. QED
    BY <1>2, <2>1
<1>3. CASE setup.protocol = "slotted" /\ v \in Registered
  <2>1. PICK i \in 1..Size : v = Whole[i]
    BY <1>3, PlatoonFacts
  <2>2. slotTime[v] = SlotOf(i)
    BY <1>3, <2>1 DEF SlotsGiven
  <2>3. SlotOf(i) \in Nat /\ SlotOf(i) < setup.interval
    BY <1>1, <1>3, SlotOrder
  <2>4. QED
    BY <1>3, <2>2, <2>3
<1>4. CASE setup.protocol = "slotted" /\ v \notin Registered
  <2>1. slotTime[v] \in {0, -setup.interval}
    BY <1>4 DEF SlotsGiven
  <2>2. QED
    BY <1>1, <1>4, <2>1
<1>5. QED
  BY <1>2, <1>3, <1>4

-----------------------------------------------------------------------------
(* Types *)

LEMMA LatestFacts ==
  ASSUME setup \in Setups
  PROVE  /\ Latest \in Int /\ setup.interval \in Int
         /\ setup.interval > 0 => Latest \in Nat /\ setup.interval <= Latest
         /\ \A b \in Begin : b > 0 /\ setup.interval + b <= Latest
BY SetupFacts DEF Latest, Begin

LEMMA InitType == Init => TypeInv
<1> SUFFICES ASSUME Init PROVE TypeInv
  OBVIOUS
<1>1. /\ setup \in Setups /\ setup.interval \in Int
      /\ MaxBeacons \in [Vehicle -> Nat]
      /\ setup.protocol = "slotted" => setup.interval > 0
      /\ setup.protocol # "slotted" => setup.protocol = "simple"
  BY SetupFacts, BeaconsAssumption DEF Init
<1>2. ASSUME NEW v \in Vehicle
      PROVE  Seated(v) /\ formation[v] \in Seq(Vehicle)
  <2>1. Size \in Size..Len(Whole)
    BY <1>1, PlatoonFacts
  <2>2. QED
    BY <1>1, <2>1, FirstFormationFacts DEF Init, Seated
<1>3. ASSUME NEW v \in Vehicle
      PROVE  /\ timer[v] \in {NotScheduled} \cup 0..Latest
             /\ timer[v] # NotScheduled => setup.interval > 0
             /\ seq_n[v] = 0
  <2>1. PICK begin \in [{w \in OnRoad : StartsAlone(w)} -> Begin] :
          timer = [w \in Vehicle |-> IF w \in OnRoad /\ StartsAlone(w)
                                     THEN setup.interval + begin[w] ELSE NotScheduled]
    BY DEF Init
  <2>2. seq_n[v] = 0
    BY DEF Init
  <2>3. CASE v \in OnRoad /\ StartsAlone(v)
    <3>1. begin[v] \in Begin /\ timer[v] = setup.interval + begin[v]
      BY <2>1, <2>3
    <3>2. setup.interval > 0
      BY <1>1, <2>3 DEF StartsAlone
    <3>3. begin[v] \in Int
      BY <1>1, <3>1, SetupFacts DEF Begin
    <3>4. QED
      BY <1>1, <2>2, <3>1, <3>2, <3>3, LatestFacts
  <2>4. CASE ~(v \in OnRoad /\ StartsAlone(v))
    BY <2>1, <2>2, <2>4
  <2>5. QED
    BY <2>3, <2>4
<1>4. timer \in [Vehicle -> {NotScheduled} \cup 0..Latest]
  <2>1. \E g : timer = [w \in Vehicle |-> g[w]]
    <3>1. PICK begin \in [{w \in OnRoad : StartsAlone(w)} -> Begin] :
            timer = [w \in Vehicle |-> IF w \in OnRoad /\ StartsAlone(w)
                                       THEN setup.interval + begin[w] ELSE NotScheduled]
      BY DEF Init
    <3>2. timer = [w \in Vehicle |-> timer[w]]
      BY <3>1
    <3>3. QED
      BY <3>2
  <2>2. QED
    BY <1>3, <2>1
<1>5. /\ formation \in [Vehicle -> Seq(Vehicle)]
      /\ stray \in [Vehicle -> [leader : Vehicle, front : BOOLEAN]]
  BY <1>2 DEF Init
<1>6. /\ \A v \in Vehicle : slotTime[v] \in Int
      /\ \A v \in Vehicle : slotTime[v] < setup.interval \/ setup.protocol = "simple"
      /\ \A v \in Registered : slotTime[v] >= 0
  <2>1. Registered \subseteq Vehicle
    BY <1>1, PlatoonFacts
  <2>2. QED
    BY <1>1, <2>1, InitSlots, SlotBounds
<1>7. slotTime \in [Vehicle -> Int]
  BY <1>6 DEF Init
<1>8. /\ seq_n \in [Vehicle -> Nat] /\ quiet \in [Vehicle -> Nat]
      /\ \A v \in Vehicle : seq_n[v] <= MaxBeacons[v]
      /\ air \subseteq Frame /\ simulating \in BOOLEAN
      /\ knownBeacons \in [Vehicle -> [Vehicle -> Nat \cup {Unknown}]]
      /\ before \in [Vehicle -> [Vehicle -> Nat \cup {Unknown}]]
  BY <1>1 DEF Init
<1>9. /\ leaderData \in [Vehicle -> Data] /\ frontData \in [Vehicle -> Data]
      /\ vehicleData \in [Vehicle -> [Place -> Data]]
  BY DEF Init, Data
<1>10. \A v \in Vehicle : seq_n[v] > 0 => timer[v] <= setup.interval
  BY <1>3
<1>11. \A v \in Vehicle : timer[v] # NotScheduled \/ seq_n[v] > 0 => setup.interval > 0
  BY <1>3
<1>12. TypeOK
  BY <1>1, <1>4, <1>5, <1>6, <1>7, <1>8, <1>9, <1>10 DEF TypeOK
<1>13. QED
  BY <1>2, <1>11, <1>12 DEF TypeInv

LEMMA DataType ==
  ASSUME TypeOK, NEW v \in Vehicle, NEW b \in Beacon, OnPlatoonBeacon(v, b)
  PROVE  /\ leaderData' \in [Vehicle -> Data] /\ frontData' \in [Vehicle -> Data]
         /\ vehicleData' \in [Vehicle -> [Place -> Data]]
<1>0. b \in Data
  BY DEF Data
<1>1. CASE PassToController(v, b)
  <2>1. leaderData' \in [Vehicle -> Data] /\ frontData' \in [Vehicle -> Data]
    BY <1>0, <1>1 DEF TypeOK, PassToController
  <2>2. vehicleData' \in [Vehicle -> [Place -> Data]]
    BY <1>0, <1>1 DEF TypeOK, PassToController
  <2>3. QED
    BY <2>1, <2>2
<1>2. CASE UNCHANGED controllerVars
  BY <1>2 DEF TypeOK, controllerVars
<1>3. QED
  BY <1>1, <1>2 DEF OnPlatoonBeacon

(* What depends on the setup only stays.                                   *)
LEMMA SetupStays ==
  ASSUME setup' = setup, stray' = stray
  PROVE  /\ Whole' = Whole /\ Place' = Place /\ Size' = Size /\ Lead' = Lead
         /\ OnRoad' = OnRoad /\ Registered' = Registered /\ Latest' = Latest
         /\ \A k : FirstOfWhole(k)' = FirstOfWhole(k)
         /\ \A v : StartsAlone(v)' = StartsAlone(v)
         /\ \A i : SlotOf(i)' = SlotOf(i)
BY DEF Whole, Place, Size, Lead, OnRoad, Registered, Latest, FirstOfWhole, StartsAlone,
       FirstFormation, SlotOf

LEMMA SeatedKept ==
  ASSUME setup' = setup, stray' = stray, NEW v \in Vehicle, formation'[v] = formation[v],
         Seated(v)
  PROVE  Seated(v)'
BY SetupStays DEF Seated

LEMMA SeatedFacts ==
  ASSUME setup \in Setups, stray \in [Vehicle -> [leader : Vehicle, front : BOOLEAN]],
         NEW v \in Vehicle, Seated(v)
  PROVE  /\ formation[v] \in Seq(Vehicle) /\ Len(formation[v]) \in 1..Len(Whole)
         /\ v \in Registered => LeaderId(v) = Lead
         /\ \A k \in 1..Len(Whole) : v \in Registered /\ formation[v] = FirstOfWhole(k)
                                     => Size <= k
         /\ \A i, j \in 1..Len(formation[v]) : formation[v][i] = formation[v][j] => i = j
<1>1. Size \in Nat \ {0} /\ Len(Whole) \in Nat /\ Size <= Len(Whole)
      /\ \A i, j \in 1..Len(Whole) : Whole[i] = Whole[j] => i = j
  BY PlatoonFacts, SetupFacts
<1>2. CASE v \notin Registered /\ formation[v] = <<stray[v].leader>>
  BY <1>1, <1>2
<1>3. ASSUME NEW k \in Size..Len(Whole), formation[v] = FirstOfWhole(k)
      PROVE  /\ formation[v] \in Seq(Vehicle) /\ Len(formation[v]) = k
             /\ LeaderId(v) = Lead /\ k \in 1..Len(Whole)
             /\ \A i, j \in 1..k : formation[v][i] = formation[v][j] => i = j
  <2>1. k \in 1..Len(Whole) /\ 1 \in 1..k /\ 1..k \subseteq 1..Len(Whole)
    BY <1>1
  <2>2. /\ formation[v] \in Seq(Vehicle) /\ Len(formation[v]) = k
        /\ \A i \in 1..k : formation[v][i] = Whole[i]
    BY <1>3, <2>1, FirstFacts
  <2>3. LeaderId(v) = Lead
    BY <2>1, <2>2 DEF LeaderId, Lead
  <2>4. QED
    BY <1>1, <2>1, <2>2, <2>3
<1>4. ASSUME v \in Registered, NEW k \in 1..Len(Whole), formation[v] = FirstOfWhole(k)
      PROVE  Size <= k
  <2>1. Len(formation[v]) = k
    BY <1>4, FirstFacts
  <2>2. PICK j \in Size..Len(Whole) : formation[v] = FirstOfWhole(j)
    BY <1>4 DEF Seated
  <2>3. QED
    BY <1>1, <1>3, <2>1, <2>2
<1>5. CASE \E k \in Size..Len(Whole) : formation[v] = FirstOfWhole(k)
  <2>1. PICK k \in Size..Len(Whole) : formation[v] = FirstOfWhole(k)
    BY <1>5
  <2>2. QED
    BY <1>3, <1>4, <2>1
<1>6. QED
  BY <1>2, <1>5 DEF Seated

(* How a formation grows, and for whom.                                    *)
LEMMA Growth ==
  ASSUME setup \in Setups, formation \in [Vehicle -> Seq(Vehicle)],
         stray \in [Vehicle -> [leader : Vehicle, front : BOOLEAN]],
         \A w \in Vehicle : Seated(w),
         NEW v \in Vehicle, JoinFormation(v) \/ UpdatePlatoonFormation(v)
  PROVE  /\ UNCHANGED <<givenVars, sendVars, air, knownBeacons, controllerVars>>
         /\ before' = [before EXCEPT ![v] = knownBeacons[v]]
         /\ \E k \in 1..(Len(Whole) - 1) :
              /\ formation' = [formation EXCEPT ![v] = FirstOfWhole(k + 1)]
              /\ k + 1 \in Size..Len(Whole) /\ k + 1 > Size
              /\ \/ v \notin Registered /\ formation[v] = <<stray[v].leader>>
                 \/ formation[v] = FirstOfWhole(k) /\ v \in ToSet(FirstOfWhole(k))
<1>1. /\ Size \in Nat \ {0} /\ Len(Whole) \in Nat /\ Size <= Len(Whole)
      /\ Lead \in Registered /\ Registered \subseteq OnRoad /\ OnRoad \subseteq Vehicle
      /\ \A w \in Registered : \E i \in 1..Size : w = Whole[i]
      /\ \A i, j \in 1..Len(Whole) : Whole[i] = Whole[j] => i = j
  BY PlatoonFacts, SetupFacts
<1>2. UNCHANGED <<givenVars, sendVars, air, knownBeacons, controllerVars>>
      /\ before' = [before EXCEPT ![v] = knownBeacons[v]]
  BY DEF JoinFormation, UpdatePlatoonFormation, SetPlatoonFormation
<1>3. CASE JoinFormation(v)
  <2>1. PICK k \in 1..(Len(Whole) - 1) :
          /\ Whole[k + 1] = v /\ formation[v] = <<stray[v].leader>>
          /\ formation[Lead] = FirstOfWhole(k)
          /\ formation' = [formation EXCEPT ![v] = FirstOfWhole(k + 1)]
    BY <1>3 DEF JoinFormation, SetPlatoonFormation, Lead
  <2>2. k \in 1..Len(Whole) /\ k + 1 \in 1..Len(Whole)
    BY <1>1
  <2>3. Size <= k
    BY <1>1, <2>1, <2>2, SeatedFacts
  <2>4. v \notin Registered
    <3>1. SUFFICES ASSUME NEW i \in 1..Size, v = Whole[i] PROVE FALSE
      BY <1>1
    <3>2. i \in 1..Len(Whole) /\ i # k + 1
      BY <1>1, <2>3
    <3>3. QED
      BY <1>1, <2>1, <2>2, <3>1, <3>2
  <2>5. k + 1 \in Size..Len(Whole) /\ k + 1 > Size
    BY <1>1, <2>2, <2>3
  <2>6. QED
    BY <1>2, <2>1, <2>4, <2>5
<1>4. CASE UpdatePlatoonFormation(v)
  <2>1. PICK k \in 1..(Len(Whole) - 1) :
          /\ v \in ToSet(FirstOfWhole(k)) /\ formation[v] = FirstOfWhole(k)
          /\ formation' = [formation EXCEPT ![v] = FirstOfWhole(k + 1)]
    BY <1>4 DEF UpdatePlatoonFormation, SetPlatoonFormation
  <2>2. k \in 1..Len(Whole) /\ k + 1 \in 1..Len(Whole)
    BY <1>1
  <2>3. Size <= k
    <3>1. CASE v \in Registered
      BY <2>1, <2>2, <3>1, SeatedFacts
    <3>2. CASE v \notin Registered /\ formation[v] = <<stray[v].leader>>
      <4>1. Len(FirstOfWhole(k)) = k /\ FirstOfWhole(k)[1] = Lead
        BY <1>1, <2>2, FirstFacts, SMTT(30) DEF Lead
      <4>2. k = 1
        BY <2>1, <3>2, <4>1
      <4>3. ToSet(FirstOfWhole(k)) = {Lead}
        BY <4>1, <4>2, <2>2, FirstFacts DEF ToSet
      <4>4. QED
        BY <1>1, <2>1, <3>2, <4>3
    <3>3. CASE v \notin Registered /\ formation[v] # <<stray[v].leader>>
      <4>1. PICK j \in Size..Len(Whole) : formation[v] = FirstOfWhole(j) /\ j > Size
        BY <3>3 DEF Seated
      <4>2. j \in 1..Len(Whole)
        BY <1>1
      <4>3. j = k
        BY <2>1, <2>2, <4>1, <4>2, FirstFacts
      <4>4. QED
        BY <1>1, <2>2, <4>1, <4>3
    <3>4. QED
      BY <3>1, <3>2, <3>3
  <2>4. k + 1 \in Size..Len(Whole) /\ k + 1 > Size
    BY <1>1, <2>2, <2>3
  <2>5. QED
    BY <1>2, <2>1, <2>4, Zenon
<1>5. QED
  BY <1>3, <1>4

LEMMA TypeFacts ==
  ASSUME TypeInv
  PROVE  /\ setup \in Setups /\ setup.interval \in Int /\ setup.delay \in Nat
         /\ setup.radios \in Nat
         /\ setup.protocol = "slotted" => setup.interval > 0
         /\ setup.protocol # "slotted" => setup.protocol = "simple"
         /\ stray \in [Vehicle -> [leader : Vehicle, front : BOOLEAN]]
         /\ Lead \in Vehicle /\ Lead \in OnRoad /\ OnRoad \subseteq Vehicle
         /\ Registered \subseteq OnRoad /\ Latest \in Int
         /\ setup.interval > 0 => Latest \in Nat /\ setup.interval <= Latest
         /\ \A v \in Vehicle :
              /\ timer[v] \in {NotScheduled} \cup 0..Latest
              /\ timer[v] \in Int /\ (timer[v] # NotScheduled => timer[v] \in Nat)
              /\ timer[v] # NotScheduled \/ seq_n[v] > 0 => setup.interval > 0
              /\ seq_n[v] > 0 => timer[v] <= setup.interval
              /\ slotTime[v] \in Int /\ quiet[v] \in Nat /\ seq_n[v] \in Nat
              /\ seq_n[v] <= MaxBeacons[v] /\ MaxBeacons[v] \in Nat
              /\ slotTime[v] < setup.interval \/ setup.protocol = "simple"
         /\ \A f \in air : f \in Frame /\ f.src \in Vehicle /\ f.to \in Vehicle
                           /\ f.age \in Nat /\ f.seq \in Nat
<1>1. /\ setup \in Setups
      /\ stray \in [Vehicle -> [leader : Vehicle, front : BOOLEAN]]
  BY DEF TypeInv, TypeOK
<1>2. /\ setup.interval \in Int /\ setup.delay \in Nat /\ setup.radios \in Nat
      /\ setup.protocol = "slotted" => setup.interval > 0
      /\ setup.protocol # "slotted" => setup.protocol = "simple"
  BY <1>1, SetupFacts
<1>3. /\ Lead \in Vehicle /\ Lead \in OnRoad /\ OnRoad \subseteq Vehicle
      /\ Registered \subseteq OnRoad
  BY <1>1, PlatoonFacts
<1>4. Latest \in Int /\ (setup.interval > 0 => Latest \in Nat /\ setup.interval <= Latest)
  BY <1>1, LatestFacts
<1>5. ASSUME NEW v \in Vehicle
      PROVE  /\ timer[v] \in {NotScheduled} \cup 0..Latest
             /\ timer[v] \in Int /\ (timer[v] # NotScheduled => timer[v] \in Nat)
             /\ timer[v] # NotScheduled \/ seq_n[v] > 0 => setup.interval > 0
             /\ seq_n[v] > 0 => timer[v] <= setup.interval
             /\ slotTime[v] \in Int /\ quiet[v] \in Nat /\ seq_n[v] \in Nat
             /\ seq_n[v] <= MaxBeacons[v] /\ MaxBeacons[v] \in Nat
             /\ slotTime[v] < setup.interval \/ setup.protocol = "simple"
  BY <1>4, BeaconsAssumption DEF TypeInv, TypeOK, NotScheduled
<1>6. \A f \in air : f \in Frame /\ f.src \in Vehicle /\ f.to \in Vehicle
                     /\ f.age \in Nat /\ f.seq \in Nat
  BY DEF TypeInv, TypeOK, Frame
<1>7. QED
  BY <1>1, <1>2, <1>3, <1>4, <1>5, <1>6

(* What a step does not touch keeps its type.                              *)
LEMMA StaysTyped ==
  ASSUME TypeInv, setup' = setup, stray' = stray, slotTime' = slotTime
  PROVE  /\ setup' \in Setups /\ Latest' = Latest /\ Place' = Place /\ Registered' = Registered
         /\ stray' \in [Vehicle -> [leader : Vehicle, front : BOOLEAN]]
         /\ slotTime' \in [Vehicle -> Int]
         /\ \A v \in Vehicle : slotTime'[v] < setup'.interval \/ setup'.protocol = "simple"
         /\ \A v \in Registered' : slotTime'[v] >= 0
         /\ formation' = formation => \A v \in Vehicle : Seated(v)'
<1>1. Latest' = Latest /\ Place' = Place /\ Registered' = Registered
  BY SetupStays
<1>2. formation' = formation => \A v \in Vehicle : Seated(v)'
  BY SeatedKept DEF TypeInv
<1>3. QED
  BY <1>1, <1>2 DEF TypeInv, TypeOK

LEMMA SendType ==
  ASSUME TypeInv, NEW v \in Vehicle, SendBeacon(v)
  PROVE  TypeInv'
<1>1. UNCHANGED <<givenVars, formationVars, knownBeacons, controllerVars>>
  BY DEF SendBeacon
<1>2. UNCHANGED <<setup, stray, slotTime, simulating, formation, before>>
  BY <1>1 DEF givenVars, formationVars
<1>3. /\ timer[v] = 0 /\ seq_n[v] < MaxBeacons[v]
      /\ seq_n' = [seq_n EXCEPT ![v] = @ + 1] /\ quiet' = [quiet EXCEPT ![v] = 0]
      /\ timer' = [timer EXCEPT ![v] = setup.interval]
      /\ air' \subseteq air \cup Copies(v)
  BY DEF SendBeacon, NextBeacon
<1>4. setup.interval > 0
  BY <1>3, TypeFacts DEF NotScheduled
<1>5. air' \subseteq Frame
  <2>1. OnRoad \subseteq Vehicle /\ 1..setup.radios \subseteq Nat /\ seq_n[v] \in Nat
    BY TypeFacts
  <2>2. Copies(v) \subseteq Frame
    BY <2>1 DEF Copies, Frame
  <2>3. QED
    BY <1>3, <2>2 DEF TypeInv, TypeOK
<1>6. /\ seq_n' \in [Vehicle -> Nat] /\ quiet' \in [Vehicle -> Nat]
      /\ \A w \in Vehicle : seq_n'[w] <= MaxBeacons[w]
      /\ timer' \in [Vehicle -> {NotScheduled} \cup 0..Latest]
  <2>1. /\ seq_n[v] + 1 \in Nat /\ seq_n[v] + 1 <= MaxBeacons[v]
        /\ setup.interval \in 0..Latest
    BY <1>3, <1>4, TypeFacts
  <2>2. QED
    BY <1>3, <2>1 DEF TypeInv, TypeOK
<1>7. /\ \A w \in Vehicle : seq_n'[w] > 0 => timer'[w] <= setup.interval
      /\ \A w \in Vehicle : timer'[w] # NotScheduled \/ seq_n'[w] > 0 => setup.interval > 0
  <2>1. timer'[v] = setup.interval
    BY <1>3 DEF TypeInv, TypeOK
  <2>2. \A w \in Vehicle \ {v} : timer'[w] = timer[w] /\ seq_n'[w] = seq_n[w]
    BY <1>3 DEF TypeInv, TypeOK
  <2>3. QED
    BY <1>4, <2>1, <2>2, TypeFacts
<1>8. QED
  BY <1>1, <1>2, <1>5, <1>6, <1>7, StaysTyped DEF TypeInv, TypeOK, controllerVars

LEMMA GrowthType ==
  ASSUME TypeInv, NEW v \in Vehicle, JoinFormation(v) \/ UpdatePlatoonFormation(v)
  PROVE  TypeInv'
<1>1. /\ UNCHANGED <<givenVars, sendVars, air, knownBeacons, controllerVars>>
      /\ before' = [before EXCEPT ![v] = knownBeacons[v]]
      /\ \E k \in 1..(Len(Whole) - 1) :
           /\ formation' = [formation EXCEPT ![v] = FirstOfWhole(k + 1)]
           /\ k + 1 \in Size..Len(Whole) /\ k + 1 > Size
  BY Growth DEF TypeInv, TypeOK
<1>2. UNCHANGED <<setup, stray, slotTime, simulating, timer, seq_n, quiet>>
  BY <1>1 DEF givenVars, sendVars
<1>3. PICK k \in 1..(Len(Whole) - 1) :
        /\ formation' = [formation EXCEPT ![v] = FirstOfWhole(k + 1)]
        /\ k + 1 \in Size..Len(Whole) /\ k + 1 > Size
  BY <1>1
<1>4. k + 1 \in 1..Len(Whole)
  BY <1>3, TypeFacts, PlatoonFacts
<1>5. /\ FirstOfWhole(k + 1) \in Seq(Vehicle)
      /\ formation'[v] = FirstOfWhole(k + 1)
      /\ \A w \in Vehicle \ {v} : formation'[w] = formation[w]
      /\ formation' \in [Vehicle -> Seq(Vehicle)]
  BY <1>3, <1>4, TypeFacts, FirstFacts DEF TypeInv, TypeOK
<1>6. ASSUME NEW w \in Vehicle
      PROVE  Seated(w)'
  <2>1. CASE w = v
    BY <1>2, <1>3, <1>5, <2>1, SetupStays DEF Seated
  <2>2. CASE w # v
    BY <1>2, <1>5, <2>2, SeatedKept DEF TypeInv
  <2>3. QED
    BY <2>1, <2>2
<1>7. before' \in [Vehicle -> [Vehicle -> Nat \cup {Unknown}]]
  BY <1>1 DEF TypeInv, TypeOK
<1>8. QED
  BY <1>1, <1>2, <1>5, <1>6, <1>7, StaysTyped DEF TypeInv, TypeOK, controllerVars

LEMMA ReceiveType ==
  ASSUME TypeInv, NEW f \in air, HandleLowerMsg(f)
  PROVE  TypeInv'
<1>1. /\ UNCHANGED <<givenVars, formationVars, seq_n, quiet>> /\ ~SlotInPast(f)
      /\ air' = air \ {f}
      /\ knownBeacons' = [knownBeacons EXCEPT ![f.to][f.src] = f.seq]
      /\ timer' = [timer EXCEPT ![f.to] = MessageReceived(f.to, f.src)]
      /\ OnPlatoonBeacon(f.to, [src |-> f.src, seq |-> f.seq])
  BY DEF HandleLowerMsg
<1>2. UNCHANGED <<setup, stray, slotTime, simulating, formation, before>>
  BY <1>1 DEF givenVars, formationVars
<1>3. f.to \in Vehicle /\ f.src \in Vehicle /\ f.seq \in Nat
  BY TypeFacts
<1>4. /\ leaderData' \in [Vehicle -> Data] /\ frontData' \in [Vehicle -> Data]
      /\ vehicleData' \in [Vehicle -> [Place -> Data]]
  <2>1. [src |-> f.src, seq |-> f.seq] \in Beacon
    BY <1>3 DEF Beacon
  <2>2. QED
    BY <1>1, <1>3, <2>1, DataType DEF TypeInv
<1>5. knownBeacons' \in [Vehicle -> [Vehicle -> Nat \cup {Unknown}]]
  BY <1>1, <1>3 DEF TypeInv, TypeOK
<1>6. \/ MessageReceived(f.to, f.src) = timer[f.to]
      \/ /\ MessageReceived(f.to, f.src) \in 0..setup.interval
         /\ setup.interval > 0
  BY <1>1, <1>3, TypeFacts DEF MessageReceived, SlotInPast, Synchronises
<1>7. timer' \in [Vehicle -> {NotScheduled} \cup 0..Latest]
  <2>1. MessageReceived(f.to, f.src) \in {NotScheduled} \cup 0..Latest
    BY <1>3, <1>6, TypeFacts
  <2>2. QED
    BY <1>1, <1>3, <2>1 DEF TypeInv, TypeOK
<1>8. ASSUME NEW w \in Vehicle
      PROVE  /\ seq_n'[w] > 0 => timer'[w] <= setup.interval
             /\ timer'[w] # NotScheduled \/ seq_n'[w] > 0 => setup.interval > 0
  <2>1. \/ timer'[w] = timer[w]
        \/ timer'[w] \in 0..setup.interval /\ setup.interval > 0
    BY <1>1, <1>3, <1>6 DEF TypeInv, TypeOK
  <2>2. QED
    BY <1>1, <2>1, TypeFacts
<1>9. air' \subseteq Frame
  BY <1>1 DEF TypeInv, TypeOK
<1>10. QED
  BY <1>1, <1>2, <1>4, <1>5, <1>7, <1>8, <1>9, StaysTyped DEF TypeInv, TypeOK

LEMMA TickType ==
  ASSUME TypeInv, Tick
  PROVE  TypeInv'
<1>1. /\ UNCHANGED <<givenVars, formationVars, seq_n, knownBeacons, controllerVars>>
      /\ timer' = [v \in Vehicle |-> IF timer[v] > 0 THEN timer[v] - 1 ELSE timer[v]]
      /\ air' = {[f EXCEPT !.age = @ + 1] : f \in air}
      /\ quiet' = [v \in Vehicle |-> IF seq_n[v] > 0 /\ quiet[v] < 2 * setup.interval
                                     THEN quiet[v] + 1 ELSE quiet[v]]
  BY DEF Tick
<1>2. UNCHANGED <<setup, stray, slotTime, simulating, formation, before>>
  BY <1>1 DEF givenVars, formationVars
<1>3. ASSUME NEW v \in Vehicle
      PROVE  /\ timer'[v] \in {NotScheduled} \cup 0..Latest
             /\ timer'[v] <= timer[v] /\ timer'[v] \in Int
             /\ timer'[v] # NotScheduled => timer[v] # NotScheduled
             /\ quiet'[v] \in Nat
  <2>1. timer'[v] = IF timer[v] > 0 THEN timer[v] - 1 ELSE timer[v]
    BY <1>1
  <2>2. QED
    BY <1>1, <2>1, TypeFacts DEF NotScheduled
<1>4. /\ timer' \in [Vehicle -> {NotScheduled} \cup 0..Latest]
      /\ quiet' \in [Vehicle -> Nat]
  BY <1>1, <1>3
<1>5. /\ \A v \in Vehicle : seq_n'[v] > 0 => timer'[v] <= setup.interval
      /\ \A v \in Vehicle : timer'[v] # NotScheduled \/ seq_n'[v] > 0 => setup.interval > 0
  BY <1>1, <1>3, TypeFacts
<1>6. air' \subseteq Frame
  <2>1. \A f \in Frame : [f EXCEPT !.age = @ + 1] \in Frame
    BY DEF Frame
  <2>2. QED
    BY <1>1, <2>1 DEF TypeInv, TypeOK
<1>7. QED
  BY <1>1, <1>2, <1>4, <1>5, <1>6, StaysTyped DEF TypeInv, TypeOK, controllerVars

(* A step that leaves timers, beacons, formations and controllers alone.   *)
LEMMA IdleType ==
  ASSUME TypeInv, air' \subseteq air, simulating' \in BOOLEAN,
         UNCHANGED <<setup, stray, slotTime, formationVars, sendVars, knownBeacons,
                     controllerVars>>
  PROVE  TypeInv'
<1>1. UNCHANGED <<setup, stray, slotTime, formation, before, timer, seq_n, quiet>>
  BY DEF formationVars, sendVars
<1>2. QED
  BY <1>1, StaysTyped DEF TypeInv, TypeOK, controllerVars

LEMMA NextType == TypeInv /\ [Next]_vars => TypeInv'
<1> SUFFICES ASSUME TypeInv, [Next]_vars PROVE TypeInv'
  OBVIOUS
<1>1. simulating \in BOOLEAN
  BY DEF TypeInv, TypeOK
<1>2. ASSUME NEW f \in air, DropDuplicate(f) \/ ScheduleInPast(f)
      PROVE  TypeInv'
  BY <1>1, <1>2, IdleType DEF DropDuplicate, ScheduleInPast, givenVars
<1>3. CASE UNCHANGED vars
  BY <1>1, <1>3, IdleType DEF vars, givenVars
<1>4. QED
  BY <1>2, <1>3, SendType, GrowthType, ReceiveType, TickType DEF Next

LEMMA TypeInvariant == Spec => []TypeInv
BY InitType, NextType, PTL DEF Spec

(* The protocols keep their types, whatever the setup.  A vehicle's first  *)
(* beacon is due within an interval and the random time of its protocol,   *)
(* every later one within an interval, and a slot never lies in the past   *)
(* for a vehicle of the registered platoon (SimplePlatooningBeaconing,     *)
(* SlottedBeaconing).                                                      *)
THEOREM TypeCorrect == Spec => []TypeOK
BY TypeInvariant, PTL DEF TypeInv

-----------------------------------------------------------------------------
(* What the controllers hold *)

(* A beacon v holds came from another vehicle and is at most as new as the *)
(* last one v accepted from there.                                         *)
Fresh(v, d) == d # NoBeacon => d \in Beacon /\ d.src # v /\ d.seq <= knownBeacons[v][d.src]

HeldFresh(v) ==
  /\ Fresh(v, leaderData[v]) /\ Fresh(v, frontData[v])
  /\ \A i \in Place : Fresh(v, vehicleData[v][i])

ControllerInv ==
  /\ \A f \in air : f.src # f.to
  /\ \A v \in Vehicle : HeldFresh(v) /\ UsesNewest(v) /\ UsesNoOther(v)

LEMMA InitController == Init => ControllerInv
BY DEF Init, ControllerInv, HeldFresh, UsesNewest, UsesNoOther, Fresh

LEMMA PositionFacts ==
  ASSUME TypeInv, NEW v \in Vehicle, NEW u \in Vehicle
  PROVE  /\ Len(formation[v]) \in 1..Len(Whole) /\ Len(Whole) \in Nat
         /\ formation[v] \in Seq(Vehicle)
         /\ 1..Len(formation[v]) \subseteq Place
         /\ IsInSamePlatoon(v, u) => MemberPosition(v, u) \in 1..Len(formation[v])
         /\ \A i \in 1..Len(formation[v]) :
              formation[v][i] = u <=> IsInSamePlatoon(v, u) /\ MemberPosition(v, u) = i
         /\ LeaderId(v) = u => IsInSamePlatoon(v, u)
         /\ IsFront(v, u) => IsInSamePlatoon(v, u)
         /\ \A w \in Vehicle : IsFront(v, u) /\ IsFront(v, w) => u = w
<1>1. /\ formation[v] \in Seq(Vehicle) /\ Len(formation[v]) \in 1..Len(Whole)
      /\ \A i, j \in 1..Len(formation[v]) : formation[v][i] = formation[v][j] => i = j
  BY TypeFacts, SeatedFacts DEF TypeInv
<1>2. Len(Whole) \in Nat
  BY TypeFacts, SetupFacts
<1>3. 1..Len(formation[v]) \subseteq Place
  BY <1>1, <1>2 DEF Place
<1>4. IsInSamePlatoon(v, u) => /\ MemberPosition(v, u) \in 1..Len(formation[v])
                               /\ formation[v][MemberPosition(v, u)] = u
  BY DEF IsInSamePlatoon, MemberPosition
<1>5. \A i \in 1..Len(formation[v]) :
        formation[v][i] = u <=> IsInSamePlatoon(v, u) /\ MemberPosition(v, u) = i
  BY <1>1, <1>4 DEF IsInSamePlatoon
<1>6. LeaderId(v) = u => IsInSamePlatoon(v, u)
  <2>1. 1 \in 1..Len(formation[v])
    BY <1>1, <1>2
  <2>2. QED
    BY <2>1 DEF LeaderId, IsInSamePlatoon
<1>7. \A i \in 2..Len(formation[v]) :
        i \in 1..Len(formation[v]) /\ i - 1 \in 1..Len(formation[v])
  BY <1>1, <1>2
<1>8. IsFront(v, u) => IsInSamePlatoon(v, u)
  BY <1>6, <1>7 DEF IsFront, IsInSamePlatoon
<1>9. \A w \in Vehicle : IsFront(v, u) /\ IsFront(v, w) => u = w
  BY <1>1, <1>7, SMTT(30) DEF IsFront
<1>10. QED
  BY <1>1, <1>2, <1>3, <1>4, <1>5, <1>6, <1>8, <1>9

(* Where an accepted beacon goes.                                          *)
LEMMA WhereItGoes ==
  ASSUME TypeInv, NEW v \in Vehicle, NEW b \in Beacon, OnPlatoonBeacon(v, b)
  PROVE  /\ leaderData'[v] = IF b.src = LeaderId(v) THEN b ELSE leaderData[v]
         /\ frontData'[v] = IF IsFront(v, b.src) THEN b ELSE frontData[v]
         /\ \A i \in Place : vehicleData'[v][i] =
              IF i \in 1..Len(formation[v]) /\ formation[v][i] = b.src
              THEN b ELSE vehicleData[v][i]
         /\ \A w \in Vehicle \ {v} :
              /\ leaderData'[w] = leaderData[w] /\ frontData'[w] = frontData[w]
              /\ vehicleData'[w] = vehicleData[w]
<1>1. /\ b.src \in Vehicle
      /\ leaderData \in [Vehicle -> Data] /\ frontData \in [Vehicle -> Data]
      /\ vehicleData \in [Vehicle -> [Place -> Data]]
  BY DEF TypeInv, TypeOK, Beacon
<1>2. /\ 1..Len(formation[v]) \subseteq Place
      /\ IsInSamePlatoon(v, b.src) => MemberPosition(v, b.src) \in 1..Len(formation[v])
      /\ \A i \in 1..Len(formation[v]) :
           formation[v][i] = b.src
             <=> IsInSamePlatoon(v, b.src) /\ MemberPosition(v, b.src) = i
      /\ LeaderId(v) = b.src => IsInSamePlatoon(v, b.src)
      /\ IsFront(v, b.src) => IsInSamePlatoon(v, b.src)
  BY <1>1, PositionFacts
<1>3. CASE ~IsInSamePlatoon(v, b.src) /\ UNCHANGED controllerVars
  BY <1>2, <1>3 DEF controllerVars
<1>4. CASE IsInSamePlatoon(v, b.src) /\ PassToController(v, b)
  <2>1. /\ vehicleData' = [vehicleData EXCEPT ![v][MemberPosition(v, b.src)] = b]
        /\ leaderData' = IF b.src = LeaderId(v) THEN [leaderData EXCEPT ![v] = b] ELSE leaderData
        /\ frontData' = IF IsFront(v, b.src) THEN [frontData EXCEPT ![v] = b] ELSE frontData
    BY <1>4 DEF PassToController
  <2>2. MemberPosition(v, b.src) \in Place
    BY <1>2, <1>4
  <2>3. \A i \in Place :
          i \in 1..Len(formation[v]) /\ formation[v][i] = b.src <=> i = MemberPosition(v, b.src)
    BY <1>2, <1>4
  <2>4. \A i \in Place : vehicleData'[v][i] =
          IF i = MemberPosition(v, b.src) THEN b ELSE vehicleData[v][i]
    BY <1>1, <2>1, <2>2
  <2>5. QED
    BY <1>1, <2>1, <2>3, <2>4
<1>5. QED
  BY <1>3, <1>4 DEF OnPlatoonBeacon

(* An accepted beacon is newer than anything held from its sender.         *)
LEMMA AcceptedBeacon ==
  ASSUME TypeInv, ControllerInv, NEW f \in air, HandleLowerMsg(f),
         NEW b, b = [src |-> f.src, seq |-> f.seq]
  PROVE  /\ \A w \in Vehicle : \A d \in Data : Fresh(w, d) => Fresh(w, d)'
         /\ Fresh(f.to, b)' /\ b # NoBeacon
         /\ \A d \in Data : Fresh(f.to, d) => NewerThan(b, d)
<1>1. /\ f.src \in Vehicle /\ f.to \in Vehicle /\ f.seq \in Nat /\ f.src # f.to
      /\ b \in Beacon /\ b.src = f.src /\ b.seq = f.seq
  BY DEF TypeInv, TypeOK, Frame, Beacon, ControllerInv
<1>2. b # NoBeacon
  BY <1>1, NoneAssumption DEF NoBeacon
<1>3. /\ ~(knownBeacons[f.to][f.src] >= f.seq)
      /\ knownBeacons' = [knownBeacons EXCEPT ![f.to][f.src] = f.seq]
      /\ knownBeacons \in [Vehicle -> [Vehicle -> Int]]
  BY DEF HandleLowerMsg, IsDuplicated, TypeInv, TypeOK, Unknown
<1>4. knownBeacons[f.to][f.src] < f.seq /\ knownBeacons'[f.to][f.src] = f.seq
  BY <1>1, <1>3
<1>5. \A w, u \in Vehicle : knownBeacons[w][u] \in Int /\ knownBeacons'[w][u] \in Int
                            /\ knownBeacons[w][u] <= knownBeacons'[w][u]
  BY <1>1, <1>3
<1>6. ASSUME NEW w \in Vehicle, NEW d \in Data, Fresh(w, d)
      PROVE  Fresh(w, d)'
  <2>1. CASE d = NoBeacon
    BY <2>1 DEF Fresh, NoBeacon
  <2>2. CASE d # NoBeacon
    <3>1. d.src \in Vehicle /\ d.seq \in Nat /\ d.seq <= knownBeacons[w][d.src]
      BY <1>6, <2>2 DEF Fresh, Beacon
    <3>2. d.seq <= knownBeacons'[w][d.src]
      BY <1>5, <3>1
    <3>3. QED
      BY <1>6, <2>2, <3>2 DEF Fresh
  <2>3. QED
    BY <2>1, <2>2
<1>7. ASSUME NEW d \in Data, Fresh(f.to, d)
      PROVE  NewerThan(b, d)
  <2>1. CASE d = NoBeacon
    BY <1>1, <2>1, NoneAssumption DEF NewerThan, NoBeacon
  <2>2. CASE d # NoBeacon
    <3>1. d.src \in Vehicle /\ d.seq \in Nat /\ d.seq <= knownBeacons[f.to][d.src]
      BY <1>7, <2>2 DEF Fresh, Beacon
    <3>2. b.src = d.src => b.seq > d.seq
      BY <1>1, <1>3, <1>4, <3>1
    <3>3. QED
      BY <3>2 DEF NewerThan
  <2>3. QED
    BY <2>1, <2>2
<1>8. Fresh(f.to, b)'
  BY <1>1, <1>4 DEF Fresh
<1>9. QED
  BY <1>2, <1>6, <1>7, <1>8

(* A received beacon leaves every controller fresh, right and newer.       *)
LEMMA ReceivingKeeps ==
  ASSUME TypeInv, TypeInv', ControllerInv, NEW f \in air, HandleLowerMsg(f)
  PROVE  ControllerInv' /\ DataGetsNewer
<1> DEFINE b == [src |-> f.src, seq |-> f.seq]
           v == f.to
<1>1. /\ v \in Vehicle /\ b \in Beacon /\ b \in Data /\ OnPlatoonBeacon(v, b)
      /\ setup' = setup /\ stray' = stray /\ formation' = formation /\ before' = before
      /\ air' \subseteq air /\ Place' = Place /\ Registered' = Registered
      /\ b.src \in Vehicle
  BY TypeFacts, SetupStays DEF Beacon, Data, HandleLowerMsg, givenVars, formationVars
<1>2. /\ \A w \in Vehicle : \A d \in Data : Fresh(w, d) => Fresh(w, d)'
      /\ Fresh(v, b)' /\ b # NoBeacon
      /\ \A d \in Data : Fresh(v, d) => NewerThan(b, d)
  BY AcceptedBeacon
<1>3. /\ b = [src |-> b.src, seq |-> knownBeacons'[v][b.src]]
      /\ \A w, u \in Vehicle : w # v \/ u # b.src => knownBeacons'[w][u] = knownBeacons[w][u]
  <2>1. knownBeacons' = [knownBeacons EXCEPT ![v][b.src] = b.seq]
    BY DEF HandleLowerMsg
  <2>2. knownBeacons \in [Vehicle -> [Vehicle -> Nat \cup {Unknown}]]
    BY DEF TypeInv, TypeOK
  <2>3. QED
    BY <1>1, <2>1, <2>2
<1> HIDE DEF b, v
<1>4. /\ leaderData'[v] = IF b.src = LeaderId(v) THEN b ELSE leaderData[v]
      /\ frontData'[v] = IF IsFront(v, b.src) THEN b ELSE frontData[v]
      /\ \A i \in Place : vehicleData'[v][i] =
           IF i \in 1..Len(formation[v]) /\ formation[v][i] = b.src
           THEN b ELSE vehicleData[v][i]
      /\ \A w \in Vehicle \ {v} :
           /\ leaderData'[w] = leaderData[w] /\ frontData'[w] = frontData[w]
           /\ vehicleData'[w] = vehicleData[w]
  BY <1>1, WhereItGoes
<1>5. ASSUME NEW w \in Vehicle
      PROVE  /\ leaderData[w] \in Data /\ frontData[w] \in Data
             /\ \A i \in Place : vehicleData[w][i] \in Data
             /\ HeldFresh(w) /\ UsesNewest(w) /\ UsesNoOther(w)
             /\ Len(formation[w]) \in Nat /\ 1..Len(formation[w]) \subseteq Place
             /\ \A i \in 1..Len(formation[w]) : formation[w][i] \in Vehicle
             /\ LeaderId(w)' = LeaderId(w)
             /\ \A u : IsFront(w, u)' <=> IsFront(w, u)
             /\ \A d : FromStray(w, d)' <=> FromStray(w, d)
  <2>1. /\ leaderData[w] \in Data /\ frontData[w] \in Data
        /\ \A i \in Place : vehicleData[w][i] \in Data
        /\ HeldFresh(w) /\ UsesNewest(w) /\ UsesNoOther(w)
    BY DEF TypeInv, TypeOK, ControllerInv
  <2>2. /\ formation[w] \in Seq(Vehicle) /\ 1..Len(formation[w]) \subseteq Place
    BY PositionFacts
  <2>3. /\ LeaderId(w)' = LeaderId(w)
        /\ \A u : IsFront(w, u)' <=> IsFront(w, u)
        /\ \A d : FromStray(w, d)' <=> FromStray(w, d)
    BY <1>1 DEF LeaderId, IsFront, IsInSamePlatoon, FromStray
  <2>4. Len(formation[w]) \in Nat /\ \A i \in 1..Len(formation[w]) : formation[w][i] \in Vehicle
    BY <2>2
  <2>5. QED
    BY <2>1, <2>2, <2>3, <2>4
<1>6. ASSUME NEW w \in Vehicle
      PROVE  HeldFresh(w)'
  <2>1. Fresh(w, leaderData[w])' /\ Fresh(w, frontData[w])'
    <3>1. CASE w = v
      BY <1>2, <1>4, <1>5, <3>1 DEF HeldFresh, Fresh
    <3>2. CASE w # v
      BY <1>2, <1>4, <1>5, <3>2 DEF HeldFresh, Fresh
    <3>3. QED
      BY <3>1, <3>2
  <2>2. ASSUME NEW i \in Place
        PROVE  Fresh(w, vehicleData[w][i])'
    <3>1. CASE w = v
      BY <1>2, <1>4, <1>5, <3>1 DEF HeldFresh, Fresh
    <3>2. CASE w # v
      BY <1>2, <1>4, <1>5, <3>2 DEF HeldFresh, Fresh
    <3>3. QED
      BY <3>1, <3>2
  <2>3. QED
    BY <1>1, <2>1, <2>2 DEF HeldFresh
<1>7. ASSUME NEW w \in Vehicle
      PROVE  UsesNewest(w)'
  <2> SUFFICES ASSUME NEW i \in 1..Len(formation[w]), NEW u, u = formation[w][i],
                      knownBeacons'[w][u] # before[w][u]
               PROVE  /\ vehicleData'[w][i] = [src |-> u, seq |-> knownBeacons'[w][u]]
                      /\ i = 1 => leaderData'[w] = [src |-> u, seq |-> knownBeacons'[w][u]]
                      /\ IsFront(w, u) => frontData'[w] = [src |-> u, seq |-> knownBeacons'[w][u]]
    BY <1>1, <1>5 DEF UsesNewest, Newest, IsFront, IsInSamePlatoon, LeaderId
  <2>1. u \in Vehicle /\ i \in Place
    BY <1>5
  <2>2. i = 1 => u = LeaderId(w)
    BY DEF LeaderId
  <2>3. CASE w = v /\ u = b.src
    BY <1>3, <1>4, <2>1, <2>2, <2>3
  <2>4. CASE ~(w = v /\ u = b.src)
    <3>1. knownBeacons'[w][u] = knownBeacons[w][u]
      BY <1>3, <2>1, <2>4
    <3>2. /\ vehicleData[w][i] = [src |-> u, seq |-> knownBeacons[w][u]]
          /\ i = 1 => leaderData[w] = [src |-> u, seq |-> knownBeacons[w][u]]
          /\ IsFront(w, u) => frontData[w] = [src |-> u, seq |-> knownBeacons[w][u]]
      BY <1>5, <3>1 DEF UsesNewest, Newest
    <3>3. CASE w # v
      BY <1>4, <2>1, <3>1, <3>2, <3>3
    <3>4. CASE w = v
      <4>1. IsFront(w, u) => ~IsFront(w, b.src)
        BY <1>1, <2>1, <2>4, <3>4, PositionFacts
      <4>2. vehicleData'[w][i] = vehicleData[w][i]
        BY <1>4, <2>1, <2>4, <3>4
      <4>3. i = 1 => leaderData'[w] = leaderData[w]
        BY <1>4, <2>2, <2>4, <3>4
      <4>4. IsFront(w, u) => frontData'[w] = frontData[w]
        BY <1>4, <3>4, <4>1
      <4>5. QED
        BY <3>1, <3>2, <4>2, <4>3, <4>4
    <3>5. QED
      BY <3>3, <3>4
  <2>5. QED
    BY <2>3, <2>4
<1>8. ASSUME NEW w \in Vehicle
      PROVE  UsesNoOther(w)'
  <2>1. CASE w = v
    <3>1. leaderData'[w] # NoBeacon =>
            leaderData'[w].src = LeaderId(w) \/ FromStray(w, leaderData'[w])
      BY <1>4, <1>5, <2>1 DEF UsesNoOther
    <3>2. frontData'[w] # NoBeacon =>
            IsFront(w, frontData'[w].src) \/ FromStray(w, frontData'[w])
      BY <1>4, <1>5, <2>1 DEF UsesNoOther
    <3>3. ASSUME NEW i \in Place, vehicleData'[w][i] # NoBeacon
          PROVE  \/ i <= Len(formation[w]) /\ vehicleData'[w][i].src = formation[w][i]
                 \/ i = 1 /\ FromStray(w, vehicleData'[w][i])
      <4>1. i \in 1..Len(formation[w]) => i <= Len(formation[w])
        BY <1>5
      <4>2. QED
        BY <1>4, <1>5, <2>1, <3>3, <4>1 DEF UsesNoOther
    <3>4. QED
      BY <1>1, <1>5, <3>1, <3>2, <3>3 DEF UsesNoOther, FromStray
  <2>2. CASE w # v
    BY <1>1, <1>4, <1>5, <2>2 DEF UsesNoOther, FromStray
  <2>3. QED
    BY <2>1, <2>2
<1>9. ASSUME NEW w \in Vehicle
      PROVE  /\ NewerThan(leaderData'[w], leaderData[w])
             /\ NewerThan(frontData'[w], frontData[w])
             /\ \A i \in Place : NewerThan(vehicleData'[w][i], vehicleData[w][i])
  <2>1. \A d : NewerThan(d, d)
    BY DEF NewerThan
  <2>2. CASE w = v
    BY <1>2, <1>4, <1>5, <2>1, <2>2 DEF HeldFresh
  <2>3. CASE w # v
    BY <1>4, <2>1, <2>3
  <2>4. QED
    BY <2>2, <2>3
<1>10. QED
  BY <1>1, <1>6, <1>7, <1>8, <1>9 DEF ControllerInv, DataGetsNewer

(* A step that leaves the controllers alone.                               *)
LEMMA IdleKeeps ==
  ASSUME ControllerInv, setup' = setup, stray' = stray, knownBeacons' = knownBeacons,
         UNCHANGED controllerVars
  PROVE  /\ \A v \in Vehicle : HeldFresh(v)'
         /\ \A v \in Vehicle : formation'[v] = formation[v] /\ before'[v] = before[v]
                               => UsesNewest(v)' /\ UsesNoOther(v)'
         /\ DataGetsNewer
<1>1. Place' = Place /\ Registered' = Registered
  BY SetupStays
<1>2. \A v \in Vehicle : HeldFresh(v)'
  BY <1>1 DEF ControllerInv, HeldFresh, Fresh, controllerVars
<1>3. ASSUME NEW v \in Vehicle, formation'[v] = formation[v], before'[v] = before[v]
      PROVE  UsesNewest(v)' /\ UsesNoOther(v)'
  <2>1. /\ LeaderId(v)' = LeaderId(v)
        /\ \A u : (IsFront(v, u)' <=> IsFront(v, u)) /\ Newest(v, u)' = Newest(v, u)
        /\ \A d : FromStray(v, d)' <=> FromStray(v, d)
    BY <1>1, <1>3 DEF LeaderId, IsFront, IsInSamePlatoon, Newest, FromStray
  <2>2. UsesNewest(v)'
    BY <1>3, <2>1 DEF ControllerInv, UsesNewest, controllerVars
  <2>3. UsesNoOther(v)'
    BY <1>1, <1>3, <2>1 DEF ControllerInv, UsesNoOther, controllerVars
  <2>4. QED
    BY <2>2, <2>3
<1>4. DataGetsNewer
  BY DEF DataGetsNewer, NewerThan, controllerVars
<1>5. QED
  BY <1>2, <1>3, <1>4

(* A formation that grows at the back keeps everybody's place, and all that*)
(* a joiner held came from the vehicle its stray formation named.          *)
LEMMA GrowthKeeps ==
  ASSUME TypeInv, TypeInv', ControllerInv, NEW v \in Vehicle,
         JoinFormation(v) \/ UpdatePlatoonFormation(v)
  PROVE  ControllerInv' /\ DataGetsNewer
<1>1. /\ UNCHANGED <<givenVars, sendVars, air, knownBeacons, controllerVars>>
      /\ before' = [before EXCEPT ![v] = knownBeacons[v]]
      /\ \E k \in 1..(Len(Whole) - 1) :
           /\ formation' = [formation EXCEPT ![v] = FirstOfWhole(k + 1)]
           /\ \/ v \notin Registered /\ formation[v] = <<stray[v].leader>>
              \/ formation[v] = FirstOfWhole(k) /\ v \in ToSet(FirstOfWhole(k))
  BY Growth DEF TypeInv, TypeOK
<1>2. UNCHANGED <<setup, stray, air, knownBeacons, controllerVars>>
  BY <1>1 DEF givenVars
<1>3. PICK k \in 1..(Len(Whole) - 1) :
        /\ formation' = [formation EXCEPT ![v] = FirstOfWhole(k + 1)]
        /\ \/ v \notin Registered /\ formation[v] = <<stray[v].leader>>
           \/ formation[v] = FirstOfWhole(k) /\ v \in ToSet(FirstOfWhole(k))
  BY <1>1
<1>4. /\ formation'[v] = FirstOfWhole(k + 1) /\ before'[v] = knownBeacons[v]
      /\ \A w \in Vehicle \ {v} : formation'[w] = formation[w] /\ before'[w] = before[w]
  BY <1>1, <1>3 DEF TypeInv, TypeOK
<1>5. UsesNewest(v)'
  BY <1>2, <1>4 DEF UsesNewest
<1>6. Place' = Place /\ Registered' = Registered
      /\ \A d : FromStray(v, d)' <=> FromStray(v, d)
  BY <1>2, SetupStays DEF FromStray
<1>7. k \in 1..Len(Whole) /\ k + 1 \in 1..Len(Whole) /\ Len(Whole) \in Nat
      /\ \A i \in Place : i \in Nat \ {0}
  BY <1>3, TypeFacts, SetupFacts DEF Place
<1>8. UsesNoOther(v) /\ v \in Vehicle
  BY DEF ControllerInv
<1>9. ASSUME v \notin Registered, formation[v] = <<stray[v].leader>>
      PROVE  UsesNoOther(v)'
  <2>1. LeaderId(v) = stray[v].leader /\ Len(formation[v]) = 1
    BY <1>9 DEF LeaderId
  <2>2. \A u : IsFront(v, u) => u = stray[v].leader
    BY <2>1 DEF IsFront
  <2>3. leaderData[v] # NoBeacon => FromStray(v, leaderData[v])
    BY <1>8, <1>9, <2>1 DEF UsesNoOther, FromStray
  <2>4. frontData[v] # NoBeacon => FromStray(v, frontData[v])
    BY <1>8, <1>9, <2>2 DEF UsesNoOther, FromStray
  <2>5. ASSUME NEW i \in Place, vehicleData[v][i] # NoBeacon
        PROVE  i = 1 /\ FromStray(v, vehicleData[v][i])
    <3>1. i = 1
      BY <1>7, <1>8, <2>1, <2>5 DEF UsesNoOther
    <3>2. QED
      BY <1>8, <1>9, <2>5, <3>1 DEF UsesNoOther, FromStray
  <2>6. QED
    BY <1>2, <1>6, <2>3, <2>4, <2>5 DEF UsesNoOther, controllerVars
<1>10. ASSUME formation[v] = FirstOfWhole(k), v \in ToSet(FirstOfWhole(k))
       PROVE  UsesNoOther(v)'
  <2>1. /\ Len(formation[v]) = k /\ Len(formation'[v]) = k + 1
        /\ \A i \in 1..k : formation'[v][i] = formation[v][i]
        /\ formation[v] \in Seq(Vehicle)
    BY <1>4, <1>7, <1>10, TypeFacts, FirstFacts
  <2>2. LeaderId(v)' = LeaderId(v)
    BY <1>7, <2>1 DEF LeaderId
  <2>3. IsInSamePlatoon(v, v)
    BY <1>10, <2>1 DEF ToSet, IsInSamePlatoon
  <2>4. IsInSamePlatoon(v, v)'
    <3>1. PICK i \in 1..k : formation[v][i] = v
      BY <2>1, <2>3 DEF IsInSamePlatoon
    <3>2. i \in 1..(k + 1)
      BY <1>7
    <3>3. QED
      BY <2>1, <3>1, <3>2 DEF IsInSamePlatoon
  <2>5. ASSUME NEW u, IsFront(v, u)
        PROVE  IsFront(v, u)'
    <3>1. PICK i \in 2..k : formation[v][i] = v /\ formation[v][i - 1] = u
      BY <2>1, <2>3, <2>5 DEF IsFront
    <3>2. i \in 2..(k + 1) /\ i \in 1..k /\ i - 1 \in 1..k
      BY <1>7, <3>1
    <3>3. QED
      BY <2>1, <2>4, <3>1, <3>2 DEF IsFront
  <2>6. \A i \in Place : i <= k => i \in 1..k /\ i <= k + 1
    BY <1>7
  <2>7. leaderData'[v] # NoBeacon =>
          leaderData'[v].src = LeaderId(v)' \/ FromStray(v, leaderData[v])
    BY <1>2, <1>8, <2>2 DEF UsesNoOther, controllerVars
  <2>8. frontData'[v] # NoBeacon =>
          IsFront(v, frontData[v].src)' \/ FromStray(v, frontData[v])
    BY <1>2, <1>8, <2>5 DEF UsesNoOther, controllerVars
  <2>9. \A i \in Place : vehicleData'[v][i] # NoBeacon =>
          \/ i <= Len(formation'[v]) /\ vehicleData'[v][i].src = formation'[v][i]
          \/ i = 1 /\ FromStray(v, vehicleData[v][i])
    BY <1>2, <1>8, <2>1, <2>6 DEF UsesNoOther, controllerVars
  <2>10. QED
    BY <1>2, <1>6, <2>7, <2>8, <2>9 DEF UsesNoOther, controllerVars
<1>11. UsesNoOther(v)'
  BY <1>3, <1>9, <1>10
<1>12. QED
  BY <1>2, <1>4, <1>5, <1>11, IdleKeeps DEF ControllerInv

LEMMA NextController ==
  ASSUME TypeInv, TypeInv', ControllerInv, [Next]_vars
  PROVE  ControllerInv' /\ DataGetsNewer
<1>1. ASSUME NEW v \in Vehicle, SendBeacon(v)
      PROVE  ControllerInv' /\ DataGetsNewer
  <2>1. \A f \in Copies(v) : f.src # f.to
    BY DEF Copies
  <2>2. \A f \in air' : f.src # f.to
    BY <1>1, <2>1 DEF SendBeacon, ControllerInv
  <2>3. QED
    BY <1>1, <2>2, IdleKeeps DEF SendBeacon, ControllerInv, givenVars, formationVars
<1>2. ASSUME NEW f \in air, DropDuplicate(f) \/ ScheduleInPast(f)
      PROVE  ControllerInv' /\ DataGetsNewer
  BY <1>2, IdleKeeps
  DEF DropDuplicate, ScheduleInPast, ControllerInv, givenVars, formationVars
<1>3. CASE Tick
  <2>1. ASSUME NEW g \in air'
        PROVE  g.src # g.to
    <3>1. PICK f \in air : g = [f EXCEPT !.age = @ + 1]
      BY <1>3, <2>1 DEF Tick
    <3>2. g.src = f.src /\ g.to = f.to
      BY <3>1 DEF TypeInv, TypeOK, Frame
    <3>3. QED
      BY <3>2 DEF ControllerInv
  <2>2. QED
    BY <1>3, <2>1, IdleKeeps DEF Tick, ControllerInv, givenVars, formationVars
<1>4. CASE UNCHANGED vars
  BY <1>4, IdleKeeps DEF vars, ControllerInv, givenVars, formationVars
<1>5. QED
  BY <1>1, <1>2, <1>3, <1>4, GrowthKeeps, ReceivingKeeps DEF Next

(* Leader data, front data and the data of every position are the newest   *)
(* accepted from the vehicle the formation has there, once one has come    *)
(* since the formation last changed; and nothing else is used but what an  *)
(* unregistered vehicle kept from its stray formation, whatever that named *)
(* and however the platoon grows (BaseApp::onPlatoonBeacon).               *)
THEOREM DataComesFromItsVehicle == Spec => []ControllerSource
<1>1. TypeInv /\ TypeInv' /\ ControllerInv /\ [Next]_vars => ControllerInv'
  BY NextController
<1>2. ControllerInv => ControllerSource
  BY DEF ControllerInv, ControllerSource
<1>3. QED
  BY <1>1, <1>2, InitController, TypeInvariant, PTL DEF Spec

(* No controller goes back to an older beacon of the same vehicle, however *)
(* copies are lost, duplicated and reordered (BaseProtocol::isDuplicated). *)
THEOREM DataOnlyGetsNewer == Spec => DataNeverGoesBack
<1>1. TypeInv /\ TypeInv' /\ ControllerInv /\ [Next]_vars => ControllerInv' /\ [DataGetsNewer]_vars
  BY NextController
<1>2. QED
  BY <1>1, InitController, TypeInvariant, PTL DEF Spec, DataNeverGoesBack

-----------------------------------------------------------------------------
(* When beacons are sent *)

(* Who never waits for a slot, once it has sent, sends at least once an    *)
(* interval.                                                               *)
Free(v)   == setup.protocol = "simple" \/ v = Lead \/ v \notin Registered
Steady(v) ==
  /\ seq_n[v] = 0 => quiet[v] = 0
  /\ seq_n[v] > 0 => timer[v] # NotScheduled /\ quiet[v] + timer[v] <= setup.interval

(* Ticks since the leader's last beacon, negative while the first one is   *)
(* more than an interval ahead; a delay shorter than a slot.               *)
Elapsed    == setup.interval - timer[Lead]
ShortDelay == setup.delay < setup.interval \div Size

(* The vehicles that wait for their slot.                                  *)
Waiting == Registered \ {Lead}

(* A timer t, e ticks after the leader's beacon, of a vehicle silent for q *)
(* ticks with slot s: it has not sent since that beacon, or it has.        *)
InSlot(t, e, q, s, I, D) ==
  \/ s <= t + e /\ t + e <= s + D /\ q <= e + I - s
  \/ s + I <= t + e /\ t + e <= s + I + D /\ q <= e - s

Slotted(v) ==
  \/ timer[v] = NotScheduled /\ seq_n[v] = 0 /\ quiet[v] = 0
  \/ /\ timer[v] # NotScheduled /\ Elapsed >= 0
     /\ InSlot(timer[v], Elapsed, quiet[v], slotTime[v], setup.interval, setup.delay)

LeadAir ==
  \A f \in air : f.src = Lead => f.age = Elapsed /\ f.age <= setup.delay

JustSent(v) == seq_n[v] > 0 /\ quiet[v] = 0 => timer[v] = setup.interval

Phases == setup.protocol = "slotted" /\ ShortDelay =>
  /\ \A v \in Waiting : Slotted(v)
  /\ LeadAir
  /\ \A v \in Registered : JustSent(v)

BeatInv ==
  /\ SlotsGiven
  /\ \A v \in OnRoad : Free(v) => Steady(v)
  /\ Phases
  /\ BeaconsGoOn

LEMMA BeatStays ==
  ASSUME setup' = setup, stray' = stray
  PROVE  /\ Waiting' = Waiting /\ (ShortDelay' <=> ShortDelay)
         /\ \A v : Free(v)' <=> Free(v)
BY SetupStays DEF Waiting, ShortDelay, Free

LEMMA SlotsKept ==
  ASSUME setup' = setup, stray' = stray, slotTime' = slotTime, SlotsGiven
  PROVE  SlotsGiven'
BY SetupStays DEF SlotsGiven

-----------------------------------------------------------------------------
(* Where a timer with a slot is when its vehicle or the leader has sent    *)

LEMMA InSlotSend ==
  ASSUME NEW e \in Int, NEW q \in Int, NEW s \in Int, NEW I \in Int, NEW D \in Nat,
         InSlot(0, e, q, s, I, D), D < s, e <= I
  PROVE  InSlot(I, e, 0, s, I, D)
BY DEF InSlot

LEMMA InSlotRound ==
  ASSUME NEW t \in Nat, NEW q \in Int, NEW s \in Int, NEW I \in Int, NEW D \in Int,
         InSlot(t, I, q, s, I, D), s + D < I
  PROVE  InSlot(t, 0, q, s, I, D)
BY DEF InSlot

(* The vehicles with a slot, and how it relates to interval and delay.     *)
LEMMA SlotFacts ==
  ASSUME TypeInv, SlotsGiven, setup.protocol = "slotted", NEW v \in Waiting
  PROVE  /\ v \in Vehicle /\ v \in OnRoad /\ v # Lead /\ slotTime[v] \in Nat
         /\ \E i \in 2..Size : v = Whole[i] /\ slotTime[v] = SlotOf(i)
         /\ ShortDelay => /\ setup.delay < slotTime[v]
                          /\ slotTime[v] + setup.delay < setup.interval
<1>1. setup \in Setups /\ setup.interval \in Nat /\ setup.delay \in Nat /\ setup.interval > 0
  BY TypeFacts
<1>2. PICK i \in 1..Size : v = Whole[i]
  BY <1>1, PlatoonFacts DEF Waiting
<1>3. Size \in Nat \ {0} /\ i # 1 /\ i \in 2..Size
  BY <1>1, <1>2, PlatoonFacts DEF Waiting, Lead
<1>4. v \in Vehicle /\ v \in OnRoad /\ v # Lead
  BY <1>1, PlatoonFacts DEF Waiting
<1>5. slotTime[v] = SlotOf(i)
  BY <1>2 DEF SlotsGiven
<1>6. /\ setup.interval \div Size \in Nat /\ SlotOf(i) \in Nat
      /\ SlotOf(i) + setup.interval \div Size <= setup.interval
      /\ setup.interval \div Size <= SlotOf(i)
  BY <1>1, <1>3, SlotOrder
<1>7. ShortDelay => /\ setup.delay < slotTime[v]
                   /\ slotTime[v] + setup.delay < setup.interval
  BY <1>1, <1>5, <1>6 DEF ShortDelay
<1>8. QED
  BY <1>2, <1>3, <1>4, <1>5, <1>6, <1>7

LEMMA DelayWithinInterval ==
  ASSUME TypeInv, setup.protocol = "slotted", ShortDelay
  PROVE  setup.delay < setup.interval
<1>1. setup \in Setups /\ setup.interval \in Nat /\ setup.delay \in Nat /\ setup.interval > 0
  BY TypeFacts
<1>2. 1 \in 1..Size
  BY <1>1, PlatoonFacts
<1>3. /\ setup.interval \div Size \in Nat /\ SlotOf(1) \in Nat
      /\ SlotOf(1) + setup.interval \div Size <= setup.interval
  BY <1>1, <1>2, SlotOrder
<1>4. QED
  BY <1>1, <1>3 DEF ShortDelay

(* With slots the leader always has its next beacon scheduled.             *)
LEMMA LeadSteady ==
  ASSUME TypeInv, BeatInv, setup.protocol = "slotted"
  PROVE  timer[Lead] \in Nat /\ Elapsed \in Int /\ Elapsed <= setup.interval
<1>1. setup \in Setups /\ Lead \in OnRoad /\ Lead \in Registered /\ setup.platoon[1] = Lead
  BY TypeFacts, PlatoonFacts
<1>2. StartsAlone(Lead)
  BY <1>1 DEF StartsAlone, FirstFormation
<1>3. timer[Lead] # NotScheduled
  BY <1>1, <1>2 DEF BeatInv, BeaconsGoOn
<1>4. QED
  BY <1>3, TypeFacts DEF Elapsed

(* Beacons that go on need a timer, and a formation that stays.            *)
LEMMA GoingOn ==
  ASSUME BeaconsGoOn, setup' = setup, stray' = stray, formation' = formation, before' = before,
         \A v \in OnRoad : timer[v] # NotScheduled => timer'[v] # NotScheduled,
         \A v \in OnRoad : seq_n'[v] = seq_n[v] \/ timer'[v] # NotScheduled,
         \A v \in OnRoad : knownBeacons'[v][LeaderId(v)] = knownBeacons[v][LeaderId(v)]
                           \/ setup.protocol # "slotted" \/ IsLast(v)
                           \/ timer'[v] # NotScheduled
  PROVE  BeaconsGoOn'
<1>1. OnRoad' = OnRoad /\ \A v : StartsAlone(v)' <=> StartsAlone(v)
  BY SetupStays
<1>2. ASSUME NEW v \in OnRoad,
             \/ StartsAlone(v)
             \/ seq_n'[v] > 0
             \/ setup.protocol = "slotted" /\ ~IsLast(v)
                /\ knownBeacons'[v][LeaderId(v)] # before[v][LeaderId(v)]
      PROVE  timer'[v] # NotScheduled
  BY <1>2 DEF BeaconsGoOn, HeardLeader
<1>3. QED
  BY <1>1, <1>2 DEF BeaconsGoOn, HeardLeader, LeaderId, IsLast

-----------------------------------------------------------------------------
(* Sending *)

LEMMA SendKeepsBeat ==
  ASSUME TypeInv, BeatInv, NEW v \in Vehicle, SendBeacon(v)
  PROVE  BeatInv'
<1>1. /\ setup' = setup /\ stray' = stray /\ formation' = formation /\ slotTime' = slotTime
      /\ knownBeacons' = knownBeacons /\ before' = before
      /\ v \in OnRoad /\ timer[v] = 0
      /\ timer' = [timer EXCEPT ![v] = setup.interval]
      /\ quiet' = [quiet EXCEPT ![v] = 0] /\ seq_n' = [seq_n EXCEPT ![v] = @ + 1]
      /\ \A f \in air' : f \in air \/ (f.src = v /\ f.age = 0)
  BY DEF SendBeacon, NextBeacon, Copies, givenVars, formationVars
<1>2. setup.interval > 0 /\ setup.interval \in Int /\ NotScheduled = -1 /\ seq_n[v] \in Nat
  BY <1>1, TypeFacts DEF NotScheduled
<1>3. /\ timer'[v] = setup.interval /\ quiet'[v] = 0 /\ seq_n'[v] = seq_n[v] + 1
      /\ \A w \in Vehicle \ {v} :
           timer'[w] = timer[w] /\ quiet'[w] = quiet[w] /\ seq_n'[w] = seq_n[w]
  BY <1>1 DEF TypeInv, TypeOK
<1>4. SlotsGiven'
  BY <1>1, SlotsKept DEF BeatInv
<1>5. \A w \in Vehicle : w = v \/ Steady(w) => Steady(w)'
  BY <1>1, <1>2, <1>3 DEF Steady
<1>6. ASSUME setup.protocol = "slotted", ShortDelay
      PROVE  /\ \A w \in Waiting : Slotted(w)'
             /\ LeadAir'
             /\ \A w \in Registered : JustSent(w)'
  <2>1. /\ \A w \in Waiting : Slotted(w)
        /\ LeadAir
        /\ \A w \in Registered : JustSent(w)
        /\ SlotsGiven
    BY <1>6 DEF BeatInv, Phases
  <2>2. ASSUME NEW w \in Registered PROVE JustSent(w)'
    <3>1. w \in Vehicle
      BY TypeFacts
    <3>2. QED
      BY <1>1, <1>3, <2>1, <3>1 DEF JustSent
  <2>3. CASE v = Lead
    <3>1. Elapsed = setup.interval /\ Elapsed' = 0
      BY <1>1, <1>2, <1>3, <2>3, SetupStays DEF Elapsed
    <3>2. \A f \in air : f.src # Lead
      BY <1>6, <2>1, <3>1, DelayWithinInterval, TypeFacts DEF LeadAir
    <3>3. LeadAir'
      BY <1>1, <2>3, <3>1, <3>2, SetupStays, TypeFacts DEF LeadAir
    <3>4. ASSUME NEW w \in Waiting PROVE Slotted(w)'
      <4>1. /\ w \in Vehicle /\ w # v /\ slotTime[w] \in Nat
            /\ slotTime[w] + setup.delay < setup.interval
        BY <1>6, <2>1, <2>3, SlotFacts
      <4>2. /\ timer'[w] = timer[w] /\ quiet'[w] = quiet[w] /\ seq_n'[w] = seq_n[w]
            /\ slotTime'[w] = slotTime[w]
        BY <1>1, <1>3, <4>1
      <4>3. Slotted(w)
        BY <2>1
      <4>4. CASE timer[w] = NotScheduled
        BY <4>2, <4>3, <4>4 DEF Slotted
      <4>5. CASE timer[w] # NotScheduled
        <5>1. timer[w] \in Nat /\ quiet[w] \in Int /\ setup.interval \in Int /\ setup.delay \in Int
          BY <4>1, <4>5, TypeFacts
        <5>2. InSlot(timer[w], setup.interval, quiet[w], slotTime[w], setup.interval, setup.delay)
          BY <3>1, <4>3, <4>5 DEF Slotted
        <5>3. InSlot(timer[w], 0, quiet[w], slotTime[w], setup.interval, setup.delay)
          BY <4>1, <5>1, <5>2, InSlotRound
        <5>4. QED
          BY <1>1, <3>1, <4>2, <4>5, <5>3 DEF Slotted
      <4>6. QED
        BY <4>4, <4>5
    <3>5. QED
      BY <2>2, <3>3, <3>4
  <2>4. CASE v # Lead
    <3>1. Elapsed' = Elapsed /\ Elapsed \in Int /\ Elapsed <= setup.interval
      BY <1>1, <1>3, <1>6, <2>4, SetupStays, LeadSteady, TypeFacts DEF Elapsed
    <3>2. LeadAir'
      BY <1>1, <2>1, <2>4, <3>1, SetupStays DEF LeadAir
    <3>3. ASSUME NEW w \in Waiting PROVE Slotted(w)'
      <4>1. w \in Vehicle /\ slotTime[w] \in Nat /\ setup.delay < slotTime[w]
        BY <1>6, <2>1, SlotFacts
      <4>2. slotTime'[w] = slotTime[w]
        BY <1>1
      <4>3. Slotted(w)
        BY <2>1
      <4>4. CASE w # v
        BY <1>1, <1>3, <3>1, <4>1, <4>2, <4>3, <4>4 DEF Slotted
      <4>5. CASE w = v
        <5>1. /\ Elapsed >= 0
              /\ InSlot(0, Elapsed, quiet[w], slotTime[w], setup.interval, setup.delay)
          BY <1>1, <1>2, <4>3, <4>5 DEF Slotted
        <5>2. quiet[w] \in Int /\ setup.interval \in Int /\ setup.delay \in Nat
          BY <4>1, TypeFacts
        <5>3. InSlot(setup.interval, Elapsed, 0, slotTime[w], setup.interval, setup.delay)
          BY <3>1, <4>1, <5>1, <5>2, InSlotSend, SMTT(30)
        <5>4. timer'[w] = setup.interval /\ timer'[w] # NotScheduled /\ quiet'[w] = 0
          BY <1>2, <1>3, <4>5
        <5>5. QED
          BY <1>1, <3>1, <4>2, <5>1, <5>3, <5>4 DEF Slotted
      <4>6. QED
        BY <4>4, <4>5
    <3>4. QED
      BY <2>2, <3>2, <3>3
  <2>5. QED
    BY <2>3, <2>4
<1>7. Phases'
  BY <1>1, <1>6, SetupStays, BeatStays DEF Phases
<1>8. BeaconsGoOn'
  <2>1. \A w \in OnRoad : /\ timer[w] # NotScheduled => timer'[w] # NotScheduled
                          /\ seq_n'[w] = seq_n[w] \/ timer'[w] # NotScheduled
    BY <1>2, <1>3, TypeFacts
  <2>2. QED
    BY <1>1, <2>1, GoingOn DEF BeatInv
<1>9. \A w \in OnRoad' : Free(w)' => Steady(w)'
  BY <1>1, <1>5, TypeFacts, SetupStays, BeatStays DEF BeatInv
<1>10. QED
  BY <1>4, <1>7, <1>8, <1>9 DEF BeatInv

-----------------------------------------------------------------------------
(* Time passes *)

LEMMA TickKeepsBeat ==
  ASSUME TypeInv, BeatInv, Tick
  PROVE  BeatInv'
<1>1. /\ setup' = setup /\ stray' = stray /\ formation' = formation /\ slotTime' = slotTime
      /\ knownBeacons' = knownBeacons /\ before' = before /\ seq_n' = seq_n
      /\ \A v \in OnRoad : timer[v] # 0
      /\ \A f \in air : ~(f.age >= setup.delay)
      /\ timer' = [v \in Vehicle |-> IF timer[v] > 0 THEN timer[v] - 1 ELSE timer[v]]
      /\ air' = {[f EXCEPT !.age = @ + 1] : f \in air}
      /\ quiet' = [v \in Vehicle |-> IF seq_n[v] > 0 /\ quiet[v] < 2 * setup.interval
                                     THEN quiet[v] + 1 ELSE quiet[v]]
  BY DEF Tick, Urgent, givenVars, formationVars
<1>2. ASSUME NEW v \in OnRoad
      PROVE  /\ v \in Vehicle
             /\ timer[v] = NotScheduled => timer'[v] = NotScheduled
             /\ timer[v] # NotScheduled =>
                  timer[v] > 0 /\ timer'[v] = timer[v] - 1 /\ timer'[v] # NotScheduled
             /\ quiet'[v] \in {quiet[v], quiet[v] + 1}
             /\ seq_n[v] > 0 /\ quiet[v] = 0 => quiet'[v] = 1
             /\ seq_n[v] = 0 => quiet'[v] = quiet[v]
  <2>1. /\ v \in Vehicle /\ timer[v] \in Int /\ timer[v] # 0
        /\ timer[v] # NotScheduled => timer[v] \in Nat
        /\ quiet[v] \in Nat /\ seq_n[v] \in Nat /\ setup.interval \in Int
        /\ seq_n[v] > 0 => setup.interval > 0
    BY <1>1, TypeFacts
  <2>2. /\ timer'[v] = IF timer[v] > 0 THEN timer[v] - 1 ELSE timer[v]
        /\ quiet'[v] = IF seq_n[v] > 0 /\ quiet[v] < 2 * setup.interval
                       THEN quiet[v] + 1 ELSE quiet[v]
    BY <1>1, <2>1
  <2>3. QED
    BY <2>1, <2>2 DEF NotScheduled
<1>3. SlotsGiven'
  BY <1>1, SlotsKept DEF BeatInv
<1>4. ASSUME setup.protocol = "slotted"
      PROVE  Elapsed' = Elapsed + 1 /\ Elapsed \in Int
  <2>1. timer[Lead] \in Nat /\ Elapsed \in Int /\ Lead \in OnRoad
    BY <1>4, LeadSteady, TypeFacts
  <2>2. timer'[Lead] = timer[Lead] - 1
    BY <1>2, <2>1 DEF NotScheduled
  <2>3. setup.interval \in Int
    BY TypeFacts
  <2>4. QED
    BY <1>1, <2>1, <2>2, <2>3, SetupStays DEF Elapsed
<1>5. \A v \in OnRoad : Steady(v) => Steady(v)'
  <2> SUFFICES ASSUME NEW v \in OnRoad, Steady(v) PROVE Steady(v)'
    OBVIOUS
  <2>1. CASE seq_n[v] = 0
    BY <1>1, <1>2, <2>1, TypeFacts DEF Steady
  <2>2. CASE seq_n[v] # 0
    <3>1. seq_n[v] > 0
      BY <1>2, <2>2, TypeFacts
    <3>2. /\ timer'[v] = timer[v] - 1 /\ timer'[v] # NotScheduled
          /\ quiet'[v] \in {quiet[v], quiet[v] + 1}
          /\ timer[v] \in Int /\ quiet[v] \in Int /\ setup.interval \in Int
          /\ quiet[v] + timer[v] <= setup.interval
      BY <1>2, <3>1, TypeFacts DEF Steady
    <3>3. quiet'[v] + timer'[v] <= setup.interval
      BY <3>2
    <3>4. QED
      BY <1>1, <2>2, <3>2, <3>3 DEF Steady
  <2>3. QED
    BY <2>1, <2>2
<1>6. ASSUME setup.protocol = "slotted", ShortDelay
      PROVE  /\ \A w \in Waiting : Slotted(w)'
             /\ LeadAir'
             /\ \A w \in Registered : JustSent(w)'
  <2>1. /\ \A w \in Waiting : Slotted(w)
        /\ LeadAir
        /\ \A w \in Registered : JustSent(w)
        /\ SlotsGiven
    BY <1>6 DEF BeatInv, Phases
  <2>2. ASSUME NEW w \in Registered PROVE JustSent(w)'
    <3>1. w \in OnRoad /\ w \in Vehicle
      BY TypeFacts
    <3>2. quiet[w] \in Nat /\ quiet'[w] \in {quiet[w], quiet[w] + 1}
      BY <1>2, <3>1, TypeFacts
    <3>3. seq_n[w] > 0 => quiet'[w] # 0
      BY <1>2, <3>1, <3>2
    <3>4. QED
      BY <1>1, <3>3 DEF JustSent
  <2>3. ASSUME NEW g \in air', g.src = Lead
        PROVE  g.age = Elapsed' /\ g.age <= setup.delay
    <3>1. PICK f \in air : g = [f EXCEPT !.age = @ + 1]
      BY <1>1, <2>3
    <3>2. g.src = f.src /\ g.age = f.age + 1 /\ f.age \in Nat
      BY <3>1 DEF TypeInv, TypeOK, Frame
    <3>3. f.age = Elapsed /\ ~(f.age >= setup.delay) /\ setup.delay \in Nat
      BY <1>1, <2>1, <2>3, <3>2, TypeFacts DEF LeadAir
    <3>4. QED
      BY <1>4, <1>6, <3>2, <3>3
  <2>4. LeadAir'
    BY <1>1, <2>3, SetupStays DEF LeadAir
  <2>5. ASSUME NEW w \in Waiting PROVE Slotted(w)'
    <3>1. /\ w \in OnRoad /\ w \in Vehicle /\ slotTime'[w] = slotTime[w] /\ Slotted(w)
          /\ slotTime[w] \in Nat
      BY <1>1, <1>6, <2>1, SlotFacts
    <3>2. CASE timer[w] = NotScheduled
      BY <1>1, <1>2, <3>1, <3>2 DEF Slotted
    <3>3. CASE timer[w] # NotScheduled
      <4>1. /\ timer[w] > 0 /\ timer'[w] = timer[w] - 1 /\ timer[w] \in Int
            /\ timer'[w] # NotScheduled
            /\ quiet[w] \in Int /\ quiet'[w] \in Int /\ quiet'[w] <= quiet[w] + 1
            /\ slotTime[w] \in Int /\ setup.interval \in Int /\ setup.delay \in Int
        BY <1>2, <3>1, <3>3, TypeFacts
      <4>2. /\ Elapsed >= 0
            /\ InSlot(timer[w], Elapsed, quiet[w], slotTime[w], setup.interval, setup.delay)
        BY <3>1, <3>3 DEF Slotted
      <4>3. InSlot(timer[w] - 1, Elapsed + 1, quiet'[w], slotTime[w],
                   setup.interval, setup.delay)
        BY <1>4, <1>6, <4>1, <4>2 DEF InSlot
      <4>4. Elapsed' = Elapsed + 1 /\ Elapsed' >= 0
        BY <1>4, <1>6, <4>2
      <4>5. QED
        BY <1>1, <3>1, <4>1, <4>3, <4>4 DEF Slotted
    <3>4. QED
      BY <3>2, <3>3
  <2>6. QED
    BY <2>2, <2>4, <2>5
<1>7. Phases'
  BY <1>1, <1>6, SetupStays, BeatStays DEF Phases
<1>8. BeaconsGoOn'
  BY <1>1, <1>2, GoingOn DEF BeatInv
<1>9. \A w \in OnRoad' : Free(w)' => Steady(w)'
  BY <1>1, <1>5, SetupStays, BeatStays DEF BeatInv
<1>10. QED
  BY <1>3, <1>7, <1>8, <1>9 DEF BeatInv

-----------------------------------------------------------------------------
(* A beacon arrives *)

LEMMA ReceiveKeepsBeat ==
  ASSUME TypeInv, ControllerInv, BeatInv, NEW f \in air, HandleLowerMsg(f)
  PROVE  BeatInv'
<1> DEFINE v == f.to
           u == f.src
<1>1. /\ setup' = setup /\ stray' = stray /\ formation' = formation /\ slotTime' = slotTime
      /\ before' = before /\ seq_n' = seq_n /\ quiet' = quiet /\ air' = air \ {f}
      /\ timer' = [timer EXCEPT ![v] = MessageReceived(v, u)]
      /\ knownBeacons' = [knownBeacons EXCEPT ![v][u] = f.seq]
      /\ ~(Synchronises(v, u) /\ slotTime[v] < 0)
  BY DEF HandleLowerMsg, SlotInPast, givenVars, formationVars
<1>2. v \in Vehicle /\ u \in Vehicle /\ v # u /\ f.age \in Nat
  BY TypeFacts DEF ControllerInv
<1> HIDE DEF v, u
<1>3. /\ \A w \in Vehicle \ {v} : timer'[w] = timer[w]
      /\ (timer'[v] = timer[v] \/ (timer'[v] = slotTime[v] /\ Synchronises(v, u)))
      /\ (Synchronises(v, u) => timer'[v] = slotTime[v] /\ slotTime[v] >= 0)
  BY <1>1, <1>2, TypeFacts DEF TypeInv, TypeOK, MessageReceived
<1>4. SlotsGiven'
  BY <1>1, SlotsKept DEF BeatInv
<1>5. /\ timer'[Lead] = timer[Lead]
      /\ v \in Registered /\ timer'[v] # timer[v] => u = Lead
  <2>1. v \in Registered => LeaderId(v) = Lead
    BY <1>2, TypeFacts, SeatedFacts DEF TypeInv
  <2>2. Lead \in Registered /\ Lead \in Vehicle
    BY TypeFacts, PlatoonFacts
  <2>3. QED
    BY <1>2, <1>3, <2>1, <2>2 DEF Synchronises
<1>6. Elapsed' = Elapsed
  BY <1>1, <1>5, SetupStays DEF Elapsed
<1>7. ASSUME NEW w \in OnRoad, Free(w)
      PROVE  Steady(w)'
  <2>1. Steady(w) /\ w \in Vehicle
    BY <1>7, TypeFacts DEF BeatInv
  <2>2. CASE timer'[w] = timer[w]
    BY <1>1, <2>1, <2>2 DEF Steady
  <2>3. CASE timer'[w] # timer[w]
    <3>1. /\ w = v /\ w \notin Registered /\ timer'[w] = slotTime[w] /\ slotTime[w] >= 0
          /\ setup.protocol = "slotted"
      BY <1>2, <1>3, <1>5, <1>7, <2>1, <2>3 DEF Free, Synchronises
    <3>2. timer'[w] = 0
      <4>1. slotTime[w] <= 0 /\ slotTime[w] \in Int
        BY <2>1, <3>1, TypeFacts, SlotBounds DEF BeatInv
      <4>2. QED
        BY <3>1, <4>1
    <3>3. /\ quiet[w] \in Nat /\ setup.interval \in Int
          /\ timer[w] # NotScheduled => timer[w] \in Nat
      BY <2>1, TypeFacts
    <3>4. seq_n[w] > 0 => quiet[w] + 0 <= setup.interval
      BY <2>1, <3>3 DEF Steady
    <3>5. QED
      BY <1>1, <2>1, <3>2, <3>4 DEF Steady, NotScheduled
  <2>4. QED
    BY <2>2, <2>3
<1>8. ASSUME setup.protocol = "slotted", ShortDelay
      PROVE  /\ \A w \in Waiting : Slotted(w)'
             /\ LeadAir'
             /\ \A w \in Registered : JustSent(w)'
  <2>1. /\ \A w \in Waiting : Slotted(w)
        /\ LeadAir
        /\ \A w \in Registered : JustSent(w)
        /\ SlotsGiven
    BY <1>8 DEF BeatInv, Phases
  <2>2. LeadAir'
    BY <1>1, <1>6, <2>1, SetupStays DEF LeadAir
  <2>3. ASSUME NEW w \in Waiting, timer'[w] # timer[w]
        PROVE  /\ Elapsed \in Nat /\ Elapsed <= setup.delay /\ setup.delay < slotTime[w]
               /\ slotTime[w] + setup.delay < setup.interval
               /\ timer'[w] = slotTime[w]
    <3>1. w \in Vehicle /\ w \in Registered
      BY <1>8, <2>1, SlotFacts DEF Waiting
    <3>2. w = v /\ u = Lead /\ timer'[w] = slotTime[w]
      BY <1>3, <1>5, <2>3, <3>1
    <3>3. Elapsed \in Nat /\ Elapsed <= setup.delay
      BY <1>2, <2>1, <3>2 DEF LeadAir, u
    <3>4. QED
      BY <1>8, <2>1, <3>2, <3>3, SlotFacts
  <2>4. ASSUME NEW w \in Waiting
        PROVE  Slotted(w)'
    <3>1. Slotted(w) /\ w \in Vehicle /\ slotTime[w] \in Nat
      BY <1>8, <2>1, SlotFacts
    <3>2. CASE timer'[w] = timer[w]
      BY <1>1, <1>6, <3>1, <3>2 DEF Slotted
    <3>3. CASE timer'[w] # timer[w]
      <4>1. /\ Elapsed \in Nat /\ Elapsed <= setup.delay /\ setup.delay < slotTime[w]
            /\ slotTime[w] + setup.delay < setup.interval
            /\ timer'[w] = slotTime[w]
        BY <2>3, <3>3
      <4>2. /\ timer[w] \in Int /\ quiet[w] \in Nat /\ setup.delay \in Nat
            /\ seq_n[w] > 0 => timer[w] <= setup.interval
            /\ seq_n[w] \in Nat /\ setup.interval \in Nat /\ setup.interval > 0
            /\ timer[w] # NotScheduled => timer[w] \in Nat
        BY <1>8, <3>1, TypeFacts
      <4>3. \/ timer[w] \in Nat
               /\ InSlot(timer[w], Elapsed, quiet[w], slotTime[w], setup.interval, setup.delay)
            \/ quiet[w] = 0
        BY <3>1, <4>2 DEF Slotted
      <4>4. quiet[w] <= Elapsed + setup.interval - slotTime[w]
        BY <3>1, <4>1, <4>2, <4>3 DEF InSlot
      <4>5. InSlot(slotTime[w], Elapsed, quiet[w], slotTime[w], setup.interval, setup.delay)
        BY <3>1, <4>1, <4>2, <4>4 DEF InSlot
      <4>6. timer'[w] # NotScheduled /\ Elapsed >= 0
        BY <3>1, <4>1 DEF NotScheduled
      <4>7. QED
        BY <1>1, <1>6, <4>1, <4>5, <4>6 DEF Slotted
    <3>4. QED
      BY <3>2, <3>3
  <2>5. ASSUME NEW w \in Registered
        PROVE  JustSent(w)'
    <3>1. CASE timer'[w] = timer[w]
      BY <1>1, <2>1, <3>1 DEF JustSent
    <3>2. CASE timer'[w] # timer[w]
      <4>1. w \in Waiting /\ w \in Vehicle
        BY <1>5, <3>2, TypeFacts DEF Waiting
      <4>2. /\ Elapsed \in Nat /\ Elapsed <= setup.delay /\ setup.delay < slotTime[w]
            /\ slotTime[w] + setup.delay < setup.interval /\ slotTime[w] \in Nat
        BY <1>8, <2>1, <2>3, <3>2, <4>1, SlotFacts
      <4>3. /\ quiet[w] \in Nat /\ setup.interval \in Nat /\ setup.interval > 0
            /\ setup.delay \in Nat
        BY <1>8, <4>1, TypeFacts
      <4>4. ~(seq_n[w] > 0 /\ quiet[w] = 0)
        <5>1. SUFFICES ASSUME seq_n[w] > 0, quiet[w] = 0 PROVE FALSE
          OBVIOUS
        <5>2. timer[w] = setup.interval
          BY <2>1, <5>1 DEF JustSent
        <5>3. InSlot(setup.interval, Elapsed, quiet[w], slotTime[w],
                     setup.interval, setup.delay)
          BY <2>1, <4>1, <4>3, <5>1, <5>2 DEF Slotted, NotScheduled
        <5>4. QED
          BY <4>2, <4>3, <5>1, <5>3 DEF InSlot
      <4>5. QED
        BY <1>1, <4>4 DEF JustSent
    <3>3. QED
      BY <3>1, <3>2
  <2>6. QED
    BY <2>2, <2>4, <2>5
<1>9. Phases'
  BY <1>1, <1>8, SetupStays, BeatStays DEF Phases
<1>10. BeaconsGoOn'
  <2>1. \A w \in OnRoad : w \in Vehicle
    BY TypeFacts
  <2>2. \A w \in OnRoad : timer[w] # NotScheduled => timer'[w] # NotScheduled
    BY <1>2, <1>3, <2>1, TypeFacts DEF NotScheduled
  <2>3. ASSUME NEW w \in OnRoad,
               knownBeacons'[w][LeaderId(w)] # knownBeacons[w][LeaderId(w)],
               setup.protocol = "slotted", ~IsLast(w)
        PROVE  timer'[w] # NotScheduled
    <3>1. w = v /\ LeaderId(w) = u
      BY <1>1, <1>2, <2>1, <2>3 DEF TypeInv, TypeOK
    <3>2. Synchronises(v, u)
      BY <2>3, <3>1 DEF Synchronises
    <3>3. QED
      BY <1>2, <1>3, <3>1, <3>2, TypeFacts DEF NotScheduled
  <2>4. QED
    BY <1>1, <2>2, <2>3, GoingOn DEF BeatInv
<1>11. \A w \in OnRoad' : Free(w)' => Steady(w)'
  BY <1>1, <1>7, SetupStays, BeatStays
<1>12. QED
  BY <1>4, <1>9, <1>10, <1>11 DEF BeatInv

-----------------------------------------------------------------------------
(* The other steps                                                         *)

(* What does not touch timers and counters keeps everything, and a new     *)
(* formation is one whose leader was not heard yet.                        *)
LEMMA IdleKeepsBeat ==
  ASSUME TypeInv, BeatInv, UNCHANGED <<setup, stray, slotTime, sendVars, knownBeacons>>,
         air' \subseteq air,
         \A v \in OnRoad : \/ formation'[v] = formation[v] /\ before'[v] = before[v]
                           \/ before'[v] = knownBeacons[v]
  PROVE  BeatInv'
<1>1. UNCHANGED <<setup, stray, slotTime, timer, seq_n, quiet, knownBeacons>>
  BY DEF sendVars
<1>2. SlotsGiven'
  BY <1>1, SlotsKept DEF BeatInv
<1>3. \A v \in OnRoad' : Free(v)' => Steady(v)'
  BY <1>1, SetupStays, BeatStays DEF BeatInv, Steady
<1>4. Elapsed' = Elapsed
  BY <1>1, SetupStays DEF Elapsed
<1>5. Phases'
  BY <1>1, <1>4, SetupStays, BeatStays DEF BeatInv, Phases, Slotted, LeadAir, JustSent
<1>6. BeaconsGoOn'
  <2>1. OnRoad' = OnRoad /\ \A v : StartsAlone(v)' <=> StartsAlone(v)
    BY <1>1, SetupStays
  <2>2. ASSUME NEW v \in OnRoad, HeardLeader(v)', ~IsLast(v)'
        PROVE  HeardLeader(v) /\ ~IsLast(v)
    BY <1>1, <2>2 DEF HeardLeader, IsLast, LeaderId
  <2>3. QED
    BY <1>1, <2>1, <2>2 DEF BeatInv, BeaconsGoOn
<1>7. QED
  BY <1>2, <1>3, <1>5, <1>6 DEF BeatInv

LEMMA GrowthKeepsBeat ==
  ASSUME TypeInv, BeatInv, NEW v \in Vehicle, JoinFormation(v) \/ UpdatePlatoonFormation(v)
  PROVE  BeatInv'
<1>1. /\ UNCHANGED <<givenVars, sendVars, air, knownBeacons>>
      /\ before' = [before EXCEPT ![v] = knownBeacons[v]]
      /\ \E k \in 1..(Len(Whole) - 1) : formation' = [formation EXCEPT ![v] = FirstOfWhole(k + 1)]
  BY Growth DEF TypeInv, TypeOK
<1>2. \A w \in OnRoad : \/ formation'[w] = formation[w] /\ before'[w] = before[w]
                        \/ before'[w] = knownBeacons[w]
  BY <1>1, TypeFacts DEF TypeInv, TypeOK
<1>3. QED
  BY <1>1, <1>2, IdleKeepsBeat DEF givenVars

LEMMA NextBeat == TypeInv /\ ControllerInv /\ BeatInv /\ [Next]_vars => BeatInv'
<1> SUFFICES ASSUME TypeInv, ControllerInv, BeatInv, [Next]_vars PROVE BeatInv'
  OBVIOUS
<1>1. ASSUME NEW f \in air, DropDuplicate(f) \/ ScheduleInPast(f)
      PROVE  BeatInv'
  BY <1>1, IdleKeepsBeat DEF DropDuplicate, ScheduleInPast, givenVars, formationVars
<1>2. CASE UNCHANGED vars
  BY <1>2, IdleKeepsBeat DEF vars, givenVars, formationVars
<1>3. QED
  BY <1>1, <1>2, SendKeepsBeat, TickKeepsBeat, ReceiveKeepsBeat, GrowthKeepsBeat DEF Next

LEMMA InitBeat == Init => BeatInv
<1> SUFFICES ASSUME Init PROVE BeatInv
  OBVIOUS
<1>1. TypeInv /\ SlotsGiven
  BY InitType, InitSlots
<1>2. /\ setup \in Setups /\ air = {} /\ before = knownBeacons
      /\ \A v \in Vehicle : seq_n[v] = 0 /\ quiet[v] = 0
  BY DEF Init
<1>3. OnRoad \subseteq Vehicle /\ Registered \subseteq OnRoad
  BY <1>1, TypeFacts
<1>4. PICK begin \in [{w \in OnRoad : StartsAlone(w)} -> Begin] :
        timer = [v \in Vehicle |-> IF v \in OnRoad /\ StartsAlone(v)
                                   THEN setup.interval + begin[v] ELSE NotScheduled]
  BY DEF Init
<1>5. ASSUME NEW v \in OnRoad
      PROVE  /\ StartsAlone(v) => timer[v] # NotScheduled
             /\ ~StartsAlone(v) => timer[v] = NotScheduled
  <2>1. CASE StartsAlone(v)
    <3>1. timer[v] = setup.interval + begin[v] /\ begin[v] \in Begin
      BY <1>3, <1>4, <2>1
    <3>2. setup.interval > 0 /\ setup.interval \in Int
      BY <1>1, <2>1, TypeFacts DEF StartsAlone
    <3>3. begin[v] > 0 /\ begin[v] \in Int
      BY <1>2, <3>1, SetupFacts DEF Begin
    <3>4. QED
      BY <2>1, <3>1, <3>2, <3>3 DEF NotScheduled
  <2>2. CASE ~StartsAlone(v)
    BY <1>3, <1>4, <2>2
  <2>3. QED
    BY <2>1, <2>2
<1>6. \A v \in OnRoad : Free(v) => Steady(v)
  BY <1>2, <1>3 DEF Steady
<1>7. Phases
  <2> SUFFICES ASSUME setup.protocol = "slotted"
               PROVE  /\ \A w \in Waiting : Slotted(w)
                      /\ LeadAir
                      /\ \A w \in Registered : JustSent(w)
    BY DEF Phases
  <2>1. ASSUME NEW w \in Waiting
        PROVE  Slotted(w)
    <3>1. w \in OnRoad /\ w \in Registered /\ w # Lead /\ setup.platoon[1] = Lead
      BY <1>2, <1>3, PlatoonFacts DEF Waiting
    <3>2. ~StartsAlone(w)
      BY <3>1 DEF StartsAlone, FirstFormation
    <3>3. timer[w] = NotScheduled /\ seq_n[w] = 0 /\ quiet[w] = 0
      BY <1>2, <1>3, <1>5, <3>1, <3>2
    <3>4. QED
      BY <3>3 DEF Slotted
  <2>2. LeadAir
    BY <1>2 DEF LeadAir
  <2>3. \A w \in Registered : JustSent(w)
    BY <1>2, <1>3 DEF JustSent
  <2>4. QED
    BY <2>1, <2>2, <2>3
<1>8. BeaconsGoOn
  BY <1>2, <1>3, <1>5 DEF BeaconsGoOn, HeardLeader
<1>9. QED
  BY <1>1, <1>6, <1>7, <1>8 DEF BeatInv

LEMMA BeatInvariant == Spec => [](TypeInv /\ BeatInv)
<1>1. TypeInv /\ TypeInv' /\ ControllerInv /\ [Next]_vars => ControllerInv'
  BY NextController
<1>2. QED
  BY <1>1, InitController, InitBeat, NextBeat, TypeInvariant, PTL DEF Spec

-----------------------------------------------------------------------------
(* What that means for the slots                                           *)

(* Two slots in which vehicles may send do not overlap.                    *)
LEMMA DistinctSlots ==
  ASSUME TypeInv, SlotsGiven, setup.protocol = "slotted", ShortDelay,
         NEW u \in Waiting, NEW v \in Waiting, u # v
  PROVE  \/ slotTime[u] + setup.delay < slotTime[v]
         \/ slotTime[v] + setup.delay < slotTime[u]
<1>1. setup \in Setups /\ setup.delay \in Nat /\ setup.interval > 0
  BY TypeFacts
<1>2. PICK i \in 2..Size : u = Whole[i] /\ slotTime[u] = SlotOf(i)
  BY SlotFacts
<1>3. PICK j \in 2..Size : v = Whole[j] /\ slotTime[v] = SlotOf(j)
  BY SlotFacts
<1>4. i \in 1..Size /\ j \in 1..Size /\ (i < j \/ j < i)
  BY <1>1, <1>2, <1>3, PlatoonFacts
<1>5. /\ i < j => SlotOf(i) + setup.interval \div Size <= SlotOf(j)
      /\ j < i => SlotOf(j) + setup.interval \div Size <= SlotOf(i)
      /\ SlotOf(i) \in Nat /\ SlotOf(j) \in Nat /\ setup.interval \div Size \in Nat
  BY <1>1, <1>4, SlotOrder
<1>6. QED
  BY <1>1, <1>2, <1>3, <1>4, <1>5 DEF ShortDelay

(* Who sends is in its slot; between rounds it is the leader.              *)
LEMMA SendsInSlot ==
  ASSUME TypeInv, BeatInv, setup.protocol = "slotted", ShortDelay
  PROVE  /\ \A v \in Waiting : timer[v] \in {0, setup.interval} =>
              slotTime[v] <= Elapsed /\ Elapsed <= slotTime[v] + setup.delay
         /\ \A v \in Registered : SendsNow(v) => timer[v] \in {0, setup.interval}
         /\ timer[Lead] \in {0, setup.interval} => Elapsed \in {0, setup.interval}
<1>1. /\ \A w \in Waiting : Slotted(w)
      /\ \A w \in Registered : JustSent(w)
      /\ SlotsGiven
  BY DEF BeatInv, Phases
<1>2. ASSUME NEW v \in Waiting, timer[v] \in {0, setup.interval}
      PROVE  slotTime[v] <= Elapsed /\ Elapsed <= slotTime[v] + setup.delay
  <2>1. /\ slotTime[v] \in Nat /\ quiet[v] \in Nat /\ setup.interval \in Nat \ {0}
        /\ setup.delay \in Nat /\ Elapsed \in Int /\ Elapsed <= setup.interval
        /\ setup.delay < slotTime[v] /\ slotTime[v] + setup.delay < setup.interval
    BY <1>1, SlotFacts, TypeFacts, LeadSteady
  <2>2. timer[v] # NotScheduled
    BY <1>2, <2>1 DEF NotScheduled
  <2>3. /\ Elapsed >= 0
        /\ InSlot(timer[v], Elapsed, quiet[v], slotTime[v], setup.interval, setup.delay)
    BY <1>1, <2>2 DEF Slotted
  <2>4. timer[v] = 0 \/ timer[v] = setup.interval
    BY <1>2
  <2>5. QED
    BY <2>1, <2>3, <2>4 DEF InSlot
<1>3. \A v \in Registered : SendsNow(v) => timer[v] \in {0, setup.interval}
  BY <1>1 DEF SendsNow, JustSent
<1>4. timer[Lead] \in {0, setup.interval} => Elapsed \in {0, setup.interval}
  BY TypeFacts DEF Elapsed
<1>5. QED
  BY <1>2, <1>3, <1>4

(* No two vehicles of a registered platoon ever send in the same tick, for *)
(* any number of vehicles and any interval, although each synchronises on  *)
(* a beacon that may come late or not at all                               *)
(* (SlottedBeaconing::messageReceived, handleSelfMsg).                     *)
THEOREM SlotsStayApart == Spec => []SlotsApart
<1>1. ASSUME TypeInv, BeatInv
      PROVE  SlotsApart
  <2> SUFFICES ASSUME setup.protocol = "slotted", ShortDelay,
                      NEW u \in Registered, NEW v \in Registered, u # v,
                      SendsNow(u), timer[v] = 0
               PROVE  FALSE
    BY DEF SlotsApart, ShortDelay, Size
  <2>1. timer[u] \in {0, setup.interval} /\ timer[v] \in {0, setup.interval}
    BY <1>1, SendsInSlot
  <2>2. ASSUME NEW w \in Waiting, timer[w] \in {0, setup.interval}
        PROVE  /\ slotTime[w] <= Elapsed /\ Elapsed <= slotTime[w] + setup.delay
               /\ slotTime[w] \in Nat /\ setup.delay \in Nat /\ Elapsed \in Int
               /\ setup.interval \in Nat /\ Elapsed # 0 /\ Elapsed # setup.interval
    <3>1. slotTime[w] <= Elapsed /\ Elapsed <= slotTime[w] + setup.delay
      BY <1>1, <2>2, SendsInSlot
    <3>2. /\ slotTime[w] \in Nat /\ setup.delay \in Nat /\ Elapsed \in Int
          /\ setup.interval \in Nat
          /\ setup.delay < slotTime[w] /\ slotTime[w] + setup.delay < setup.interval
      BY <1>1, SlotFacts, TypeFacts, LeadSteady DEF BeatInv
    <3>3. QED
      BY <3>1, <3>2
  <2>3. timer[Lead] \in {0, setup.interval} => Elapsed \in {0, setup.interval}
    BY <1>1, SendsInSlot
  <2>4. CASE u = Lead
    BY <2>1, <2>2, <2>3, <2>4 DEF Waiting
  <2>5. CASE v = Lead
    BY <2>1, <2>2, <2>3, <2>5 DEF Waiting
  <2>6. CASE u # Lead /\ v # Lead
    <3>1. u \in Waiting /\ v \in Waiting
      BY <2>6 DEF Waiting
    <3>2. \/ slotTime[u] + setup.delay < slotTime[v]
          \/ slotTime[v] + setup.delay < slotTime[u]
      BY <1>1, <3>1, DistinctSlots DEF BeatInv
    <3>3. QED
      BY <2>1, <2>2, <3>1, <3>2
  <2>7. QED
    BY <2>4, <2>5, <2>6
<1>2. QED
  BY <1>1, BeatInvariant, PTL

(* Nobody who has sent is silent for longer than an interval and, with     *)
(* slots, the delay of one beacon, however often a beacon of the leader    *)
(* moves its timer (SlottedBeaconing.cc:68-77,                             *)
(* SimplePlatooningBeaconing.cc:45).                                       *)
THEOREM SilenceIsBounded == Spec => []NeverSilent
<1>1. ASSUME TypeInv, BeatInv, NEW v \in OnRoad
      PROVE  /\ v \in Vehicle /\ quiet[v] \in Nat /\ slotTime[v] \in Int
             /\ timer[v] # NotScheduled => timer[v] \in Nat
             /\ setup.interval \in Int /\ setup.delay \in Nat
             /\ seq_n[v] > 0 \/ seq_n[v] = 0
  BY <1>1, TypeFacts
<1>2. ASSUME TypeInv, BeatInv, NEW v \in OnRoad, Free(v), seq_n[v] > 0
      PROVE  quiet[v] <= setup.interval
  BY <1>1, <1>2 DEF BeatInv, Steady
<1>3. ASSUME TypeInv, BeatInv, setup.protocol = "slotted", ShortDelay, NEW v \in OnRoad
      PROVE  quiet[v] <= setup.interval + setup.delay
  <2>1. setup.interval > 0
    BY <1>3, TypeFacts
  <2>2. CASE Free(v) /\ seq_n[v] > 0
    BY <1>1, <1>2, <1>3, <2>2
  <2>3. CASE Free(v) /\ seq_n[v] = 0
    BY <1>1, <1>3, <2>1, <2>3 DEF BeatInv, Steady
  <2>4. CASE ~Free(v)
    <3>1. v \in Waiting
      BY <2>4 DEF Free, Waiting
    <3>2. Slotted(v) /\ SlotsGiven
      BY <1>3, <3>1 DEF BeatInv, Phases
    <3>3. CASE timer[v] = NotScheduled
      BY <1>1, <1>3, <2>1, <3>2, <3>3 DEF Slotted
    <3>4. CASE timer[v] # NotScheduled
      <4>1. InSlot(timer[v], Elapsed, quiet[v], slotTime[v], setup.interval, setup.delay)
        BY <3>2, <3>4 DEF Slotted
      <4>2. Elapsed \in Int /\ Elapsed <= setup.interval /\ timer[v] \in Nat
        BY <1>1, <1>3, <3>4, LeadSteady
      <4>3. QED
        BY <1>1, <1>3, <4>1, <4>2 DEF InSlot
    <3>5. QED
      BY <3>3, <3>4
  <2>5. QED
    BY <1>1, <1>3, <2>2, <2>3, <2>4
<1>4. ASSUME TypeInv, BeatInv
      PROVE  NeverSilent
  BY <1>2, <1>3, <1>4 DEF NeverSilent, ShortDelay, Size, Free
<1>5. QED
  BY <1>4, BeatInvariant, PTL

(* However the platoon grows and whatever is lost, who starts the chain of *)
(* sendBeacon messages, who has sent, and who has heard its leader since   *)
(* its formation last changed and is not the last of it has its next       *)
(* beacon scheduled.  Nobody starts it with a beaconing interval that is   *)
(* not positive (SlottedBeaconing::handleSelfMsg, messageReceived).        *)
THEOREM TheChainNeverBreaks == Spec => []BeaconsGoOn
<1>1. BeatInv => BeaconsGoOn
  BY DEF BeatInv
<1>2. QED
  BY <1>1, BeatInvariant, PTL

=============================================================================
