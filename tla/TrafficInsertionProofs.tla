----------------------- MODULE TrafficInsertionProofs -----------------------
(***************************************************************************)
(* Proofs about TrafficInsertion: however SUMO splits the queue, vehicles  *)
(* get on the road in the order they were queued in, ids are unique, and a *)
(* vehicle gets the id its platoon was registered with: it is in the lane  *)
(* and at the place its formation says.                                    *)
(*                                                                         *)
(* The argument: the plan of every traffic manager is sound whatever the   *)
(* configuration (Plan: integer division for platoons in rows, counting    *)
(* the vehicles queued before a platoon for those on a ring); the maps     *)
(* hold the plan or nothing (RegistryInv); automated vehicles are announced*)
(* first, so a vehicle's id is its place in the order (NumbersInv).        *)
(***************************************************************************)
EXTENDS TrafficInsertion, FiniteSetTheorems, SequenceTheorems, WellFoundedInduction, TLAPS

(* The vehicles a traffic manager may queue.                               *)
Queued == UNION {{Entries(e)[i] : i \in DOMAIN Entries(e)} : e \in Event}

Placed   == [id : Nat, entry : Queued]
OnRoadInOrder == [i \in 1..Len(road) |-> road[i].entry]

-----------------------------------------------------------------------------
(* What is queued *)

LEMMA FunctionIsSeq ==
  ASSUME NEW S, NEW n \in Nat, NEW f \in [1..n -> S]
  PROVE  f \in Seq(S)
OBVIOUS

LEMMA SeatsFinite ==
  ASSUME traffic \in Setups
  PROVE  RingCars \in Nat /\ IsFiniteSet(Seats(DOMAIN traffic.sizes))
<1> DEFINE P == DOMAIN traffic.sizes
           Row(p) == {p} \X (0..(traffic.sizes[p] - 1))
           S == {Row(p) : p \in P}
           f == [p \in P |-> Row(p)]
<1>1. traffic.sizes \in Seq(Nat \ {0})
  BY SetupAssumption
<1>2. P = 1..Len(traffic.sizes) /\ Len(traffic.sizes) \in Nat
  BY <1>1
<1>3. IsFiniteSet(P)
  BY <1>2, FS_Interval
<1>4. ASSUME NEW p \in P
      PROVE  IsFiniteSet(Row(p))
  <2>1. traffic.sizes[p] \in Nat
    BY <1>1, <1>2
  <2>2. traffic.sizes[p] - 1 \in Int
    BY <2>1
  <2>3. IsFiniteSet(0..(traffic.sizes[p] - 1))
    BY <2>2, FS_Interval
  <2>4. IsFiniteSet({p})
    BY FS_Singleton
  <2>5. QED
    BY <2>3, <2>4, FS_Product
<1>5. f \in Surjection(P, S)
  BY DEF Surjection
<1>6. IsFiniteSet(S)
  BY <1>3, <1>5, FS_Surjection
<1>7. IsFiniteSet(UNION S)
  BY <1>4, <1>6, FS_UNION
<1>8. QED
  BY <1>7, FS_CardinalityType DEF RingCars, Seats

LEMMA EntriesFacts ==
  ASSUME traffic \in Setups, NEW e \in Event
  PROVE  /\ Entries(e) \in Seq(Queued)
         /\ \A x \in Queued : x.type \in Type
<1>1. /\ traffic.nCars \in Nat /\ traffic.humanCars \in Nat
      /\ traffic.nLanes \in Nat \ {0} /\ traffic.humanLanes \in Nat \ {0}
  BY SetupAssumption
<1>2. /\ Rows * traffic.nLanes \in Nat /\ HumanRows * traffic.humanLanes \in Nat
  BY <1>1 DEF Rows, HumanRows
<1>3. Cars \in Nat /\ NExtra \in Nat
  BY <1>1, <1>2, SeatsFinite DEF Cars, NExtra
<1>4. ASSUME NEW g \in Event
      PROVE  /\ Entries(g) \in Seq({Entries(g)[i] : i \in DOMAIN Entries(g)})
             /\ \A i \in DOMAIN Entries(g) : Entries(g)[i].type \in Type
  <2> DEFINE All == {PlatoonEntries[i] : i \in 1..Cars}
                      \cup {[type |-> "auto", lane |-> ExtraLane, position |-> 0]}
                      \cup {[type |-> "auto", lane |-> 2, position |-> 0]}
                      \cup {HumanEntries[i] : i \in DOMAIN HumanEntries}
             Es == {x \in All : x.type \in Type}
  <2>1. PlatoonEntries \in Seq(Es)
    <3>1. PlatoonEntries = [i \in 1..Cars |-> PlatoonEntries[i]]
      BY DEF PlatoonEntries
    <3>2. \A i \in 1..Cars : PlatoonEntries[i].type = "auto"
      BY DEF PlatoonEntries, AsEntry
    <3>3. \A i \in 1..Cars : PlatoonEntries[i] \in Es
      BY <3>2 DEF Type
    <3> HIDE DEF Es
    <3>4. PlatoonEntries \in [1..Cars -> Es]
      BY <3>1, <3>3
    <3>5. QED
      BY <1>3, <3>4, FunctionIsSeq
  <2>2. /\ [type |-> "auto", lane |-> ExtraLane, position |-> 0] \in Es
        /\ [type |-> "auto", lane |-> 2, position |-> 0] \in Es
    BY DEF Type
  <2>3. HumanEntries \in Seq(Es)
    <3> DEFINE n == HumanRows * traffic.humanLanes
    <3>1. CASE traffic.manager # "human"
      BY <3>1 DEF HumanEntries
    <3>2. CASE traffic.manager = "human"
      <4>1. /\ DOMAIN HumanEntries = 1..n
            /\ HumanEntries = [i \in 1..n |-> HumanEntries[i]]
            /\ \A i \in 1..n : HumanEntries[i].type = "human"
        BY <3>2 DEF HumanEntries
      <4>2. \A i \in 1..n : HumanEntries[i] \in Es
        BY <4>1 DEF Type
      <4> HIDE DEF Es
      <4>3. HumanEntries \in [1..n -> Es]
        BY <4>1, <4>2
      <4>4. QED
        BY <1>2, <4>3, FunctionIsSeq
    <3>3. QED
      BY <3>1, <3>2
  <2>4. \A x \in Es : x.type \in Type
    OBVIOUS
  <2> HIDE DEF Es
  <2>5. ExtraEntries \in Seq(Es)
    <3>1. ExtraEntries \in [1..NExtra -> Es]
      BY <2>2 DEF ExtraEntries
    <3>2. QED
      BY <1>3, <3>1, FunctionIsSeq
  <2>6. Entries(g) \in Seq(Es)
    BY <2>1, <2>2, <2>3, <2>5 DEF Entries
  <2>7. QED
    BY <2>4, <2>6
<1>5. \A x \in Queued : x.type \in Type
  BY <1>4 DEF Queued
<1>6. {Entries(e)[i] : i \in DOMAIN Entries(e)} \subseteq Queued
  BY DEF Queued
<1>7. QED
  BY <1>4, <1>5, <1>6, SeqMonotonic

-----------------------------------------------------------------------------
(* The queue *)

PendingInv ==
  \/ pending = PendingAtStart
  \/ traffic.manager = "join" /\ pending = <<"insertJoiner">>
  \/ pending = <<>>

OrderInv ==
  /\ traffic \in Setups
  /\ PendingInv
  /\ queue \in Seq(Queued)
  /\ road \in Seq(Placed)
  /\ vehiclesCount \in [Type -> Nat]
  /\ InOrder

LEMMA InitOrder == Init => OrderInv
<1> SUFFICES ASSUME Init PROVE OrderInv
  OBVIOUS
<1>1. vehiclesCount \in [Type -> Nat]
  BY DEF Init
<1>2. queue \in Seq(Queued) /\ road \in Seq(Placed)
  BY DEF Init
<1>3. InOrder
  BY DEF Init, InOrder, Announced
<1>4. QED
  BY <1>1, <1>2, <1>3 DEF Init, OrderInv, PendingInv

(* What is planned depends on the configuration alone.                     *)
LEMMA SamePlan ==
  ASSUME traffic' = traffic
  PROVE  Cars' = Cars /\ \A id : PlannedCar(id)' = PlannedCar(id)
<1>1. \A id : RowCar(id)' = RowCar(id)
  BY DEF RowCar, PlatoonOf, RowPlace, RowPosition, TotalLength, NPlatoons, PlatoonLength
<1>2. RingCars' = RingCars
  BY DEF RingCars, Seats
<1>3. \A p : RingBefore(p)' = RingBefore(p)
  BY DEF RingBefore, RingLane
<1>4. \A p : CarsBefore(p)' = CarsBefore(p)
  BY <1>3 DEF CarsBefore, Seats
<1>5. \A id : RingCar(id)' = RingCar(id)
  BY <1>2, <1>3, <1>4 DEF RingCar, RingLane
<1>6. Cars' = Cars
  BY <1>2 DEF Cars, Rows
<1>7. \A id : PlannedCar(id)' = PlannedCar(id)
  BY <1>1, <1>5 DEF PlannedCar
<1>8. QED
  BY <1>6, <1>7

LEMMA SameEntries ==
  ASSUME traffic' = traffic
  PROVE  /\ \A e \in Event : Entries(e)' = Entries(e)
         /\ Queued' = Queued /\ PendingAtStart' = PendingAtStart
<1>1. Cars' = Cars /\ \A id : PlannedCar(id)' = PlannedCar(id)
  BY SamePlan
<1>2. PlatoonEntries' = PlatoonEntries
  BY <1>1 DEF PlatoonEntries
<1>3. ExtraEntries' = ExtraEntries /\ HumanEntries' = HumanEntries
  BY DEF ExtraEntries, NExtra, ExtraLane, HumanEntries, HumanRows
<1>4. \A e \in Event : Entries(e)' = Entries(e)
  BY <1>2, <1>3 DEF Entries
<1>5. Queued' = Queued
  BY <1>4 DEF Queued
<1>6. QED
  BY <1>4, <1>5 DEF PendingAtStart

-----------------------------------------------------------------------------
(* SUMO takes vehicles *)

LEMMA OfTypeFacts ==
  ASSUME NEW s, NEW type, NEW n \in Nat
  PROVE  /\ OfType(s, type, n) \in Nat
         /\ \A m \in 0..n : OfType(s, type, m) <= OfType(s, type, n)
         /\ \A i \in 1..n : s[i].type = type => OfType(s, type, i - 1) < OfType(s, type, n)
<1> DEFINE Of(m) == {i \in 1..m : s[i].type = type}
<1>1. IsFiniteSet(1..n)
  BY FS_Interval
<1>2. IsFiniteSet(Of(n)) /\ Cardinality(Of(n)) \in Nat
  BY <1>1, FS_Subset, FS_CardinalityType
<1>3. ASSUME NEW m \in 0..n
      PROVE  Cardinality(Of(m)) <= Cardinality(Of(n)) /\ Cardinality(Of(m)) \in Nat
             /\ (Cardinality(Of(n)) = Cardinality(Of(m)) => Of(n) = Of(m))
  <2>1. Of(m) \in SUBSET Of(n)
    OBVIOUS
  <2> HIDE DEF Of
  <2>2. QED
    BY <1>2, <2>1, FS_Subset, FS_CardinalityType
<1>4. ASSUME NEW i \in 1..n, s[i].type = type
      PROVE  Cardinality(Of(i - 1)) < Cardinality(Of(n))
  <2>1. i \in Of(n) /\ i \notin Of(i - 1) /\ i - 1 \in 0..n
    BY <1>4
  <2>2. Of(n) # Of(i - 1)
    BY <2>1
  <2> HIDE DEF Of
  <2>3. QED
    BY <1>2, <1>3, <2>1, <2>2
<1>5. QED
  BY <1>2, <1>3, <1>4 DEF OfType

(* What InsertVehicles takes, and the ids it gives.                        *)
LEMMA TakenFacts ==
  ASSUME OrderInv, NEW k \in 1..Len(queue), InsertVehicles(k),
         NEW taken, taken = SubSeq(queue, 1, k)
  PROVE  /\ taken \in Seq(Queued) /\ Len(taken) = k
         /\ queue' \in Seq(Queued) /\ taken \o queue' = queue
         /\ \A type \in Type : vehiclesCount'[type] = vehiclesCount[type] + OfType(taken, type, k)
         /\ vehiclesCount' \in [Type -> Nat]
         /\ \A i \in 1..k : taken[i] \in Queued /\ taken[i].type \in Type
         /\ \A i \in 1..k : /\ Number(taken, i) \in Nat
                            /\ Number(taken, i) >= vehiclesCount[taken[i].type]
                            /\ Number(taken, i) < vehiclesCount'[taken[i].type]
         /\ \A i, j \in 1..k : i < j /\ taken[i].type = taken[j].type =>
              Number(taken, i) < Number(taken, j)
         /\ Len(road') = Len(road) + k
         /\ \A i \in 1..Len(road) : road'[i] = road[i]
         /\ \A i \in 1..k : road'[Len(road) + i] = [id |-> Number(taken, i), entry |-> taken[i]]
         /\ road' \in Seq(Placed)
<1>1. queue \in Seq(Queued) /\ Len(queue) \in Nat /\ k \in Nat /\ k <= Len(queue)
  BY DEF OrderInv
<1>2. taken \in Seq(Queued) /\ Len(taken) = k /\ \A i \in 1..k : taken[i] \in Queued
  BY <1>1
<1>3. queue' = SubSeq(queue, k + 1, Len(queue))
  BY DEF InsertVehicles, Split
<1>4. queue' \in Seq(Queued)
  BY <1>1, <1>3
<1>5. taken \o queue' = queue
  <2>1. SubSeq(queue, 1, k) \o SubSeq(queue, k + 1, Len(queue)) = SubSeq(queue, 1, Len(queue))
    BY <1>1, ConcatAdjacentSubSeq
  <2>2. QED
    BY <1>1, <1>3, <2>1, SubSeqFull
<1>6. \A i \in 1..k : taken[i].type \in Type
  BY <1>2, EntriesFacts DEF OrderInv, Event
<1>7. /\ \A type \in Type : OfType(taken, type, k) \in Nat
      /\ vehiclesCount \in [Type -> Nat]
  BY <1>1, OfTypeFacts DEF OrderInv
<1>8. vehiclesCount' = [type \in Type |-> vehiclesCount[type] + OfType(taken, type, k)]
  BY <1>2 DEF InsertVehicles, Split
<1>9. /\ vehiclesCount' \in [Type -> Nat]
      /\ \A type \in Type : vehiclesCount'[type] = vehiclesCount[type] + OfType(taken, type, k)
  BY <1>7, <1>8
<1>10. ASSUME NEW i \in 1..k
       PROVE  /\ OfType(taken, taken[i].type, i - 1) \in Nat
              /\ OfType(taken, taken[i].type, i - 1) < OfType(taken, taken[i].type, k)
  <2>1. i - 1 \in Nat
    BY <1>1
  <2>2. QED
    BY <1>1, <2>1, OfTypeFacts
<1>11. ASSUME NEW i \in 1..k
       PROVE  /\ Number(taken, i) \in Nat
              /\ Number(taken, i) >= vehiclesCount[taken[i].type]
              /\ Number(taken, i) < vehiclesCount'[taken[i].type]
  <2> DEFINE type == taken[i].type
             old == vehiclesCount[type]
             before == OfType(taken, type, i - 1)
             all == OfType(taken, type, k)
  <2>1. type \in Type /\ old \in Nat /\ vehiclesCount'[type] = old + all
    BY <1>6, <1>7, <1>9
  <2>2. before \in Nat /\ all \in Nat /\ before < all
    BY <1>7, <1>10, <2>1
  <2>3. Number(taken, i) = old + before
    BY DEF Number
  <2> HIDE DEF old, before, all
  <2>4. old + before \in Nat /\ old + before >= old /\ old + before < old + all
    BY <2>1, <2>2
  <2>5. QED
    BY <2>1, <2>3, <2>4 DEF old
<1>12. ASSUME NEW i \in 1..k, NEW j \in 1..k, i < j, taken[i].type = taken[j].type
       PROVE  Number(taken, i) < Number(taken, j)
  <2>1. j - 1 \in Nat /\ i \in 1..(j - 1)
    BY <1>1, <1>12
  <2>2. OfType(taken, taken[i].type, i - 1) < OfType(taken, taken[j].type, j - 1)
    BY <1>12, <2>1, OfTypeFacts
  <2>3. /\ OfType(taken, taken[i].type, i - 1) \in Nat
        /\ OfType(taken, taken[j].type, j - 1) \in Nat
        /\ vehiclesCount[taken[i].type] \in Nat
        /\ vehiclesCount[taken[i].type] = vehiclesCount[taken[j].type]
    BY <1>6, <1>7, <1>10, <1>12
  <2>4. QED
    BY <2>2, <2>3 DEF Number
<1> DEFINE arrived == [i \in 1..k |-> [id |-> Number(taken, i), entry |-> taken[i]]]
<1>13. \A i \in 1..k : [id |-> Number(taken, i), entry |-> taken[i]] \in Placed
  BY <1>2, <1>11 DEF Placed
<1>14. arrived \in Seq(Placed) /\ Len(arrived) = k
  BY <1>1, <1>13
<1>15. road' = road \o arrived
  BY <1>2 DEF InsertVehicles, Split
<1>16. \A i \in 1..k : arrived[i] = [id |-> Number(taken, i), entry |-> taken[i]]
  OBVIOUS
<1>17. road \in Seq(Placed) /\ Len(road) \in Nat
  BY DEF OrderInv
<1> HIDE DEF arrived
<1>18. /\ road' \in Seq(Placed) /\ Len(road') = Len(road) + k
       /\ \A i \in 1..Len(road) : road'[i] = road[i]
       /\ \A i \in 1..k : road'[Len(road) + i] = arrived[i]
  <2>1. /\ road \o arrived \in Seq(Placed) /\ Len(road \o arrived) = Len(road) + k
        /\ \A i \in 1..(Len(road) + k) : (road \o arrived)[i] =
             IF i <= Len(road) THEN road[i] ELSE arrived[i - Len(road)]
    BY <1>14, <1>17, ConcatProperties
  <2>2. \A i \in 1..Len(road) : i \in 1..(Len(road) + k) /\ i <= Len(road)
    BY <1>1, <1>17
  <2>3. \A i \in 1..k : /\ Len(road) + i \in 1..(Len(road) + k)
                        /\ ~(Len(road) + i <= Len(road)) /\ (Len(road) + i) - Len(road) = i
    BY <1>1, <1>17
  <2>4. QED
    BY <1>15, <2>1, <2>2, <2>3
<1>19. QED
  BY <1>2, <1>4, <1>5, <1>6, <1>9, <1>11, <1>12, <1>16, <1>18

(* A vehicle SUMO takes moves from the front of the queue to the end of    *)
(* the road.                                                               *)
LEMMA TakenInOrder ==
  ASSUME OrderInv, NEW k \in 1..Len(queue), InsertVehicles(k)
  PROVE  OnRoadInOrder' \o queue' = OnRoadInOrder \o queue
<1>1. PICK taken : taken = SubSeq(queue, 1, k)
  OBVIOUS
<1>2. /\ taken \in Seq(Queued) /\ Len(taken) = k
      /\ queue' \in Seq(Queued) /\ taken \o queue' = queue
      /\ Len(road') = Len(road) + k
      /\ \A i \in 1..Len(road) : road'[i] = road[i]
      /\ \A i \in 1..k : road'[Len(road) + i] = [id |-> Number(taken, i), entry |-> taken[i]]
      /\ road' \in Seq(Placed)
  BY <1>1, TakenFacts, ZenonT(40)
<1>3. road \in Seq(Placed) /\ Len(road) \in Nat /\ k \in Nat /\ Len(road) + k \in Nat
  BY DEF OrderInv
<1>4. /\ OnRoadInOrder \in Seq(Queued) /\ Len(OnRoadInOrder) = Len(road)
      /\ \A i \in 1..Len(road) : OnRoadInOrder[i] = road[i].entry
  <2>1. \A i \in 1..Len(road) : road[i].entry \in Queued
    <3>1. \A i \in 1..Len(road) : road[i] \in Placed
      BY <1>3
    <3>2. QED
      BY <3>1 DEF Placed
  <2>2. OnRoadInOrder \in [1..Len(road) -> Queued]
    BY <2>1 DEF OnRoadInOrder
  <2>3. QED
    BY <1>3, <2>2, FunctionIsSeq DEF OnRoadInOrder
<1>5. /\ OnRoadInOrder' \in Seq(Queued) /\ Len(OnRoadInOrder') = Len(road) + k
      /\ \A i \in 1..(Len(road) + k) : OnRoadInOrder'[i] = road'[i].entry
  <2>1. \A i \in 1..(Len(road) + k) : road'[i].entry \in Queued
    <3>1. \A i \in 1..Len(road') : road'[i] \in Placed
      BY <1>2
    <3>2. QED
      BY <1>2, <3>1 DEF Placed
  <2>2. OnRoadInOrder' \in [1..(Len(road) + k) -> Queued]
    BY <1>2, <2>1 DEF OnRoadInOrder
  <2>3. QED
    BY <1>2, <1>3, <2>2, FunctionIsSeq, SMTT(40) DEF OnRoadInOrder
<1>6. /\ OnRoadInOrder \o taken \in Seq(Queued)
      /\ Len(OnRoadInOrder \o taken) = Len(road) + k
      /\ \A i \in 1..(Len(road) + k) : (OnRoadInOrder \o taken)[i] =
           IF i <= Len(road) THEN OnRoadInOrder[i] ELSE taken[i - Len(road)]
  BY <1>2, <1>4, ConcatProperties, SMTT(30)
<1>7. ASSUME NEW i \in 1..(Len(road) + k)
      PROVE  OnRoadInOrder'[i] = (OnRoadInOrder \o taken)[i]
  <2>1. CASE i <= Len(road)
    <3>1. i \in 1..Len(road)
      BY <1>3, <2>1
    <3>2. QED
      BY <1>2, <1>4, <1>5, <1>6, <2>1, <3>1, ZenonT(40)
  <2>2. CASE i > Len(road)
    <3>0. i - Len(road) \in 1..k /\ i = Len(road) + (i - Len(road)) /\ ~(i <= Len(road))
      BY <1>3, <2>2
    <3>1. PICK j \in 1..k : i = Len(road) + j /\ j = i - Len(road) /\ ~(i <= Len(road))
      BY <3>0
    <3>2. road'[i] = [id |-> Number(taken, j), entry |-> taken[j]]
      BY <1>2, <3>1
    <3>3. road'[i].entry = taken[j]
      BY <3>2
    <3>4. (OnRoadInOrder \o taken)[i] = taken[j]
      BY <1>6, <3>1
    <3>5. OnRoadInOrder'[i] = road'[i].entry
      BY <1>5
    <3>6. QED
      BY <3>3, <3>4, <3>5, Zenon
  <2>3. i <= Len(road) \/ i > Len(road)
    BY <1>3
  <2>4. QED
    BY <2>1, <2>2, <2>3
<1>8. OnRoadInOrder' = OnRoadInOrder \o taken
  BY <1>5, <1>6, <1>7, SeqEqual
<1>9. (OnRoadInOrder \o taken) \o queue' = OnRoadInOrder \o (taken \o queue')
  <2>1. OnRoadInOrder \in Seq(Queued) /\ taken \in Seq(Queued) /\ queue' \in Seq(Queued)
    BY <1>2, <1>4
  <2>2. QED
    BY <2>1, ConcatAssociative, SMTT(20)
<1>10. QED
  BY <1>2, <1>8, <1>9

-----------------------------------------------------------------------------
(* The order of insertion *)

LEMMA NextOrder == OrderInv /\ [Next]_vars => OrderInv'
<1> SUFFICES ASSUME OrderInv, [Next]_vars PROVE OrderInv'
  OBVIOUS
<1>1. /\ traffic' = traffic /\ traffic \in Setups
      /\ \A e \in Event : Entries(e)' = Entries(e)
      /\ Queued' = Queued /\ PendingAtStart' = PendingAtStart
      /\ Placed' = Placed
  <2>1. traffic' = traffic
    BY DEF Next, InsertPlatoons, InsertJoiner, NextRun, InsertVehicles, vars
  <2>2. QED
    BY <2>1, SameEntries DEF OrderInv, Placed
<1>2. /\ Entries("insertPlatoons") \in Seq(Queued) /\ Entries("insertJoiner") \in Seq(Queued)
      /\ Entries("insertPlatoons")' = Entries("insertPlatoons")
      /\ Entries("insertJoiner")' = Entries("insertJoiner")
  BY <1>1, EntriesFacts DEF Event
<1>3. /\ queue \in Seq(Queued) /\ OnRoadInOrder \in Seq(Queued)
      /\ OnRoadInOrder \o queue = Announced
  <2>1. road \in Seq(Placed)
    BY DEF OrderInv
  <2>2. \A i \in 1..Len(road) : road[i] \in Placed
    BY <2>1
  <2>3. OnRoadInOrder \in [1..Len(road) -> Queued] /\ Len(road) \in Nat
    BY <2>1, <2>2 DEF OnRoadInOrder, Placed
  <2>4. OnRoadInOrder \in Seq(Queued)
    BY <2>3, FunctionIsSeq
  <2>5. QED
    BY <2>4 DEF OrderInv, InOrder, OnRoadInOrder
<1>4. InOrder' <=> OnRoadInOrder' \o queue' = Announced'
  BY DEF InOrder, OnRoadInOrder
<1>5. CASE InsertPlatoons
  <2>1. pending = PendingAtStart
    BY <1>5 DEF OrderInv, PendingInv, InsertPlatoons
  <2>2. /\ PendingInv' /\ pending' # PendingAtStart
        /\ ~(pending' = <<>> /\ traffic.manager = "join")
    BY <1>1, <1>5, <2>1 DEF PendingInv, PendingAtStart, InsertPlatoons
  <2>3. OnRoadInOrder \o queue = <<>>
    BY <1>3, <2>1 DEF Announced
  <2>4. OnRoadInOrder = <<>> /\ queue = <<>>
    BY <1>3, <2>3, ConcatEqualIffEmpty
  <2>5. /\ queue' = Entries("insertPlatoons") /\ OnRoadInOrder' = <<>>
        /\ OnRoadInOrder' \o queue' = Entries("insertPlatoons")
    <3>1. OnRoadInOrder' = OnRoadInOrder
      BY <1>5 DEF InsertPlatoons, OnRoadInOrder
    <3>2. queue' = <<>> \o Entries("insertPlatoons")
      BY <1>5, <2>4 DEF InsertPlatoons
    <3>3. <<>> \o Entries("insertPlatoons") = Entries("insertPlatoons")
      BY <1>2, ConcatEmptySeq
    <3>4. QED
      BY <2>4, <3>1, <3>2, <3>3
  <2>6. Announced' = Entries("insertPlatoons")
    BY <1>1, <1>2, <2>2 DEF Announced
  <2>7. QED
    BY <1>1, <1>2, <1>4, <1>5, <2>2, <2>5, <2>6 DEF OrderInv, InsertPlatoons
<1>6. CASE InsertJoiner
  <2>1. /\ traffic.manager = "join" /\ pending = <<"insertJoiner">> /\ pending' = <<>>
        /\ pending # PendingAtStart /\ pending # <<>>
    <3>1. Head(PendingAtStart) = "insertPlatoons" /\ Head(<<"insertJoiner">>) = "insertJoiner"
      BY DEF PendingAtStart
    <3>2. pending # PendingAtStart /\ pending # <<>>
      BY <1>6, <3>1 DEF InsertJoiner
    <3>3. traffic.manager = "join" /\ pending = <<"insertJoiner">>
      BY <3>2 DEF OrderInv, PendingInv
    <3>4. Tail(<<"insertJoiner">>) = <<>>
      OBVIOUS
    <3>5. QED
      BY <1>6, <3>2, <3>3, <3>4 DEF InsertJoiner
  <2>2. Announced = Entries("insertPlatoons")
    BY <2>1 DEF Announced
  <2>3. Announced' = Entries("insertPlatoons") \o Entries("insertJoiner")
    BY <1>1, <1>2, <2>1 DEF Announced, PendingAtStart
  <2>4. queue' = queue \o Entries("insertJoiner") /\ OnRoadInOrder' = OnRoadInOrder
    BY <1>6 DEF InsertJoiner, OnRoadInOrder
  <2>5. OnRoadInOrder \o (queue \o Entries("insertJoiner"))
          = (OnRoadInOrder \o queue) \o Entries("insertJoiner")
    <3>1. /\ OnRoadInOrder \in Seq(Queued) /\ queue \in Seq(Queued)
          /\ Entries("insertJoiner") \in Seq(Queued)
      BY <1>2, <1>3
    <3>2. (OnRoadInOrder \o queue) \o Entries("insertJoiner")
            = OnRoadInOrder \o (queue \o Entries("insertJoiner"))
      BY <3>1, ConcatAssociative, SMTT(20)
    <3>3. QED
      BY <3>2
  <2>6. InOrder'
    BY <1>3, <1>4, <2>2, <2>3, <2>4, <2>5
  <2>7. queue' \in Seq(Queued)
    BY <1>2, <1>3, <2>4
  <2>8. QED
    BY <1>1, <1>6, <2>1, <2>6, <2>7 DEF OrderInv, PendingInv, InsertJoiner
<1>7. ASSUME NEW k \in 1..Len(queue), InsertVehicles(k)
      PROVE  OrderInv'
  <2>1. /\ road' \in Seq(Placed) /\ queue' \in Seq(Queued) /\ vehiclesCount' \in [Type -> Nat]
    BY <1>7, TakenFacts
  <2>2. OnRoadInOrder' \o queue' = OnRoadInOrder \o queue
    BY <1>7, TakenInOrder
  <2>3. pending' = pending
    BY <1>7 DEF InsertVehicles
  <2>4. Announced' = Announced /\ PendingInv' = PendingInv
    BY <1>1, <1>2, <2>3 DEF Announced, PendingInv
  <2>5. QED
    BY <1>1, <1>3, <1>4, <2>1, <2>2, <2>4 DEF OrderInv
<1>8. CASE NextRun
  <2>1. /\ road' = <<>> /\ queue' = <<>> /\ pending' = PendingAtStart
        /\ vehiclesCount' = [type \in Type |-> 0]
    BY <1>8 DEF NextRun
  <2>2. Announced' = <<>>
    BY <1>1, <2>1 DEF Announced
  <2>3. OnRoadInOrder' = <<>>
    BY <2>1 DEF OnRoadInOrder
  <2>4. vehiclesCount' \in [Type -> Nat]
    BY <2>1
  <2>5. InOrder'
    BY <1>4, <2>1, <2>2, <2>3
  <2>6. QED
    BY <1>1, <2>1, <2>4, <2>5 DEF OrderInv, PendingInv
<1>9. CASE UNCHANGED vars
  <2>1. Announced' = Announced /\ OnRoadInOrder' = OnRoadInOrder
    BY <1>1, <1>2, <1>9 DEF Announced, OnRoadInOrder, vars
  <2>2. InOrder'
    BY <1>3, <1>4, <1>9, <2>1 DEF vars
  <2>3. QED
    BY <1>1, <1>9, <2>2 DEF OrderInv, PendingInv, vars
<1>10. QED
  BY <1>5, <1>6, <1>7, <1>8, <1>9 DEF Next

LEMMA OrderInvariant == Spec => []OrderInv
BY InitOrder, NextOrder, PTL DEF Spec

(* Whatever vehicles SUMO refuses and how often, the road and the queue    *)
(* together are the vehicles the traffic manager announced, in its order   *)
(* (TraCIBaseTrafficManager::insertVehicles).                              *)
THEOREM InsertionKeepsOrder == Spec => []InOrder
BY OrderInvariant, PTL DEF OrderInv

-----------------------------------------------------------------------------
(* Ids *)

(* Ids of a type grow along the road and stay below the counter.           *)
IdsInv ==
  /\ \A i \in 1..Len(road) : road[i].id < vehiclesCount[road[i].entry.type]
  /\ \A i, j \in 1..Len(road) :
       i < j /\ road[i].entry.type = road[j].entry.type => road[i].id < road[j].id

LEMMA RoadFacts ==
  ASSUME OrderInv
  PROVE  /\ Len(road) \in Nat /\ DOMAIN road = 1..Len(road)
         /\ \A i \in 1..Len(road) : road[i].id \in Nat /\ road[i].entry.type \in Type
<1>1. road \in Seq(Placed)
  BY DEF OrderInv
<1>2. \A i \in 1..Len(road) : road[i] \in Placed
  BY <1>1
<1>3. \A x \in Queued : x.type \in Type
  BY EntriesFacts DEF OrderInv, Event
<1>4. QED
  BY <1>1, <1>2, <1>3 DEF Placed

LEMMA TakenIds ==
  ASSUME OrderInv, OrderInv', IdsInv, NEW k \in 1..Len(queue), InsertVehicles(k)
  PROVE  IdsInv'
<1>1. PICK taken : taken = SubSeq(queue, 1, k)
  OBVIOUS
<1> DEFINE n == Len(road)
<1>2. /\ \A i \in 1..k : taken[i].type \in Type
      /\ \A i \in 1..k : /\ Number(taken, i) \in Nat
                         /\ Number(taken, i) >= vehiclesCount[taken[i].type]
                         /\ Number(taken, i) < vehiclesCount'[taken[i].type]
      /\ \A i, j \in 1..k : i < j /\ taken[i].type = taken[j].type =>
           Number(taken, i) < Number(taken, j)
      /\ Len(road') = n + k
      /\ \A i \in 1..n : road'[i] = road[i]
      /\ \A i \in 1..k : road'[n + i] = [id |-> Number(taken, i), entry |-> taken[i]]
  BY <1>1, TakenFacts, ZenonT(40)
<1>3. \A type \in Type : /\ vehiclesCount[type] \in Nat /\ vehiclesCount'[type] \in Nat
                         /\ vehiclesCount[type] <= vehiclesCount'[type]
  <2>1. \A type \in Type : /\ OfType(taken, type, k) \in Nat
                           /\ vehiclesCount'[type] = vehiclesCount[type] + OfType(taken, type, k)
    <3>1. k \in Nat
      BY DEF OrderInv
    <3>2. \A type \in Type : OfType(taken, type, k) \in Nat
      BY <3>1, OfTypeFacts
    <3>3. QED
      BY <1>1, <3>2, TakenFacts
  <2>2. QED
    BY <2>1 DEF OrderInv
<1>4. n \in Nat /\ k \in Nat /\ \A i \in 1..n : road[i].id \in Nat /\ road[i].entry.type \in Type
  BY RoadFacts DEF OrderInv
<1>5. ASSUME NEW i \in 1..k
      PROVE  road'[n + i].id = Number(taken, i) /\ road'[n + i].entry.type = taken[i].type
  <2>1. road'[n + i] = [id |-> Number(taken, i), entry |-> taken[i]]
    BY <1>2
  <2>2. QED
    BY <2>1
<1> HIDE DEF n
<1>6. ASSUME NEW i \in 1..(n + k)
      PROVE  i \in 1..n \/ \E m \in 1..k : i = n + m
  <2>1. CASE i <= n
    BY <1>4, <2>1
  <2>2. CASE i > n
    <3>1. i - n \in 1..k /\ i = n + (i - n)
      BY <1>4, <2>2
    <3>2. QED
      BY <3>1
  <2>3. QED
    BY <1>4, <2>1, <2>2
<1>7. ASSUME NEW i \in 1..(n + k)
      PROVE  road'[i].id < vehiclesCount'[road'[i].entry.type]
  <2>1. CASE i \in 1..n
    <3>1. road[i].id < vehiclesCount[road[i].entry.type]
      BY <2>1 DEF IdsInv, n
    <3>2. road'[i] = road[i]
      BY <1>2, <2>1
    <3>3. QED
      BY <1>3, <1>4, <2>1, <3>1, <3>2
  <2>2. CASE \E m \in 1..k : i = n + m
    BY <1>2, <1>5, <2>2
  <2>3. QED
    BY <1>6, <2>1, <2>2
<1>8. ASSUME NEW i \in 1..(n + k), NEW j \in 1..(n + k), i < j,
             road'[i].entry.type = road'[j].entry.type
      PROVE  road'[i].id < road'[j].id
  <2>1. CASE i \in 1..n /\ j \in 1..n
    BY <1>2, <1>8, <2>1 DEF IdsInv, n
  <2>2. CASE i \in 1..n /\ j \notin 1..n
    <3>1. PICK m \in 1..k : j = n + m
      BY <1>6, <2>2
    <3>2. road[i].id < vehiclesCount[road[i].entry.type] /\ road'[i] = road[i]
      BY <1>2, <2>2 DEF IdsInv, n
    <3>3. /\ road'[j].id = Number(taken, m) /\ road'[j].entry.type = taken[m].type
          /\ Number(taken, m) \in Nat /\ Number(taken, m) >= vehiclesCount[taken[m].type]
      BY <1>2, <1>5, <3>1
    <3>4. road[i].entry.type = taken[m].type
      BY <1>8, <3>2, <3>3
    <3>5. QED
      BY <1>3, <1>4, <2>2, <3>2, <3>3, <3>4
  <2>3. CASE i \notin 1..n
    <3>1. PICK m \in 1..k : i = n + m
      BY <1>6, <2>3
    <3>2. j \notin 1..n
      BY <1>4, <1>8, <3>1
    <3>3. PICK l \in 1..k : j = n + l
      BY <1>6, <3>2
    <3>4. m < l
      BY <1>4, <1>8, <3>1, <3>3
    <3>5. /\ road'[i].id = Number(taken, m) /\ road'[i].entry.type = taken[m].type
          /\ road'[j].id = Number(taken, l) /\ road'[j].entry.type = taken[l].type
      BY <1>5, <3>1, <3>3
    <3>6. taken[m].type = taken[l].type
      BY <1>8, <3>5
    <3>7. Number(taken, m) < Number(taken, l)
      BY <1>2, <3>4, <3>6
    <3>8. QED
      BY <3>5, <3>7
  <2>4. QED
    BY <2>1, <2>2, <2>3
<1>9. Len(road') = n + k
  BY <1>2
<1>10. QED
  BY <1>7, <1>8, <1>9 DEF IdsInv

LEMMA NextIds == OrderInv /\ OrderInv' /\ IdsInv /\ [Next]_vars => IdsInv'
<1> SUFFICES ASSUME OrderInv, OrderInv', IdsInv, [Next]_vars PROVE IdsInv'
  OBVIOUS
<1>1. ASSUME NEW k \in 1..Len(queue), InsertVehicles(k)
      PROVE  IdsInv'
  BY <1>1, TakenIds
<1>2. CASE NextRun
  BY <1>2 DEF NextRun, IdsInv
<1>3. CASE InsertPlatoons \/ InsertJoiner \/ UNCHANGED vars
  <2>1. road' = road /\ vehiclesCount' = vehiclesCount
    BY <1>3 DEF InsertPlatoons, InsertJoiner, vars
  <2>2. QED
    BY <2>1 DEF IdsInv
<1>4. QED
  BY <1>1, <1>2, <1>3 DEF Next

(* An id names one vehicle: getIdFromExternalId never gives two vehicles   *)
(* of a type the same place in a formation.                                *)
THEOREM IdsAreUnique == Spec => []UniqueIds
<1>1. Init => IdsInv
  BY DEF Init, IdsInv
<1>2. OrderInv /\ IdsInv => UniqueIds
  <2> SUFFICES ASSUME OrderInv, IdsInv, NEW i \in DOMAIN road, NEW j \in DOMAIN road,
                      i # j, road[i].entry.type = road[j].entry.type
               PROVE  road[i].id # road[j].id
    BY DEF UniqueIds
  <2>1. i \in 1..Len(road) /\ j \in 1..Len(road) /\ road[i].id \in Nat /\ road[j].id \in Nat
    BY RoadFacts
  <2>2. i < j \/ j < i
    BY <2>1
  <2>3. road[i].id < road[j].id \/ road[j].id < road[i].id
    BY <2>1, <2>2 DEF IdsInv
  <2>4. QED
    BY <2>1, <2>3
<1>3. QED
  BY <1>1, <1>2, OrderInvariant, NextIds, PTL DEF Spec

-----------------------------------------------------------------------------
(* Integer division *)

LEMMA DivMod ==
  ASSUME NEW a \in Nat, NEW d \in Nat \ {0}
  PROVE  /\ a \div d \in Nat /\ a % d \in 0..(d - 1)
         /\ a = d * (a \div d) + (a % d)
OBVIOUS

LEMMA DivModUnique ==
  ASSUME NEW d \in Nat \ {0}, NEW q \in Nat, NEW r \in 0..(d - 1),
         NEW p \in Nat, NEW s \in 0..(d - 1), d * q + r = d * p + s
  PROVE  q = p /\ r = s
<1>1. ASSUME NEW x \in Nat, NEW u \in 0..(d - 1), NEW y \in Nat, NEW v \in 0..(d - 1),
             d * x + u = d * y + v, x < y
      PROVE  FALSE
  <2>1. y - x \in Nat /\ y - x >= 1
    BY <1>1
  <2>2. d * (y - x) >= d
    BY <2>1
  <2>3. d * y = d * x + d * (y - x)
    BY <2>1
  <2>4. d * x \in Nat /\ d * y \in Nat /\ d * (y - x) \in Nat
    BY <2>1
  <2>5. QED
    BY <1>1, <2>2, <2>3, <2>4
<1>2. ~(q < p) /\ ~(p < q)
  BY <1>1
<1>3. q = p
  BY <1>2
<1>4. QED
  BY <1>3

LEMMA DivOfProduct ==
  ASSUME NEW d \in Nat \ {0}, NEW q \in Nat, NEW r \in 0..(d - 1)
  PROVE  (d * q + r) \div d = q /\ (d * q + r) % d = r
<1> DEFINE a == d * q + r
<1>1. a \in Nat
  OBVIOUS
<1>2. a \div d \in Nat /\ a % d \in 0..(d - 1) /\ a = d * (a \div d) + (a % d)
  BY <1>1, DivMod
<1>3. QED
  BY <1>2, DivModUnique

LEMMA ProductOrder ==
  ASSUME NEW d \in Nat, NEW a \in Nat, NEW b \in Nat, a <= b
  PROVE  /\ d * a \in Nat /\ d * b \in Nat /\ d * a <= d * b
         /\ a < b => d * a + d <= d * b
<1>1. b - a \in Nat /\ d * (b - a) \in Nat
  OBVIOUS
<1>2. d * b = d * a + d * (b - a)
  BY <1>1
<1>3. d * a \in Nat /\ d * b \in Nat
  OBVIOUS
<1>4. a < b => d * (b - a) >= d
  BY <1>1
<1>5. QED
  BY <1>1, <1>2, <1>3, <1>4

(* Rows of a platoon in a lane are counted alike from either side.         *)
LEMMA DivTwice ==
  ASSUME NEW a \in Nat, NEW b \in Nat \ {0}, NEW c \in Nat \ {0}
  PROVE  (a \div b) \div c = (a \div c) \div b
<1>1. ASSUME NEW x \in Nat \ {0}, NEW y \in Nat \ {0}
      PROVE  /\ (a \div x) \div y \in Nat
             /\ \E r \in 0..(x * y - 1) : a = (x * y) * ((a \div x) \div y) + r
  <2>1. PICK p \in Nat, r \in 0..(x - 1) : p = a \div x /\ a = x * p + r
    BY DivMod
  <2>2. PICK q \in Nat, s \in 0..(y - 1) : q = p \div y /\ p = y * q + s
    BY DivMod
  <2>3. a = (x * y) * q + (x * s + r)
    <3>1. x * (y * q + s) = (x * y) * q + x * s
      OBVIOUS
    <3>2. (x * y) * q \in Nat /\ x * s \in Nat
      OBVIOUS
    <3>3. QED
      BY <2>1, <2>2, <3>1, <3>2, SMTT(30)
  <2>4. x * s + r \in 0..(x * y - 1)
    <3>1. x * s + x <= x * y /\ x * s \in Nat /\ x * y \in Nat
      BY ProductOrder
    <3>2. QED
      BY <3>1
  <2>5. QED
    BY <2>1, <2>2, <2>3, <2>4
<1>2. b * c \in Nat \ {0} /\ b * c = c * b
  OBVIOUS
<1>3. PICK r \in 0..(b * c - 1) : a = (b * c) * ((a \div b) \div c) + r
  BY <1>1
<1>4. PICK s \in 0..(b * c - 1) : a = (b * c) * ((a \div c) \div b) + s
  BY <1>1, <1>2
<1>5. (a \div b) \div c \in Nat /\ (a \div c) \div b \in Nat
  BY <1>1
<1> DEFINE n == b * c
           q == (a \div b) \div c
           p == (a \div c) \div b
<1>6. n \in Nat \ {0} /\ q \in Nat /\ p \in Nat /\ n * q + r = n * p + s
  BY <1>2, <1>3, <1>4, <1>5
<1> HIDE DEF n, q, p
<1>7. r \in 0..(n - 1) /\ s \in 0..(n - 1)
  BY DEF n
<1>8. q = p
  BY <1>6, <1>7, DivModUnique
<1>9. QED
  BY <1>8 DEF q, p

-----------------------------------------------------------------------------
(* What the traffic managers plan: the formation of every vehicle          *)

CarIds == 0..(Cars - 1)

(* A place in a platoon is one vehicle's, the places of a platoon leave no *)
(* gap, a platoon keeps to a lane, and in that lane its vehicles follow    *)
(* each other with nobody in between.                                      *)
Typed == \A a \in CarIds :
  PlannedCar(a) \in [id : {a}, platoon : Nat, place : Nat,
                     lane : 0..(traffic.nLanes - 1), position : Int]
SameFormation(a, b) == PlannedCar(a).platoon = PlannedCar(b).platoon
OnePerPlace == \A a, b \in CarIds :
  SameFormation(a, b) /\ PlannedCar(a).place = PlannedCar(b).place => a = b
NoGap == \A a \in CarIds : \A i \in 0..PlannedCar(a).place :
  \E b \in CarIds : SameFormation(a, b) /\ PlannedCar(b).place = i
OneLaneEach == \A a, b \in CarIds :
  SameFormation(a, b) => PlannedCar(a).lane = PlannedCar(b).lane
Follows(a, b) == SameFormation(a, b) /\ PlannedCar(b).place = PlannedCar(a).place + 1
Before(x, y) == x.lane = y.lane /\ x.position > y.position
CloseUp == \A a, b \in CarIds : Follows(a, b) =>
  /\ Before(PlannedCar(a), PlannedCar(b))
  /\ \A c \in CarIds : ~(Before(PlannedCar(a), PlannedCar(c)) /\ Before(PlannedCar(c), PlannedCar(b)))

Plan == Typed /\ OnePerPlace /\ NoGap /\ OneLaneEach /\ CloseUp

LEMMA SetupTypes ==
  ASSUME traffic \in Setups
  PROVE  /\ traffic.manager \in {"platoons", "join", "human", "ring", "test"}
         /\ traffic.nCars \in Nat /\ traffic.gap \in Nat /\ traffic.platoonGap \in Nat
         /\ traffic.humanCars \in Nat
         /\ traffic.platoonSize \in Nat \ {0} /\ traffic.nLanes \in Nat \ {0}
         /\ traffic.humanLanes \in Nat \ {0}
         /\ traffic.sizes \in Seq(Nat \ {0})
         /\ Rows \in Nat /\ NPlatoons \in Nat
<1>1. traffic.nCars \in Nat /\ traffic.platoonSize \in Nat \ {0} /\ traffic.nLanes \in Nat \ {0}
  BY SetupAssumption
<1>2. Rows \in Nat
  BY <1>1, DivMod DEF Rows
<1>3. traffic.nCars \div traffic.platoonSize \in Nat
  BY <1>1, DivMod
<1>4. NPlatoons \in Nat
  BY <1>1, <1>3, DivMod DEF NPlatoons
<1>5. QED
  BY <1>1, <1>2, <1>4, SetupAssumption

-----------------------------------------------------------------------------
(* Platoons in rows *)

(* The row of place r in the g-th platoon of a lane.                       *)
RowOf(g, r) == traffic.platoonSize * g + r

LEMMA RowOfFacts ==
  ASSUME traffic \in Setups, NEW g \in Nat, NEW r \in 0..(traffic.platoonSize - 1)
  PROVE  /\ RowOf(g, r) \in Nat
         /\ RowOf(g, r) \div traffic.platoonSize = g /\ RowPlace(RowOf(g, r)) = r
         /\ RowOf(g, r) - g \in Nat
<1>1. traffic.platoonSize \in Nat \ {0}
  BY SetupTypes
<1>2. traffic.platoonSize * g \in Nat /\ traffic.platoonSize * g >= g
  <2>1. \A s \in Nat \ {0} : s * g \in Nat /\ s * g >= g
    <3> TAKE s \in Nat \ {0}
    <3>1. (s - 1) * g \in Nat /\ s * g = (s - 1) * g + g
      OBVIOUS
    <3>2. QED
      BY <3>1
  <2>2. QED
    BY <1>1, <2>1
<1>3. (RowOf(g, r) \div traffic.platoonSize) = g /\ (RowOf(g, r) % traffic.platoonSize) = r
  BY <1>1, DivOfProduct DEF RowOf
<1>4. RowOf(g, r) \in Nat /\ RowOf(g, r) - g \in Nat
  BY <1>1, <1>2 DEF RowOf
<1>5. QED
  BY <1>3, <1>4 DEF RowPlace

LEMMA RowCarOf ==
  ASSUME traffic \in Setups, NEW g \in Nat, NEW r \in 0..(traffic.platoonSize - 1),
         NEW l \in 0..(traffic.nLanes - 1), NEW id, id = traffic.nLanes * RowOf(g, r) + l
  PROVE  RowCar(id) = [id |-> id, platoon |-> g * traffic.nLanes + l, place |-> r,
                       lane |-> l, position |-> RowPosition(RowOf(g, r))]
<1>1. traffic.nLanes \in Nat \ {0}
  BY SetupTypes
<1>2. RowOf(g, r) \in Nat
  BY RowOfFacts
<1>3. id \div traffic.nLanes = RowOf(g, r) /\ id % traffic.nLanes = l
  BY <1>1, <1>2, DivOfProduct
<1>4. PlatoonOf(RowOf(g, r), l) = g * traffic.nLanes + l
  BY RowOfFacts DEF PlatoonOf
<1>5. RowPlace(RowOf(g, r)) = r
  BY RowOfFacts
<1>6. QED
  BY <1>3, <1>4, <1>5 DEF RowCar

LEMMA RowCarIs ==
  ASSUME traffic \in Setups, NEW id \in 0..(Rows * traffic.nLanes - 1)
  PROVE  \E g \in Nat, r \in 0..(traffic.platoonSize - 1), l \in 0..(traffic.nLanes - 1) :
           /\ id = traffic.nLanes * RowOf(g, r) + l
           /\ RowOf(g, r) < Rows
<1>1. traffic.nLanes \in Nat \ {0} /\ traffic.platoonSize \in Nat \ {0} /\ Rows \in Nat
  BY SetupTypes
<1>2. Rows * traffic.nLanes \in Nat /\ id \in Nat /\ id < Rows * traffic.nLanes
  BY <1>1
<1>3. PICK row \in Nat, l \in 0..(traffic.nLanes - 1) : id = traffic.nLanes * row + l
  <2>1. /\ id \div traffic.nLanes \in Nat /\ id % traffic.nLanes \in 0..(traffic.nLanes - 1)
        /\ id = traffic.nLanes * (id \div traffic.nLanes) + (id % traffic.nLanes)
    BY <1>1, <1>2, DivMod
  <2>2. QED
    BY <2>1
<1>4. PICK g \in Nat, r \in 0..(traffic.platoonSize - 1) : row = RowOf(g, r)
  BY <1>1, <1>3, DivMod DEF RowOf
<1>5. row < Rows
  <2>1. SUFFICES ASSUME Rows <= row PROVE FALSE
    BY <1>1, <1>3
  <2>2. traffic.nLanes * Rows <= traffic.nLanes * row /\ traffic.nLanes * row \in Nat
    BY <1>1, <1>3, <2>1, ProductOrder
  <2>3. traffic.nLanes * Rows = Rows * traffic.nLanes
    BY <1>1
  <2>4. QED
    BY <1>1, <1>2, <1>3, <2>2, <2>3
<1>6. QED
  BY <1>3, <1>4, <1>5

LEMMA RowsInOrder ==
  ASSUME NEW s \in Nat \ {0}, NEW g \in Nat, NEW r \in 0..(s - 1),
         NEW h \in Nat, NEW q \in 0..(s - 1), s * g + r < s * h + q
  PROVE  g <= h /\ s * g + r - g <= s * h + q - h
<1>1. s * g \in Nat /\ s * h \in Nat
  OBVIOUS
<1>2. ~(h < g)
  <2>1. SUFFICES ASSUME h < g PROVE FALSE
    OBVIOUS
  <2>2. s * h + s <= s * g
    BY <2>1, ProductOrder
  <2>3. QED
    BY <1>1, <2>2
<1>3. CASE g < h
  <2>1. PICK t \in Nat : s = t + 1
    <3>1. s - 1 \in Nat /\ s = (s - 1) + 1
      OBVIOUS
    <3>2. QED
      BY <3>1
  <2>2. t * g + t <= t * h /\ t * g \in Nat /\ t * h \in Nat
    BY <1>3, ProductOrder
  <2>3. s * g = t * g + g /\ s * h = t * h + h
    BY <2>1
  <2>4. QED
    BY <1>3, <2>1, <2>2, <2>3
<1>4. CASE g = h
  BY <1>1, <1>4
<1>5. QED
  BY <1>2, <1>3, <1>4

LEMMA LengthTypes ==
  ASSUME traffic \in Setups
  PROVE  /\ PlatoonLength \in Nat /\ TotalLength \in Int
         /\ PlatoonLength = traffic.platoonSize * VehicleLength
                              + (traffic.platoonSize - 1) * traffic.gap
         /\ TotalLength = NPlatoons * PlatoonLength + (NPlatoons - 1) * traffic.platoonGap
<1>1. /\ traffic.platoonSize \in Nat \ {0} /\ traffic.gap \in Nat
      /\ traffic.platoonGap \in Nat /\ NPlatoons \in Nat
  BY SetupTypes
<1>2. traffic.platoonSize * VehicleLength \in Nat
      /\ (traffic.platoonSize - 1) * traffic.gap \in Nat
  BY <1>1 DEF VehicleLength
<1>3. PlatoonLength \in Nat
  BY <1>2 DEF PlatoonLength
<1>4. NPlatoons * PlatoonLength \in Nat /\ (NPlatoons - 1) * traffic.platoonGap \in Int
  BY <1>1, <1>3
<1>5. QED
  BY <1>3, <1>4 DEF PlatoonLength, TotalLength

LEMMA RowPositionIs ==
  ASSUME traffic \in Setups, NEW g \in Nat, NEW r \in 0..(traffic.platoonSize - 1)
  PROVE  /\ RowPosition(RowOf(g, r)) \in Int
         /\ RowPosition(RowOf(g, r)) =
              TotalLength - RowOf(g, r) * 4 - (RowOf(g, r) - g) * traffic.gap
                - g * traffic.platoonGap
<1>1. /\ RowOf(g, r) \in Nat /\ RowOf(g, r) - g \in Nat
      /\ RowOf(g, r) \div traffic.platoonSize = g
  BY RowOfFacts
<1>2. /\ (RowOf(g, r) - g) * traffic.gap \in Nat /\ g * traffic.platoonGap \in Nat
      /\ TotalLength \in Int /\ RowOf(g, r) * 4 \in Nat
  <2>1. \A a, b \in Nat : a * b \in Nat
    OBVIOUS
  <2>2. traffic.gap \in Nat /\ traffic.platoonGap \in Nat /\ TotalLength \in Int
    BY SetupTypes, LengthTypes
  <2>3. QED
    BY <1>1, <2>1, <2>2
<1>3. RowPosition(RowOf(g, r)) =
        TotalLength - RowOf(g, r) * 4 - (RowOf(g, r) - g) * traffic.gap
          - g * traffic.platoonGap
  BY <1>1 DEF RowPosition, VehicleLength
<1>4. QED
  BY <1>2, <1>3

(* Every row is behind the rows before it.                                 *)
LEMMA RowsGoBack ==
  ASSUME traffic \in Setups, NEW g \in Nat, NEW r \in 0..(traffic.platoonSize - 1),
         NEW h \in Nat, NEW q \in 0..(traffic.platoonSize - 1), RowOf(g, r) < RowOf(h, q)
  PROVE  RowPosition(RowOf(g, r)) > RowPosition(RowOf(h, q))
<1>1. /\ traffic.platoonSize \in Nat \ {0} /\ traffic.gap \in Nat /\ traffic.platoonGap \in Nat
  BY SetupTypes
<1>2. g <= h /\ RowOf(g, r) - g <= RowOf(h, q) - h
  <2>1. PICK s \in Nat \ {0} : s = traffic.platoonSize
    BY <1>1
  <2>2. r \in 0..(s - 1) /\ q \in 0..(s - 1) /\ s * g + r < s * h + q
    BY <2>1 DEF RowOf
  <2>3. g <= h /\ s * g + r - g <= s * h + q - h
    BY <2>2, RowsInOrder, Zenon
  <2>4. QED
    BY <2>1, <2>3 DEF RowOf
<1>3. PICK x \in Nat : x = RowOf(g, r)
  BY RowOfFacts
<1>4. PICK y \in Nat : y = RowOf(h, q)
  BY RowOfFacts
<1>5. x - g \in Nat /\ y - h \in Nat
  BY <1>3, <1>4, RowOfFacts
<1>6. /\ (x - g) * traffic.gap <= (y - h) * traffic.gap
      /\ (x - g) * traffic.gap \in Nat /\ (y - h) * traffic.gap \in Nat
  <2>1. \A c, a, b \in Nat : a <= b => c * a <= c * b /\ c * a \in Nat /\ c * b \in Nat
    BY ProductOrder
  <2>2. \A c, a \in Nat : c * a = a * c
    OBVIOUS
  <2>3. QED
    BY <1>1, <1>2, <1>3, <1>4, <1>5, <2>1, <2>2
<1>7. /\ g * traffic.platoonGap <= h * traffic.platoonGap
      /\ g * traffic.platoonGap \in Nat /\ h * traffic.platoonGap \in Nat
  <2>1. \A c, a, b \in Nat : a <= b => c * a <= c * b /\ c * a \in Nat /\ c * b \in Nat
    BY ProductOrder
  <2>2. \A c, a \in Nat : c * a = a * c
    OBVIOUS
  <2>3. QED
    BY <1>1, <1>2, <2>1, <2>2
<1>8. /\ RowPosition(RowOf(g, r)) =
           TotalLength - x * 4 - (x - g) * traffic.gap - g * traffic.platoonGap
      /\ RowPosition(RowOf(h, q)) =
           TotalLength - y * 4 - (y - h) * traffic.gap - h * traffic.platoonGap
      /\ TotalLength \in Int /\ x < y
  BY <1>3, <1>4, RowPositionIs, LengthTypes
<1>9. QED
  BY <1>6, <1>7, <1>8

(* The rows of complete platoons are on the road, the others are before    *)
(* its start, where no vehicle without a platoon gets between them.        *)
LEMMA RowsOnRoad ==
  ASSUME traffic \in Setups, NEW g \in Nat, NEW r \in 0..(traffic.platoonSize - 1)
  PROVE  /\ g < NPlatoons => RowPosition(RowOf(g, r)) > 0
         /\ NPlatoons <= g => RowPosition(RowOf(g, r)) <= 0
<1>1. PICK s \in Nat \ {0} : s = traffic.platoonSize
  BY SetupTypes
<1>2. PICK m \in Nat : m = NPlatoons
  BY SetupTypes
<1>3. PICK gap \in Nat, far \in Nat : gap = traffic.gap /\ far = traffic.platoonGap
  BY SetupTypes
<1>4. PICK t \in Nat : s = t + 1
  <2>1. s - 1 \in Nat /\ s = (s - 1) + 1
    OBVIOUS
  <2>2. QED
    BY <2>1
<1> DEFINE x == s * g + r
           p == RowPosition(RowOf(g, r))
<1>5. r \in 0..t /\ x \in Nat /\ x = t * g + g + r /\ x - g = t * g + r /\ t * g + r \in Nat
  <2>1. s * g = t * g + g /\ t * g \in Nat
    BY <1>4
  <2>2. QED
    BY <1>1, <1>4, <2>1
<1>6. TotalLength = m * (s * 4 + t * gap) + (m - 1) * far
  <2>1. PlatoonLength = s * 4 + t * gap
    BY <1>1, <1>3, <1>4, LengthTypes DEF VehicleLength
  <2>2. QED
    BY <1>2, <1>3, <2>1, LengthTypes
<1>7. p = TotalLength - x * 4 - (t * g + r) * gap - g * far
  BY <1>1, <1>3, <1>5, RowPositionIs DEF RowOf
<1> HIDE DEF x, p
<1>8. TotalLength = (t * m) * 4 + m * 4 + (t * m) * gap + m * far - far
  <2>1. m * (s * 4 + t * gap) = (t * m) * 4 + m * 4 + (t * m) * gap
    BY <1>4
  <2>2. (m - 1) * far = m * far - far
    OBVIOUS
  <2>3. (t * m) * gap \in Nat /\ m * far \in Nat /\ t * m \in Nat
    OBVIOUS
  <2>4. QED
    BY <1>6, <2>1, <2>2, <2>3
<1>9. /\ (t * m) * gap \in Nat /\ m * far \in Nat /\ t * m \in Nat
      /\ (t * g + r) * gap \in Nat /\ g * far \in Nat /\ t * g \in Nat
  <2>1. \A a, b \in Nat : a * b \in Nat
    OBVIOUS
  <2>2. QED
    BY <1>5, <2>1
<1>10. \A a, b, c \in Nat : a <= b => a * c <= b * c /\ (a < b => a * c + c <= b * c)
  <2>1. \A c, a, b \in Nat : a <= b => c * a <= c * b /\ (a < b => c * a + c <= c * b)
    BY ProductOrder
  <2>2. \A c, a \in Nat : c * a = a * c
    OBVIOUS
  <2>3. QED
    BY <2>1, <2>2
<1>11. CASE g < m
  <2>1. t * g + t <= t * m
    BY <1>11, ProductOrder
  <2>2. t * g + r <= t * m /\ x + 1 <= t * m + m
    BY <1>4, <1>5, <1>9, <1>11, <2>1
  <2>3. (t * g + r) * gap <= (t * m) * gap
    BY <1>5, <1>9, <1>10, <2>2
  <2>4. g * far + far <= m * far
    BY <1>10, <1>11
  <2>5. p > 0
    BY <1>5, <1>7, <1>8, <1>9, <2>2, <2>3, <2>4
  <2>6. QED
    BY <1>2, <1>11, <2>5 DEF p
<1>12. CASE m <= g
  <2>1. t * m <= t * g
    BY <1>12, ProductOrder
  <2>2. t * m <= t * g + r /\ t * m + m <= x
    BY <1>4, <1>5, <1>9, <1>12, <2>1
  <2>3. (t * m) * gap <= (t * g + r) * gap
    BY <1>5, <1>9, <1>10, <2>2
  <2>4. m * far <= g * far
    BY <1>10, <1>12
  <2>5. p <= 0
    BY <1>5, <1>7, <1>8, <1>9, <2>2, <2>3, <2>4
  <2>6. QED
    BY <1>2, <1>12, <2>5 DEF p
<1>13. QED
  BY <1>2, <1>11, <1>12

(* Vehicle a is in lane l, at place r of that lane's platoon g.            *)
RowSeat(a, g, r, l) ==
  /\ a = traffic.nLanes * RowOf(g, r) + l
  /\ RowOf(g, r) < Rows
  /\ PlannedCar(a) = [id |-> a, platoon |-> g * traffic.nLanes + l, place |-> r,
                      lane |-> l, position |-> RowPosition(RowOf(g, r))]

LEMMA CarsTypes ==
  ASSUME traffic \in Setups
  PROVE  /\ Cars \in Nat /\ CarIds \subseteq Nat
         /\ \A a \in CarIds : a < Cars
         /\ traffic.manager \notin {"ring", "test"} => Cars = Rows * traffic.nLanes
         /\ traffic.manager = "ring" => Cars = RingCars
         /\ traffic.manager = "test" => CarIds = {}
<1>1. Rows * traffic.nLanes \in Nat
  BY SetupTypes
<1>2. Cars \in Nat
  BY <1>1, SeatsFinite DEF Cars
<1>3. CarIds \subseteq Nat /\ \A a \in CarIds : a < Cars
  BY <1>2 DEF CarIds
<1>4. traffic.manager = "test" => CarIds = {}
  BY DEF Cars, CarIds
<1>5. QED
  BY <1>2, <1>3, <1>4 DEF Cars

LEMMA RowSeatOf ==
  ASSUME traffic \in Setups, traffic.manager # "ring", NEW a \in CarIds
  PROVE  \E g \in Nat, r \in 0..(traffic.platoonSize - 1), l \in 0..(traffic.nLanes - 1) :
           RowSeat(a, g, r, l)
<1>1. traffic.manager # "test"
  BY CarsTypes
<1>2. Cars = Rows * traffic.nLanes
  BY <1>1, CarsTypes
<1>3. a \in 0..(Rows * traffic.nLanes - 1)
  BY <1>2 DEF CarIds
<1>4. PICK g \in Nat, r \in 0..(traffic.platoonSize - 1), l \in 0..(traffic.nLanes - 1) :
        a = traffic.nLanes * RowOf(g, r) + l /\ RowOf(g, r) < Rows
  BY <1>3, RowCarIs
<1>5. PlannedCar(a) = [id |-> a, platoon |-> g * traffic.nLanes + l, place |-> r,
                       lane |-> l, position |-> RowPosition(RowOf(g, r))]
  BY <1>4, RowCarOf DEF PlannedCar
<1>6. QED
  BY <1>4, <1>5 DEF RowSeat

(* A row and a lane of it hold a vehicle.                                  *)
LEMMA RowSeatTaken ==
  ASSUME traffic \in Setups, traffic.manager # "ring", CarIds # {},
         NEW g \in Nat, NEW r \in 0..(traffic.platoonSize - 1),
         NEW l \in 0..(traffic.nLanes - 1), RowOf(g, r) < Rows
  PROVE  \E a \in CarIds : RowSeat(a, g, r, l)
<1> DEFINE a == traffic.nLanes * RowOf(g, r) + l
<1>1. PICK n \in Nat \ {0} : n = traffic.nLanes
  BY SetupTypes
<1>2. PICK row \in Nat : row = RowOf(g, r)
  BY RowOfFacts
<1>3. traffic.manager # "test" /\ Cars = Rows * traffic.nLanes
  BY CarsTypes
<1>4. n * row + n <= n * Rows /\ n * row \in Nat /\ n * Rows \in Nat
  <2>1. PICK all \in Nat : all = Rows
    BY SetupTypes
  <2>2. n \in Nat /\ row < all
    BY <1>1, <1>2, <2>1
  <2>3. n * row + n <= n * all /\ n * row \in Nat /\ n * all \in Nat
    BY <2>2, ProductOrder
  <2>4. QED
    BY <2>1, <2>3
<1>5. n * Rows = Cars
  BY <1>1, <1>3, SetupTypes
<1>6. a \in CarIds
  BY <1>1, <1>2, <1>4, <1>5 DEF CarIds
<1>7. PlannedCar(a) = [id |-> a, platoon |-> g * traffic.nLanes + l, place |-> r,
                       lane |-> l, position |-> RowPosition(RowOf(g, r))]
  BY RowCarOf DEF PlannedCar
<1>8. RowSeat(a, g, r, l)
  BY <1>7 DEF RowSeat
<1>9. QED
  BY <1>6, <1>8

(* Platoons of a lane and the lanes are told apart by the platoon's id.    *)
LEMMA RowSameFormation ==
  ASSUME traffic \in Setups,
         NEW a, NEW g \in Nat, NEW r, NEW l \in 0..(traffic.nLanes - 1), RowSeat(a, g, r, l),
         NEW b, NEW h \in Nat, NEW q, NEW k \in 0..(traffic.nLanes - 1), RowSeat(b, h, q, k)
  PROVE  SameFormation(a, b) <=> g = h /\ l = k
<1>1. PICK n \in Nat \ {0} : n = traffic.nLanes
  BY SetupTypes
<1>2. PlannedCar(a).platoon = g * n + l /\ PlannedCar(b).platoon = h * n + k
  BY <1>1 DEF RowSeat
<1>3. g * n = n * g /\ h * n = n * h
  OBVIOUS
<1>4. n * g + l = n * h + k => g = h /\ l = k
  BY <1>1, DivModUnique
<1>5. QED
  BY <1>2, <1>3, <1>4 DEF SameFormation

LEMMA RowPlan ==
  ASSUME traffic \in Setups, traffic.manager # "ring"
  PROVE  Plan
<1> DEFINE S == 0..(traffic.platoonSize - 1)
           L == 0..(traffic.nLanes - 1)
<1>1. /\ traffic.nLanes \in Nat \ {0} /\ traffic.platoonSize \in Nat \ {0} /\ Rows \in Nat
      /\ CarIds \subseteq Nat
  BY SetupTypes, CarsTypes
<1>2. \A a \in CarIds : \E g \in Nat, r \in S, l \in L : RowSeat(a, g, r, l)
  BY RowSeatOf
<1>3. \A a, g, r, l : RowSeat(a, g, r, l) =>
        /\ PlannedCar(a).place = r /\ PlannedCar(a).lane = l
        /\ PlannedCar(a).position = RowPosition(RowOf(g, r))
  BY DEF RowSeat
<1> HIDE DEF S, L
<1>4. Typed
  <2> SUFFICES ASSUME NEW a \in CarIds
               PROVE  PlannedCar(a) \in [id : {a}, platoon : Nat, place : Nat,
                                         lane : 0..(traffic.nLanes - 1), position : Int]
    BY DEF Typed
  <2>1. PICK g \in Nat, r \in S, l \in L : RowSeat(a, g, r, l)
    BY <1>2
  <2>2. RowPosition(RowOf(g, r)) \in Int
    BY RowPositionIs DEF S
  <2>3. g * traffic.nLanes + l \in Nat /\ r \in Nat
    BY <1>1 DEF L, S
  <2>4. QED
    BY <2>1, <2>2, <2>3 DEF RowSeat, L
<1>5. OnePerPlace
  <2> SUFFICES ASSUME NEW a \in CarIds, NEW b \in CarIds, SameFormation(a, b),
                      PlannedCar(a).place = PlannedCar(b).place
               PROVE  a = b
    BY DEF OnePerPlace
  <2>1. PICK g \in Nat, r \in S, l \in L : RowSeat(a, g, r, l)
    BY <1>2
  <2>2. PICK h \in Nat, q \in S, k \in L : RowSeat(b, h, q, k)
    BY <1>2
  <2>3. g = h /\ l = k
    BY <2>1, <2>2, RowSameFormation DEF L
  <2>4. r = q
    BY <1>3, <2>1, <2>2
  <2>5. QED
    BY <2>1, <2>2, <2>3, <2>4 DEF RowSeat
<1>6. NoGap
  <2> SUFFICES ASSUME NEW a \in CarIds, NEW i \in 0..PlannedCar(a).place
               PROVE  \E b \in CarIds : SameFormation(a, b) /\ PlannedCar(b).place = i
    BY DEF NoGap
  <2>1. PICK g \in Nat, r \in S, l \in L : RowSeat(a, g, r, l)
    BY <1>2
  <2>2. i \in S /\ i <= r
    BY <1>1, <1>3, <2>1 DEF S
  <2>3. RowOf(g, i) < Rows
    <3>1. RowOf(g, r) < Rows
      BY <2>1 DEF RowSeat
    <3>2. traffic.platoonSize * g \in Nat
      BY <1>1
    <3>3. QED
      BY <1>1, <2>2, <3>1, <3>2 DEF RowOf, S
  <2>4. PICK b \in CarIds : RowSeat(b, g, i, l)
    BY <2>2, <2>3, RowSeatTaken DEF S, L
  <2>5. SameFormation(a, b)
    BY <2>1, <2>4, RowSameFormation DEF L
  <2>6. QED
    BY <1>3, <2>4, <2>5
<1>7. OneLaneEach
  <2> SUFFICES ASSUME NEW a \in CarIds, NEW b \in CarIds, SameFormation(a, b)
               PROVE  PlannedCar(a).lane = PlannedCar(b).lane
    BY DEF OneLaneEach
  <2>1. PICK g \in Nat, r \in S, l \in L : RowSeat(a, g, r, l)
    BY <1>2
  <2>2. PICK h \in Nat, q \in S, k \in L : RowSeat(b, h, q, k)
    BY <1>2
  <2>3. l = k
    BY <2>1, <2>2, RowSameFormation DEF L
  <2>4. QED
    BY <1>3, <2>1, <2>2, <2>3
<1>8. CloseUp
  <2> SUFFICES ASSUME NEW a \in CarIds, NEW b \in CarIds, Follows(a, b)
               PROVE  /\ Before(PlannedCar(a), PlannedCar(b))
                      /\ \A c \in CarIds : ~(/\ Before(PlannedCar(a), PlannedCar(c))
                                             /\ Before(PlannedCar(c), PlannedCar(b)))
    BY DEF CloseUp
  <2>1. PICK g \in Nat, r \in S, l \in L : RowSeat(a, g, r, l)
    BY <1>2
  <2>2. PICK h \in Nat, q \in S, k \in L : RowSeat(b, h, q, k)
    BY <1>2
  <2>3. g = h /\ l = k /\ q = r + 1
    <3>1. g = h /\ l = k
      BY <2>1, <2>2, RowSameFormation DEF L, Follows
    <3>2. QED
      BY <1>3, <2>1, <2>2, <3>1 DEF Follows
  <2>4. RowOf(h, q) = RowOf(g, r) + 1
    <3>1. traffic.platoonSize * g \in Nat
      BY <1>1
    <3>2. QED
      BY <1>1, <2>3, <3>1 DEF RowOf, S
  <2>5. \A e \in Nat, u \in S : RowOf(e, u) \in Nat
    BY RowOfFacts DEF S
  <2>6. RowPosition(RowOf(g, r)) > RowPosition(RowOf(h, q))
    BY <2>4, <2>5, RowsGoBack DEF S
  <2>7. Before(PlannedCar(a), PlannedCar(b))
    BY <1>3, <2>1, <2>2, <2>3, <2>6 DEF Before
  <2>8. ASSUME NEW c \in CarIds, Before(PlannedCar(a), PlannedCar(c)),
               Before(PlannedCar(c), PlannedCar(b))
        PROVE  FALSE
    <3>1. PICK e \in Nat, u \in S, j \in L : RowSeat(c, e, u, j)
      BY <1>2
    <3>2. /\ RowPosition(RowOf(g, r)) > RowPosition(RowOf(e, u))
          /\ RowPosition(RowOf(e, u)) > RowPosition(RowOf(h, q))
      BY <1>3, <2>1, <2>2, <2>8, <3>1 DEF Before
    <3>3. \A x \in Nat, y \in S : RowPosition(RowOf(x, y)) \in Int
      BY RowPositionIs DEF S
    <3>4. ~(RowOf(e, u) < RowOf(g, r))
      <4>1. RowOf(e, u) < RowOf(g, r) => RowPosition(RowOf(e, u)) > RowPosition(RowOf(g, r))
        BY RowsGoBack DEF S
      <4>2. QED
        BY <3>2, <3>3, <4>1
    <3>5. ~(RowOf(h, q) < RowOf(e, u))
      <4>1. RowOf(h, q) < RowOf(e, u) => RowPosition(RowOf(h, q)) > RowPosition(RowOf(e, u))
        BY RowsGoBack DEF S
      <4>2. QED
        BY <3>2, <3>3, <4>1
    <3>6. RowOf(e, u) = RowOf(g, r) \/ RowOf(e, u) = RowOf(h, q)
      BY <2>4, <2>5, <3>4, <3>5
    <3>7. RowPosition(RowOf(g, r)) > RowPosition(RowOf(g, r)) \/
          RowPosition(RowOf(h, q)) > RowPosition(RowOf(h, q))
      BY <3>2, <3>6
    <3>8. QED
      BY <3>3, <3>7
  <2>9. QED
    BY <2>7, <2>8
<1>9. QED
  BY <1>4, <1>5, <1>6, <1>7, <1>8 DEF Plan

-----------------------------------------------------------------------------
(* Platoons on a ring *)

RingPlatoons == DOMAIN traffic.sizes

LEMMA LeastNatural ==
  ASSUME NEW T \in SUBSET Nat, T # {}
  PROVE  \E x \in T : \A y \in T : x <= y
<1> DEFINE F == FiniteSubsetsOf(Nat)
           R == StrictSubsetOrdering(Nat)
           U == {0..x : x \in T}
<1>1. IsWellFoundedOn(R, F)
  BY FS_StrictSubsetOrderingWellFounded
<1>2. \A x \in T : 0..x \in F
  BY FS_Interval DEF FiniteSubsetsOf
<1>3. U \subseteq F /\ U # {}
  BY <1>2
<1>4. \E u \in U : \A w \in U : ~ (<<w, u>> \in R)
  <2> HIDE DEF U, R, F
  <2>1. QED
    BY <1>1, <1>3, WFMin
<1>5. PICK x \in T : \A y \in T : ~ (<<0..y, 0..x>> \in R)
  BY <1>4
<1>6. ASSUME NEW y \in T, y < x
      PROVE  FALSE
  <2>1. 0..y \subseteq 0..x /\ 0..y # 0..x
    BY <1>6
  <2>2. <<0..y, 0..x>> \in R
    BY <2>1 DEF StrictSubsetOrdering
  <2>3. QED
    BY <1>5, <2>2
<1>7. QED
  BY <1>6

LEMMA RingTypes ==
  ASSUME traffic \in Setups
  PROVE  /\ RingPlatoons = 1..Len(traffic.sizes) /\ Len(traffic.sizes) \in Nat
         /\ RingPlatoons \subseteq Nat /\ IsFiniteSet(RingPlatoons)
         /\ \A p \in RingPlatoons : /\ traffic.sizes[p] \in Nat \ {0}
                                    /\ RingLane(p) \in 0..(traffic.nLanes - 1)
<1>1. traffic.sizes \in Seq(Nat \ {0}) /\ traffic.nLanes \in Nat \ {0}
  BY SetupTypes
<1>2. RingPlatoons = 1..Len(traffic.sizes) /\ Len(traffic.sizes) \in Nat
  BY <1>1 DEF RingPlatoons
<1>3. IsFiniteSet(RingPlatoons)
  BY <1>2, FS_Interval
<1>4. ASSUME NEW p \in RingPlatoons
      PROVE  RingLane(p) \in 0..(traffic.nLanes - 1)
  <2>1. p - 1 \in Nat
    BY <1>2
  <2>2. QED
    BY <1>1, <2>1, DivMod DEF RingLane
<1>5. QED
  BY <1>1, <1>2, <1>3, <1>4

(* The platoons are queued in a total order.                               *)
LEMMA RingOrder ==
  ASSUME traffic \in Setups
  PROVE  /\ \A p \in RingPlatoons : RingBefore(p) \subseteq RingPlatoons /\ p \notin RingBefore(p)
         /\ \A p, q \in RingPlatoons : p # q => p \in RingBefore(q) \/ q \in RingBefore(p)
         /\ \A p, q \in RingPlatoons : p \in RingBefore(q) => RingBefore(p) \subseteq RingBefore(q)
         /\ \A p, q \in RingPlatoons : p \in RingBefore(q) => q \notin RingBefore(p)
<1>1. /\ RingPlatoons \subseteq Nat
      /\ \A p \in RingPlatoons : RingLane(p) \in Nat
  <2>1. \A p \in RingPlatoons : RingLane(p) \in 0..(traffic.nLanes - 1)
    BY RingTypes
  <2>2. QED
    BY <2>1, RingTypes, SetupTypes
<1>2. \A p, q \in RingPlatoons : p \in RingBefore(q) <=>
        RingLane(p) < RingLane(q) \/ (RingLane(p) = RingLane(q) /\ p < q)
  BY DEF RingBefore, RingPlatoons
<1>3. \A p \in RingPlatoons : RingBefore(p) \subseteq RingPlatoons
  BY DEF RingBefore, RingPlatoons
<1>4. ASSUME NEW p \in RingPlatoons, NEW q \in RingPlatoons, p \in RingBefore(q),
             NEW s \in RingBefore(p)
      PROVE  s \in RingBefore(q)
  BY <1>1, <1>2, <1>3, <1>4
<1>5. \A p \in RingPlatoons : p \notin RingBefore(p)
  BY <1>1, <1>2
<1>6. \A p, q \in RingPlatoons : p # q => p \in RingBefore(q) \/ q \in RingBefore(p)
  BY <1>1, <1>2
<1>7. \A p, q \in RingPlatoons : p \in RingBefore(q) => q \notin RingBefore(p)
  BY <1>1, <1>2
<1>8. QED
  BY <1>3, <1>4, <1>5, <1>6, <1>7

LEMMA SeatsCount ==
  ASSUME traffic \in Setups, NEW X \in SUBSET RingPlatoons
  PROVE  /\ IsFiniteSet(Seats(X)) /\ Cardinality(Seats(X)) \in Nat
         /\ \A q \in RingPlatoons \ X :
              Cardinality(Seats(X \cup {q})) = Cardinality(Seats(X)) + traffic.sizes[q]
         /\ \A Y \in SUBSET X : Cardinality(Seats(Y)) <= Cardinality(Seats(X))
<1>1. Seats(X) \in SUBSET Seats(RingPlatoons)
  BY DEF Seats
<1>2. IsFiniteSet(Seats(X)) /\ Cardinality(Seats(X)) \in Nat
  BY <1>1, SeatsFinite, FS_Subset, FS_CardinalityType DEF RingPlatoons
<1>3. ASSUME NEW q \in RingPlatoons \ X
      PROVE  Cardinality(Seats(X \cup {q})) = Cardinality(Seats(X)) + traffic.sizes[q]
  <2> DEFINE new == {q} \X (0..(traffic.sizes[q] - 1))
  <2>1. Seats(X \cup {q}) = Seats(X) \cup new
    BY DEF Seats
  <2>2. Seats(X) \cap new = {}
    <3>1. \A x \in Seats(X) : x[1] \in X
      BY DEF Seats
    <3>2. \A x \in new : x[1] = q
      OBVIOUS
    <3>3. QED
      BY <1>3, <3>1, <3>2
  <2>3. IsFiniteSet(new) /\ Cardinality(new) = traffic.sizes[q]
    <3>1. PICK n \in Nat \ {0} : n = traffic.sizes[q]
      BY RingTypes
    <3>2. IsFiniteSet(0..(n - 1)) /\ Cardinality(0..(n - 1)) = n
      <4>1. n - 1 \in Int /\ ~(0 > n - 1) /\ (n - 1) - 0 + 1 = n
        OBVIOUS
      <4>2. QED
        BY <4>1, FS_Interval
    <3>3. IsFiniteSet({q}) /\ Cardinality({q}) = 1
      BY FS_Singleton
    <3>4. IsFiniteSet(new) /\ Cardinality(new) = 1 * n
      BY <3>1, <3>2, <3>3, FS_Product, SMTT(30)
    <3>5. QED
      BY <3>1, <3>4
  <2> HIDE DEF new
  <2>4. Cardinality(Seats(X) \cup new) = Cardinality(Seats(X)) + Cardinality(new) - Cardinality(Seats(X) \cap new)
    BY <1>2, <2>3, FS_Union
  <2>5. Cardinality(Seats(X) \cap new) = 0
    BY <2>2, FS_EmptySet
  <2>6. PICK n \in Nat, m \in Nat : n = traffic.sizes[q] /\ m = Cardinality(Seats(X))
    BY <1>2, RingTypes
  <2>7. Cardinality(Seats(X) \cup new) = m + n - 0
    BY <2>3, <2>4, <2>5, <2>6
  <2>8. m + n - 0 = m + n
    OBVIOUS
  <2>9. Cardinality(Seats(X) \cup new) = Cardinality(Seats(X)) + traffic.sizes[q]
    BY <2>6, <2>7, <2>8, Zenon
  <2>10. QED
    BY <2>1, <2>9, Zenon
<1>4. ASSUME NEW Y \in SUBSET X
      PROVE  Cardinality(Seats(Y)) <= Cardinality(Seats(X))
  <2>1. Seats(Y) \in SUBSET Seats(X)
    BY DEF Seats
  <2>2. QED
    BY <1>2, <2>1, FS_Subset
<1>5. QED
  BY <1>2, <1>3, <1>4

(* A platoon is queued after all vehicles of the platoons before it.       *)
LEMMA CarsBeforeFacts ==
  ASSUME traffic \in Setups
  PROVE  /\ \A p \in RingPlatoons : CarsBefore(p) \in Nat
         /\ \A p \in RingPlatoons : Cardinality(Seats(RingBefore(p) \cup {p}))
                                      = CarsBefore(p) + traffic.sizes[p]
         /\ \A p, q \in RingPlatoons : p \in RingBefore(q) =>
              CarsBefore(p) + traffic.sizes[p] <= CarsBefore(q)
<1>1. ASSUME NEW p \in RingPlatoons
      PROVE  /\ CarsBefore(p) \in Nat
             /\ Cardinality(Seats(RingBefore(p) \cup {p})) = CarsBefore(p) + traffic.sizes[p]
  <2>1. RingBefore(p) \in SUBSET RingPlatoons /\ p \in RingPlatoons \ RingBefore(p)
    BY RingOrder
  <2>2. QED
    BY <2>1, SeatsCount DEF CarsBefore
<1>2. ASSUME NEW p \in RingPlatoons, NEW q \in RingPlatoons, p \in RingBefore(q)
      PROVE  CarsBefore(p) + traffic.sizes[p] <= CarsBefore(q)
  <2>1. RingBefore(p) \cup {p} \in SUBSET RingBefore(q) /\ RingBefore(q) \in SUBSET RingPlatoons
    BY <1>2, RingOrder
  <2>2. Cardinality(Seats(RingBefore(p) \cup {p})) <= Cardinality(Seats(RingBefore(q)))
    BY <2>1, SeatsCount
  <2>3. QED
    BY <1>1, <2>2 DEF CarsBefore
<1>3. QED
  BY <1>1, <1>2

(* The a-th vehicle on the ring is in platoon p.                           *)
RingSeat(a, p) == CarsBefore(p) <= a /\ a < CarsBefore(p) + traffic.sizes[p]

(* No vehicle is in two platoons, and none in no platoon: the platoons     *)
(* queued before it and the first that is not take up the vehicles up to it*)
LEMMA RingSeatOf ==
  ASSUME traffic \in Setups, NEW a \in 0..(RingCars - 1)
  PROVE  \E p \in RingPlatoons :
           RingSeat(a, p) /\ \A q \in RingPlatoons : RingSeat(a, q) => q = p
<1> DEFINE after(p) == CarsBefore(p) + traffic.sizes[p]
           T == {q \in RingPlatoons : after(q) <= a}
           D == RingPlatoons \ T
<1>1. /\ a \in Nat /\ RingCars \in Nat /\ a < RingCars
      /\ \A p \in RingPlatoons : CarsBefore(p) \in Nat /\ after(p) \in Nat /\ CarsBefore(p) < after(p)
      /\ \A p, q \in RingPlatoons : p \in RingBefore(q) => after(p) <= CarsBefore(q)
      /\ \A p \in RingPlatoons : Cardinality(Seats(RingBefore(p) \cup {p})) = after(p)
  <2>1. a \in Nat /\ RingCars \in Nat /\ a < RingCars
    BY SeatsFinite
  <2>2. ASSUME NEW p \in RingPlatoons
        PROVE  CarsBefore(p) \in Nat /\ after(p) \in Nat /\ CarsBefore(p) < after(p)
    <3>1. CarsBefore(p) \in Nat /\ traffic.sizes[p] \in Nat \ {0}
      BY CarsBeforeFacts, RingTypes
    <3>2. QED
      BY <3>1
  <2>3. QED
    BY <2>1, <2>2, CarsBeforeFacts
<1>2. /\ \A p \in RingPlatoons : RingBefore(p) \subseteq RingPlatoons
      /\ \A p, q \in RingPlatoons : p # q => p \in RingBefore(q) \/ q \in RingBefore(p)
  BY RingOrder
<1>3. /\ T \subseteq RingPlatoons /\ D \subseteq RingPlatoons
      /\ \A q \in T : after(q) <= a
      /\ \A q \in D : ~(after(q) <= a)
      /\ RingPlatoons = T \cup D
  OBVIOUS
<1>4. \A X \in SUBSET RingPlatoons : \A Y \in SUBSET X :
        /\ Cardinality(Seats(X)) \in Nat /\ Cardinality(Seats(Y)) \in Nat
        /\ Cardinality(Seats(Y)) <= Cardinality(Seats(X))
  BY SeatsCount
<1> HIDE DEF after, T, D
<1>5. Cardinality(Seats(T)) <= a
  <2>1. CASE T = {}
    <3>1. Seats(T) = {}
      BY <2>1 DEF Seats
    <3>2. QED
      BY <1>1, <3>1, FS_EmptySet
  <2>2. CASE T # {}
    <3> DEFINE Left == {a - CarsBefore(q) : q \in T}
    <3>1. Left \in SUBSET Nat /\ Left # {}
      <4>1. \A q \in T : a - CarsBefore(q) \in Nat
        BY <1>1, <1>3
      <4>2. QED
        BY <2>2, <4>1
    <3>2. PICK x \in Left : \A y \in Left : x <= y
      BY <3>1, LeastNatural
    <3>3. PICK q \in T : x = a - CarsBefore(q)
      BY <3>2
    <3>4. ASSUME NEW s \in T, s # q
          PROVE  s \in RingBefore(q)
      <4>1. SUFFICES ASSUME q \in RingBefore(s) PROVE FALSE
        BY <1>2, <1>3, <3>3, <3>4
      <4>2. CarsBefore(q) < CarsBefore(s)
        BY <1>1, <1>3, <3>3, <3>4, <4>1
      <4>3. a - CarsBefore(q) <= a - CarsBefore(s)
        BY <3>2, <3>3, <3>4
      <4>4. QED
        BY <1>1, <1>3, <3>3, <3>4, <4>2, <4>3
    <3>5. T \in SUBSET (RingBefore(q) \cup {q}) /\ RingBefore(q) \cup {q} \in SUBSET RingPlatoons
      BY <1>2, <1>3, <3>3, <3>4
    <3>6. Cardinality(Seats(T)) <= after(q) /\ Cardinality(Seats(T)) \in Nat
      BY <1>1, <1>3, <1>4, <3>3, <3>5
    <3>7. QED
      BY <1>1, <1>3, <3>3, <3>6
  <2>3. QED
    BY <2>1, <2>2
<1>6. D # {}
  <2>1. SUFFICES ASSUME D = {} PROVE FALSE
    OBVIOUS
  <2>2. T = DOMAIN traffic.sizes
    BY <1>3, <2>1 DEF RingPlatoons
  <2>3. RingCars <= a
    BY <1>5, <2>2 DEF RingCars
  <2>4. QED
    BY <1>1, <2>3
<1>7. PICK p \in D : \A s \in D : CarsBefore(p) <= CarsBefore(s)
  <2> DEFINE B == {CarsBefore(s) : s \in D}
  <2>1. B \in SUBSET Nat /\ B # {}
    BY <1>1, <1>3, <1>6
  <2>2. PICK x \in B : \A y \in B : x <= y
    BY <2>1, LeastNatural
  <2>3. QED
    BY <2>2
<1>8. RingBefore(p) \subseteq T
  <2> SUFFICES ASSUME NEW s \in RingBefore(p), s \in D PROVE FALSE
    BY <1>2, <1>3
  <2>1. after(s) <= CarsBefore(p) /\ CarsBefore(s) < after(s) /\ CarsBefore(p) <= CarsBefore(s)
    BY <1>1, <1>3, <1>7
  <2>2. QED
    BY <1>1, <1>3, <2>1
<1>9. CarsBefore(p) <= a
  <2>1. Cardinality(Seats(RingBefore(p))) <= Cardinality(Seats(T)) /\ Cardinality(Seats(T)) \in Nat
    BY <1>3, <1>4, <1>8
  <2>2. CarsBefore(p) <= Cardinality(Seats(T)) /\ CarsBefore(p) \in Nat
    BY <1>1, <1>3, <2>1 DEF CarsBefore
  <2>3. QED
    BY <1>1, <1>5, <2>1, <2>2
<1>10. RingSeat(a, p)
  <2>1. a < after(p)
    BY <1>1, <1>3
  <2>2. QED
    BY <1>9, <2>1 DEF RingSeat, after
<1>11. ASSUME NEW q \in RingPlatoons, RingSeat(a, q), q # p
       PROVE  FALSE
  <2>1. a < after(q) /\ CarsBefore(q) <= a /\ a < after(p) /\ CarsBefore(p) <= a
    BY <1>10, <1>11 DEF RingSeat, after
  <2>2. p \in RingPlatoons /\ (after(p) <= CarsBefore(q) \/ after(q) <= CarsBefore(p))
    BY <1>1, <1>2, <1>3, <1>11
  <2>3. QED
    BY <1>1, <2>1, <2>2
<1>12. QED
  BY <1>3, <1>10, <1>11

LEMMA RingCarOf ==
  ASSUME traffic \in Setups, traffic.manager = "ring", NEW a \in CarIds
  PROVE  \E p \in RingPlatoons :
           /\ RingSeat(a, p)
           /\ PlannedCar(a) = [id |-> a, platoon |-> Cardinality(RingBefore(p)),
                               place |-> a - CarsBefore(p), lane |-> RingLane(p),
                               position |-> RingCars - a]
<1>1. a \in 0..(RingCars - 1)
  BY CarsTypes DEF CarIds
<1>2. PICK p \in RingPlatoons : RingSeat(a, p) /\ \A q \in RingPlatoons : RingSeat(a, q) => q = p
  BY <1>1, RingSeatOf
<1>3. p = CHOOSE q \in DOMAIN traffic.sizes :
            CarsBefore(q) <= a /\ a < CarsBefore(q) + traffic.sizes[q]
  BY <1>2 DEF RingSeat, RingPlatoons
<1>4. RingCar(a) = [id |-> a, platoon |-> Cardinality(RingBefore(p)),
                    place |-> a - CarsBefore(p), lane |-> RingLane(p),
                    position |-> RingCars - a]
  BY <1>3 DEF RingCar
<1>5. QED
  BY <1>2, <1>4 DEF PlannedCar

(* Platoons are numbered in the order in which they are queued.            *)
LEMMA RingNumbers ==
  ASSUME traffic \in Setups, NEW p \in RingPlatoons
  PROVE  /\ Cardinality(RingBefore(p)) \in Nat
         /\ \A q \in RingPlatoons :
              Cardinality(RingBefore(q)) = Cardinality(RingBefore(p)) => q = p
<1>1. \A q \in RingPlatoons : IsFiniteSet(RingBefore(q)) /\ Cardinality(RingBefore(q)) \in Nat
  BY RingTypes, RingOrder, FS_Subset, FS_CardinalityType
<1>2. ASSUME NEW q \in RingPlatoons, NEW s \in RingPlatoons, q \in RingBefore(s)
      PROVE  Cardinality(RingBefore(q)) # Cardinality(RingBefore(s))
  <2>1. RingBefore(q) \in SUBSET RingBefore(s) /\ q \notin RingBefore(q)
    BY <1>2, RingOrder
  <2>2. RingBefore(s) # RingBefore(q)
    BY <1>2, <2>1
  <2>3. QED
    BY <1>1, <2>1, <2>2, FS_Subset
<1>3. QED
  BY <1>1, <1>2, RingOrder

LEMMA RingPlan ==
  ASSUME traffic \in Setups, traffic.manager = "ring"
  PROVE  Plan
<1> DEFINE InSeat(a, p) ==
             /\ p \in RingPlatoons /\ RingSeat(a, p)
             /\ PlannedCar(a).id = a /\ PlannedCar(a).platoon = Cardinality(RingBefore(p))
             /\ PlannedCar(a).place = a - CarsBefore(p) /\ PlannedCar(a).lane = RingLane(p)
             /\ PlannedCar(a).position = RingCars - a
<1>1. \A a \in CarIds : \E p \in RingPlatoons : InSeat(a, p)
  BY RingCarOf
<1>2. /\ CarIds = 0..(RingCars - 1) /\ RingCars \in Nat
      /\ \A p \in RingPlatoons : CarsBefore(p) \in Nat /\ Cardinality(RingBefore(p)) \in Nat
  BY CarsTypes, SeatsFinite, CarsBeforeFacts, RingNumbers DEF CarIds
<1>3. \A a, p : InSeat(a, p) => CarsBefore(p) <= a
  BY DEF RingSeat
<1>4. \A a, b, p, q : InSeat(a, p) /\ InSeat(b, q) => (SameFormation(a, b) <=> p = q)
  BY RingNumbers DEF SameFormation
<1>5. \A a, p : InSeat(a, p) => /\ p \in RingPlatoons
                                /\ PlannedCar(a).place = a - CarsBefore(p)
                                /\ PlannedCar(a).lane = RingLane(p)
                                /\ PlannedCar(a).position = RingCars - a
  OBVIOUS
<1>6. Typed
  <2> SUFFICES ASSUME NEW a \in CarIds
               PROVE  PlannedCar(a) \in [id : {a}, platoon : Nat, place : Nat,
                                         lane : 0..(traffic.nLanes - 1), position : Int]
    BY DEF Typed
  <2>1. PICK p \in RingPlatoons :
          /\ RingSeat(a, p)
          /\ PlannedCar(a) = [id |-> a, platoon |-> Cardinality(RingBefore(p)),
                              place |-> a - CarsBefore(p), lane |-> RingLane(p),
                              position |-> RingCars - a]
    BY RingCarOf
  <2>2. /\ a - CarsBefore(p) \in Nat /\ RingCars - a \in Int
        /\ Cardinality(RingBefore(p)) \in Nat /\ RingLane(p) \in 0..(traffic.nLanes - 1)
    BY <1>2, <2>1, RingTypes DEF RingSeat
  <2>3. QED
    BY <2>1, <2>2
<1> HIDE DEF InSeat
<1>7. OnePerPlace
  <2> SUFFICES ASSUME NEW a \in CarIds, NEW b \in CarIds, SameFormation(a, b),
                      PlannedCar(a).place = PlannedCar(b).place
               PROVE  a = b
    BY DEF OnePerPlace
  <2>1. PICK p \in RingPlatoons : InSeat(a, p)
    BY <1>1
  <2>2. PICK q \in RingPlatoons : InSeat(b, q)
    BY <1>1
  <2>3. a - CarsBefore(p) = b - CarsBefore(p)
    BY <1>4, <1>5, <2>1, <2>2
  <2>4. QED
    BY <1>2, <2>3
<1>8. NoGap
  <2> SUFFICES ASSUME NEW a \in CarIds, NEW i \in 0..PlannedCar(a).place
               PROVE  \E b \in CarIds : SameFormation(a, b) /\ PlannedCar(b).place = i
    BY DEF NoGap
  <2>1. PICK p \in RingPlatoons : InSeat(a, p)
    BY <1>1
  <2>2. PICK b \in CarIds : b = CarsBefore(p) + i
    <3>1. i \in 0..(a - CarsBefore(p)) /\ CarsBefore(p) <= a /\ a \in Nat /\ a < RingCars
      BY <1>2, <1>3, <1>5, <2>1
    <3>2. CarsBefore(p) + i \in 0..(RingCars - 1)
      BY <1>2, <3>1
    <3>3. QED
      BY <1>2, <3>2
  <2>3. RingSeat(b, p)
    <3>1. a < CarsBefore(p) + traffic.sizes[p] /\ i \in Nat /\ i <= a - CarsBefore(p)
      BY <1>2, <1>3, <1>5, <2>1 DEF InSeat, RingSeat
    <3>2. traffic.sizes[p] \in Nat
      BY RingTypes
    <3>3. QED
      BY <1>2, <2>2, <3>1, <3>2 DEF RingSeat
  <2>4. PICK q \in RingPlatoons : InSeat(b, q)
    BY <1>1
  <2>5. q = p
    BY <1>2, <2>3, <2>4, RingSeatOf DEF InSeat
  <2>6. SameFormation(a, b)
    BY <1>4, <2>1, <2>4, <2>5
  <2>7. PlannedCar(b).place = b - CarsBefore(p)
    BY <1>5, <2>4, <2>5
  <2>8. QED
    BY <1>2, <2>2, <2>6, <2>7
<1>9. OneLaneEach
  <2> SUFFICES ASSUME NEW a \in CarIds, NEW b \in CarIds, SameFormation(a, b)
               PROVE  PlannedCar(a).lane = PlannedCar(b).lane
    BY DEF OneLaneEach
  <2>1. QED
    BY <1>1, <1>4, <1>5
<1>10. CloseUp
  <2> SUFFICES ASSUME NEW a \in CarIds, NEW b \in CarIds, Follows(a, b)
               PROVE  /\ Before(PlannedCar(a), PlannedCar(b))
                      /\ \A c \in CarIds : ~(/\ Before(PlannedCar(a), PlannedCar(c))
                                             /\ Before(PlannedCar(c), PlannedCar(b)))
    BY DEF CloseUp
  <2>1. PICK p \in RingPlatoons : InSeat(a, p)
    BY <1>1
  <2>2. PICK q \in RingPlatoons : InSeat(b, q)
    BY <1>1
  <2>3. p = q /\ b - CarsBefore(p) = a - CarsBefore(p) + 1
    BY <1>4, <1>5, <2>1, <2>2 DEF Follows
  <2>4. b = a + 1 /\ a \in Nat
    BY <1>2, <2>3
  <2>5. Before(PlannedCar(a), PlannedCar(b))
    BY <1>2, <1>5, <2>1, <2>2, <2>3, <2>4 DEF Before
  <2>6. ASSUME NEW c \in CarIds, Before(PlannedCar(a), PlannedCar(c)),
               Before(PlannedCar(c), PlannedCar(b))
        PROVE  FALSE
    <3>1. \A d \in CarIds : PlannedCar(d).position = RingCars - d
      BY <1>1, <1>5
    <3>2. RingCars - a > RingCars - c /\ RingCars - c > RingCars - b
      BY <2>6, <3>1 DEF Before
    <3>3. QED
      BY <1>2, <2>4, <3>2
  <2>7. QED
    BY <2>5, <2>6
<1>11. QED
  BY <1>6, <1>7, <1>8, <1>9, <1>10 DEF Plan

LEMMA PlanHolds ==
  ASSUME traffic \in Setups
  PROVE  Plan
BY RowPlan, RingPlan

-----------------------------------------------------------------------------
(* The vehicles of the queue, one by one *)

Planned(i, x)  == i \in 1..Cars /\ x = AsEntry(PlannedCar(i - 1))
(* Added to the platoons, at the start of the road.                        *)
Stray(i, x)    == i > Cars /\ traffic.manager \notin {"human", "ring"}
                  /\ x.type = "auto" /\ x.position = 0
Human(i, x)    == i > Cars /\ traffic.manager = "human"
                  /\ x.type = "human" /\ x.lane >= traffic.nLanes /\ x.position >= 0
Kind(i, x)     == Planned(i, x) \/ Stray(i, x) \/ Human(i, x)

LEMMA PlatoonEntriesAre ==
  ASSUME traffic \in Setups
  PROVE  /\ PlatoonEntries \in Seq(Entry) /\ Len(PlatoonEntries) = Cars
         /\ \A i \in 1..Cars : Planned(i, PlatoonEntries[i])
<1>1. Cars \in Nat
  BY CarsTypes
<1>2. ASSUME NEW i \in 1..Cars
      PROVE  AsEntry(PlannedCar(i - 1)) \in Entry
  <2>1. i - 1 \in CarIds
    BY <1>1 DEF CarIds
  <2>2. PICK car : /\ car = PlannedCar(i - 1)
                   /\ car \in [id : {i - 1}, platoon : Nat, place : Nat,
                               lane : 0..(traffic.nLanes - 1), position : Int]
    BY <2>1, PlanHolds DEF Plan, Typed
  <2>3. car.lane \in Int /\ car.position \in Int
    BY <2>2, SetupTypes, SMTT(30)
  <2>4. QED
    BY <2>2, <2>3 DEF AsEntry, Entry, Type
<1>3. PlatoonEntries \in [1..Cars -> Entry]
  BY <1>2 DEF PlatoonEntries
<1>4. PlatoonEntries \in Seq(Entry) /\ Len(PlatoonEntries) = Cars
  BY <1>1, <1>3, FunctionIsSeq
<1>5. \A i \in 1..Cars : PlatoonEntries[i] = AsEntry(PlannedCar(i - 1))
  BY DEF PlatoonEntries
<1>6. QED
  BY <1>4, <1>5 DEF Planned

LEMMA ExtraEntriesAre ==
  ASSUME traffic \in Setups
  PROVE  /\ ExtraEntries \in Seq(Entry)
         /\ \A i \in 1..Len(ExtraEntries) : \A n \in Nat : n > Cars => Stray(n, ExtraEntries[i])
<1>1. NExtra \in Nat /\ ExtraLane \in Int
  BY SetupTypes DEF NExtra, ExtraLane
<1>2. [type |-> "auto", lane |-> ExtraLane, position |-> 0] \in Entry
  BY <1>1 DEF Entry, Type
<1>3. ExtraEntries \in [1..NExtra -> Entry]
  BY <1>2 DEF ExtraEntries
<1>4. ExtraEntries \in Seq(Entry) /\ Len(ExtraEntries) = NExtra
  BY <1>1, <1>3, FunctionIsSeq
<1>5. NExtra # 0 => traffic.manager \notin {"human", "ring"}
  BY DEF NExtra
<1>6. \A i \in 1..NExtra : ExtraEntries[i].type = "auto" /\ ExtraEntries[i].position = 0
  BY DEF ExtraEntries
<1>7. QED
  BY <1>1, <1>4, <1>5, <1>6 DEF Stray

LEMMA HumanEntriesAre ==
  ASSUME traffic \in Setups
  PROVE  /\ HumanEntries \in Seq(Entry)
         /\ \A i \in 1..Len(HumanEntries) : \A n \in Nat : n > Cars => Human(n, HumanEntries[i])
<1>1. CASE traffic.manager # "human"
  <2>1. HumanEntries = <<>>
    BY <1>1 DEF HumanEntries
  <2>2. QED
    BY <2>1
<1>2. CASE traffic.manager = "human"
  <2>1. PICK lanes \in Nat \ {0} : lanes = traffic.humanLanes
    BY SetupTypes
  <2>2. PICK rows \in Nat : rows = HumanRows
    <3>1. HumanRows \in Nat
      BY SetupTypes, DivMod DEF HumanRows
    <3>2. QED
      BY <3>1
  <2>3. PICK n \in Nat : n = rows * lanes
    <3>1. rows * lanes \in Nat
      OBVIOUS
    <3>2. QED
      BY <3>1
  <2>4. HumanEntries = [i \in 1..n |->
           [type |-> "human", lane |-> traffic.nLanes + ((i - 1) % lanes),
            position |-> rows - ((i - 1) \div lanes)]]
    BY <1>2, <2>1, <2>2, <2>3 DEF HumanEntries
  <2>5. ASSUME NEW i \in 1..n
        PROVE  /\ traffic.nLanes + ((i - 1) % lanes) \in Int
               /\ traffic.nLanes + ((i - 1) % lanes) >= traffic.nLanes
               /\ rows - ((i - 1) \div lanes) \in Int
               /\ rows - ((i - 1) \div lanes) >= 0
    <3>1. PICK j \in Nat : j = i - 1 /\ j < n
      OBVIOUS
    <3>2. PICK q \in Nat, r \in 0..(lanes - 1) : /\ q = (j \div lanes) /\ r = (j % lanes)
                                                 /\ j = lanes * q + r
      BY DivMod
    <3>3. q <= rows
      <4>1. SUFFICES ASSUME rows <= q PROVE rows = q
        OBVIOUS
      <4>2. lanes * rows <= lanes * q /\ lanes * q \in Nat
        BY <4>1, ProductOrder
      <4>3. lanes * rows = n
        BY <2>3
      <4>4. QED
        BY <3>1, <3>2, <4>2, <4>3
    <3>4. traffic.nLanes \in Nat
      BY SetupTypes
    <3>5. QED
      BY <3>1, <3>2, <3>3, <3>4
  <2>6. HumanEntries \in [1..n -> Entry]
    BY <2>4, <2>5 DEF Entry, Type
  <2>7. HumanEntries \in Seq(Entry) /\ Len(HumanEntries) = n
    BY <2>6, FunctionIsSeq
  <2>8. \A i \in 1..n : /\ HumanEntries[i].type = "human"
                        /\ HumanEntries[i].lane >= traffic.nLanes
                        /\ HumanEntries[i].position >= 0
    BY <2>4, <2>5
  <2>9. QED
    BY <1>2, <2>7, <2>8 DEF Human
<1>3. QED
  BY <1>1, <1>2

LEMMA EntriesAre ==
  ASSUME traffic \in Setups
  PROVE  /\ Entries("insertPlatoons") \in Seq(Entry)
         /\ Cars \in Nat /\ Cars <= Len(Entries("insertPlatoons"))
         /\ \A i \in 1..Len(Entries("insertPlatoons")) : Kind(i, Entries("insertPlatoons")[i])
<1>1. PICK p \in Seq(Entry), e \in Seq(Entry), h \in Seq(Entry) :
        p = PlatoonEntries /\ e = ExtraEntries /\ h = HumanEntries
  BY PlatoonEntriesAre, ExtraEntriesAre, HumanEntriesAre
<1>2. PICK s : s = p \o e \o h
  OBVIOUS
<1>3. s = Entries("insertPlatoons") /\ Len(p) = Cars
  BY <1>1, <1>2, PlatoonEntriesAre DEF Entries
<1>4. /\ s \in Seq(Entry) /\ Len(p) <= Len(s)
      /\ \A i \in 1..Len(s) :
           \/ i \in 1..Len(p) /\ s[i] = p[i]
           \/ i > Len(p) /\ \E j \in 1..Len(e) : s[i] = e[j]
           \/ i > Len(p) /\ \E j \in 1..Len(h) : s[i] = h[j]
  <2>1. /\ p \o e \in Seq(Entry) /\ Len(p \o e) = Len(p) + Len(e)
        /\ \A i \in 1..(Len(p) + Len(e)) : (p \o e)[i] = IF i <= Len(p) THEN p[i] ELSE e[i - Len(p)]
    BY ConcatProperties
  <2>2. /\ s \in Seq(Entry) /\ Len(s) = Len(p) + Len(e) + Len(h)
        /\ \A i \in 1..Len(s) : s[i] = IF i <= Len(p) + Len(e) THEN (p \o e)[i]
                                       ELSE h[i - (Len(p) + Len(e))]
    BY <1>2, <2>1, ConcatProperties
  <2>3. Len(p) \in Nat /\ Len(e) \in Nat /\ Len(h) \in Nat
    OBVIOUS
  <2>4. ASSUME NEW i \in 1..Len(s)
        PROVE  \/ i \in 1..Len(p) /\ s[i] = p[i]
               \/ i > Len(p) /\ \E j \in 1..Len(e) : s[i] = e[j]
               \/ i > Len(p) /\ \E j \in 1..Len(h) : s[i] = h[j]
    <3>1. CASE i <= Len(p)
      BY <2>1, <2>2, <2>3, <3>1
    <3>2. CASE i > Len(p) /\ i <= Len(p) + Len(e)
      <4>1. i - Len(p) \in 1..Len(e) /\ s[i] = e[i - Len(p)]
        BY <2>1, <2>2, <2>3, <3>2
      <4>2. QED
        BY <3>2, <4>1
    <3>3. CASE i > Len(p) + Len(e)
      <4>1. i - (Len(p) + Len(e)) \in 1..Len(h) /\ s[i] = h[i - (Len(p) + Len(e))] /\ i > Len(p)
        BY <2>2, <2>3, <3>3
      <4>2. QED
        BY <4>1
    <3>4. QED
      BY <2>2, <2>3, <3>1, <3>2, <3>3
  <2>5. QED
    BY <2>2, <2>3, <2>4
<1>5. ASSUME NEW i \in 1..Len(s)
      PROVE  Kind(i, s[i])
  <2>1. i \in Nat
    BY <1>4
  <2>2. QED
    BY <1>1, <1>3, <1>4, <2>1, PlatoonEntriesAre, ExtraEntriesAre, HumanEntriesAre DEF Kind
<1>6. QED
  BY <1>3, <1>4, <1>5, CarsTypes

LEMMA QueuedFacts ==
  ASSUME traffic \in Setups, NEW x \in Queued
  PROVE  /\ x \in Entry
         /\ Rows % traffic.platoonSize = 0 => x.position >= 0
<1>1. PICK e \in Event : \E n \in DOMAIN Entries(e) : x = Entries(e)[n]
  BY DEF Queued
<1>5. PICK i \in DOMAIN Entries(e) : x = Entries(e)[i]
  BY <1>1
<1>2. CASE e = "insertJoiner"
  <2>1. Entries(e) = <<[type |-> "auto", lane |-> 2, position |-> 0]>>
    BY <1>2 DEF Entries
  <2>2. x = [type |-> "auto", lane |-> 2, position |-> 0]
    BY <1>5, <2>1
  <2>3. QED
    BY <2>2 DEF Entry, Type
<1>3. CASE e = "insertPlatoons"
  <2>1. x \in Entry /\ i \in Nat /\ Kind(i, x)
    BY <1>3, <1>5, EntriesAre
  <2>2. CASE Stray(i, x)
    BY <2>1, <2>2 DEF Stray
  <2>3. CASE Human(i, x)
    BY <2>1, <2>3 DEF Human
  <2>4. ASSUME Planned(i, x), Rows % traffic.platoonSize = 0
        PROVE  x.position >= 0
    <3> DEFINE a == i - 1
    <3>1. a \in CarIds /\ x = AsEntry(PlannedCar(a))
      BY <2>1, <2>4, CarsTypes DEF Planned, CarIds
    <3> HIDE DEF a
    <3>2. x.position = PlannedCar(a).position
      BY <3>1 DEF AsEntry
    <3>3. CASE traffic.manager = "ring"
      <4>1. PICK p \in RingPlatoons : PlannedCar(a).position = RingCars - a
        BY <3>1, <3>3, RingCarOf
      <4>2. a \in Nat /\ a < RingCars /\ RingCars \in Nat
        BY <3>1, <3>3, CarsTypes
      <4>3. QED
        BY <3>2, <4>1, <4>2
    <3>4. CASE traffic.manager # "ring"
      <4>1. PICK g \in Nat, r \in 0..(traffic.platoonSize - 1), l \in 0..(traffic.nLanes - 1) :
              RowSeat(a, g, r, l)
        BY <3>1, <3>4, RowSeatOf
      <4>2. g < NPlatoons
        <5>1. PICK s \in Nat \ {0} : s = traffic.platoonSize
          BY SetupTypes
        <5>2. Rows \div s = NPlatoons
          <6>1. PICK n \in Nat, k \in Nat \ {0} : n = traffic.nCars /\ k = traffic.nLanes
            BY SetupTypes
          <6>2. (n \div k) \div s = (n \div s) \div k
            BY DivTwice
          <6>3. QED
            BY <5>1, <6>1, <6>2 DEF Rows, NPlatoons
        <5>3. PICK m \in Nat : m = NPlatoons /\ Rows = s * m
          <6>1. Rows = s * (Rows \div s) + (Rows % s)
            BY <5>1, SetupTypes, DivMod
          <6>2. PICK m \in Nat : m = NPlatoons
            BY SetupTypes
          <6>3. s * m \in Nat
            BY <5>1
          <6>4. QED
            BY <2>4, <5>1, <5>2, <6>1, <6>2, <6>3
        <5>4. SUFFICES ASSUME m <= g PROVE FALSE
          BY <5>3
        <5>5. s * m <= s * g /\ s * m \in Nat /\ s * g \in Nat
          BY <5>1, <5>4, ProductOrder
        <5>6. s * g + r < s * m
          BY <4>1, <5>1, <5>3 DEF RowSeat, RowOf
        <5>7. QED
          BY <5>1, <5>5, <5>6
      <4>3. RowPosition(RowOf(g, r)) > 0 /\ RowPosition(RowOf(g, r)) \in Int
        BY <4>2, RowsOnRoad, RowPositionIs
      <4>4. QED
        BY <3>2, <4>1, <4>3 DEF RowSeat
    <3>5. QED
      BY <3>3, <3>4
  <2>5. QED
    BY <2>1, <2>2, <2>3, <2>4 DEF Kind
<1>4. QED
  BY <1>1, <1>2, <1>3 DEF Event

(* Complete platoons always fit between the start of the route and the     *)
(* place of the first row, however many there are and however long         *)
(* (PlatoonsTrafficManager::insertPlatoons).                               *)
THEOREM CompletePlatoonsFit == Spec => []PositionsFit
<1>1. OrderInv => PositionsFit
  <2> SUFFICES ASSUME OrderInv, Rows % traffic.platoonSize = 0, NEW i \in DOMAIN queue
               PROVE  queue[i].position >= 0
    BY DEF PositionsFit
  <2>1. queue[i] \in Queued
    BY DEF OrderInv
  <2>2. QED
    BY <2>1, QueuedFacts DEF OrderInv
<1>2. QED
  BY <1>1, OrderInvariant, PTL

-----------------------------------------------------------------------------
(* The position manager *)

NothingTold == /\ platoons = <<>> /\ positions = <<>>
               /\ vehToPlatoons = <<>> /\ information = <<>>
PlanTold == /\ platoons = Platoons /\ positions = Positions
            /\ vehToPlatoons = VehToPlatoons /\ information = Information

(* The singleton knows nothing or, whatever runs are behind it, the plan.  *)
RegistryInv == NothingTold \/ PlanTold

LEMMA SameMaps ==
  ASSUME traffic' = traffic
  PROVE  /\ Platoons' = Platoons /\ Positions' = Positions
         /\ VehToPlatoons' = VehToPlatoons /\ Information' = Information
<1>1. Cars' = Cars /\ \A id : PlannedCar(id)' = PlannedCar(id)
  BY SamePlan
<1>2. Places' = Places
  BY <1>1 DEF Places
<1>3. Platoons' = Platoons /\ Positions' = Positions /\ Information' = Information
  BY <1>2 DEF Platoons, Positions, Information
<1>4. VehToPlatoons' = VehToPlatoons
  BY <1>1 DEF VehToPlatoons
<1>5. QED
  BY <1>3, <1>4

(* A map that is told the same again does not change.                      *)
LEMMA ToldOnce ==
  ASSUME NEW f, f = [k \in DOMAIN f |-> f[k]]
  PROVE  Added(f, <<>>) = f /\ Added(f, f) = f
BY DEF Added

LEMMA InitRegistry == Init => RegistryInv
BY DEF Init, RegistryInv, NothingTold

LEMMA NextRegistry == OrderInv /\ RegistryInv /\ [Next]_vars => RegistryInv'
<1> SUFFICES ASSUME OrderInv, RegistryInv, [Next]_vars PROVE RegistryInv'
  OBVIOUS
<1>1. traffic' = traffic
  BY DEF Next, InsertPlatoons, InsertJoiner, NextRun, InsertVehicles, vars
<1>2. /\ Platoons' = Platoons /\ Positions' = Positions
      /\ VehToPlatoons' = VehToPlatoons /\ Information' = Information
  BY <1>1, SameMaps
<1>3. CASE InsertPlatoons
  <2>1. \A f \in {Platoons, Positions, VehToPlatoons, Information} :
          Added(f, <<>>) = f /\ Added(f, f) = f
    <3>1. /\ Platoons = [k \in DOMAIN Platoons |-> Platoons[k]]
          /\ Positions = [k \in DOMAIN Positions |-> Positions[k]]
          /\ VehToPlatoons = [k \in DOMAIN VehToPlatoons |-> VehToPlatoons[k]]
          /\ Information = [k \in DOMAIN Information |-> Information[k]]
      BY DEF Platoons, Positions, VehToPlatoons, Information
    <3>2. QED
      BY <3>1, ToldOnce
  <2>2. PlanTold'
    BY <1>2, <1>3, <2>1 DEF RegistryInv, NothingTold, PlanTold, InsertPlatoons
  <2>3. QED
    BY <2>2 DEF RegistryInv
<1>4. CASE InsertJoiner \/ NextRun \/ UNCHANGED vars \/ \E k \in 1..Len(queue) : InsertVehicles(k)
  <2>1. UNCHANGED registry
    BY <1>4 DEF InsertJoiner, NextRun, InsertVehicles, vars
  <2>2. QED
    BY <1>2, <2>1 DEF RegistryInv, NothingTold, PlanTold, registry
<1>5. QED
  BY <1>3, <1>4 DEF Next

LEMMA RegistryInvariant == Spec => []RegistryInv
BY InitRegistry, NextRegistry, OrderInvariant, PTL DEF Spec

(* What the maps say of a planned vehicle, and that they say no more.      *)
LEMMA PlanToldFacts ==
  ASSUME traffic \in Setups, PlanTold
  PROVE  /\ DOMAIN vehToPlatoons = CarIds
         /\ \A a \in CarIds :
              LET car == PlannedCar(a) IN
                /\ vehToPlatoons[a] = car.platoon
                /\ <<car.platoon, car.place>> \in DOMAIN platoons
                /\ platoons[<<car.platoon, car.place>>] = a
                /\ <<car.platoon, a>> \in DOMAIN positions
                /\ positions[<<car.platoon, a>>] = car.place
                /\ traffic.manager # "ring" => /\ car.platoon \in DOMAIN information
                                               /\ information[car.platoon] = car.lane
         /\ \A k \in DOMAIN platoons : \E a \in CarIds :
              k = <<PlannedCar(a).platoon, PlannedCar(a).place>>
         /\ \A k \in DOMAIN positions : \E a \in CarIds : k = <<PlannedCar(a).platoon, a>>
         /\ \A p \in DOMAIN information : \E a \in CarIds : p = PlannedCar(a).platoon
<1>1. /\ \A a \in CarIds : PlannedCar(a).id = a /\ PlannedCar(a).place \in Nat
      /\ Places = {PlannedCar(a) : a \in CarIds}
      /\ OnePerPlace /\ NoGap /\ OneLaneEach
  BY PlanHolds DEF Plan, Typed, Places, CarIds
<1>2. DOMAIN vehToPlatoons = CarIds /\ \A a \in CarIds : vehToPlatoons[a] = PlannedCar(a).platoon
  BY DEF PlanTold, VehToPlatoons, CarIds
<1>3. /\ DOMAIN platoons = {<<r.platoon, r.place>> : r \in Places}
      /\ \A k \in DOMAIN platoons : platoons[k] = (CHOOSE r \in Places : <<r.platoon, r.place>> = k).id
      /\ DOMAIN positions = {<<r.platoon, r.id>> : r \in Places}
      /\ \A k \in DOMAIN positions : positions[k] = (CHOOSE r \in Places : <<r.platoon, r.id>> = k).place
  BY DEF PlanTold, Platoons, Positions
<1>4. ASSUME NEW a \in CarIds, NEW car, car = PlannedCar(a)
      PROVE  /\ <<car.platoon, car.place>> \in DOMAIN platoons
             /\ platoons[<<car.platoon, car.place>>] = a
  <2>1. car \in Places /\ <<car.platoon, car.place>> \in DOMAIN platoons
    BY <1>1, <1>3, <1>4
  <2>2. PICK k : k = <<car.platoon, car.place>>
    OBVIOUS
  <2>3. PICK r \in Places : /\ r = CHOOSE t \in Places : <<t.platoon, t.place>> = k
                            /\ <<r.platoon, r.place>> = k
    BY <2>1, <2>2
  <2>4. PICK b \in CarIds : r = PlannedCar(b)
    BY <1>1
  <2>5. PlannedCar(b).platoon = PlannedCar(a).platoon /\ PlannedCar(b).place = PlannedCar(a).place
    BY <1>4, <2>2, <2>3, <2>4
  <2>6. b = a
    BY <1>1, <2>5 DEF OnePerPlace, SameFormation
  <2>7. platoons[k] = r.id
    BY <1>3, <2>1, <2>2, <2>3
  <2>8. QED
    BY <1>1, <2>1, <2>2, <2>4, <2>6, <2>7
<1>5. ASSUME NEW a \in CarIds, NEW car, car = PlannedCar(a)
      PROVE  /\ <<car.platoon, a>> \in DOMAIN positions
             /\ positions[<<car.platoon, a>>] = car.place
  <2>1. car \in Places /\ car.id = a /\ <<car.platoon, a>> \in DOMAIN positions
    BY <1>1, <1>3, <1>5
  <2>2. PICK k : k = <<car.platoon, a>>
    OBVIOUS
  <2>3. PICK r \in Places : /\ r = CHOOSE t \in Places : <<t.platoon, t.id>> = k
                            /\ <<r.platoon, r.id>> = k
    BY <2>1, <2>2
  <2>4. PICK b \in CarIds : r = PlannedCar(b)
    BY <1>1
  <2>5. b = a
    BY <1>1, <2>2, <2>3, <2>4
  <2>6. positions[k] = r.place
    BY <1>3, <2>1, <2>2, <2>3
  <2>7. QED
    BY <1>5, <2>1, <2>2, <2>4, <2>5, <2>6
<1>6. ASSUME NEW a \in CarIds, NEW p, p = PlannedCar(a).platoon, traffic.manager # "ring"
      PROVE  p \in DOMAIN information /\ information[p] = PlannedCar(a).lane
  <2>1. /\ DOMAIN information = {r.platoon : r \in Places}
        /\ \A q \in DOMAIN information :
             information[q] = (CHOOSE r \in Places : r.platoon = q /\ r.place = 0).lane
    <3>1. {s \in Places : traffic.manager # "ring"} = Places
      BY <1>6
    <3>2. QED
      BY <3>1 DEF PlanTold, Information
  <2>2. p \in DOMAIN information
    BY <1>1, <1>6, <2>1
  <2>3. PICK f \in CarIds : SameFormation(a, f) /\ PlannedCar(f).place = 0
    <3>1. 0 \in 0..PlannedCar(a).place
      BY <1>1
    <3>2. QED
      BY <1>1, <3>1 DEF NoGap
  <2>4. PICK r \in Places : /\ r = CHOOSE t \in Places : t.platoon = p /\ t.place = 0
                            /\ r.platoon = p
    <3>1. PlannedCar(f) \in Places /\ PlannedCar(f).platoon = p /\ PlannedCar(f).place = 0
      BY <1>1, <1>6, <2>3 DEF SameFormation
    <3>2. QED
      BY <3>1
  <2>5. PICK b \in CarIds : r = PlannedCar(b)
    BY <1>1
  <2>6. PlannedCar(b).lane = PlannedCar(a).lane
    BY <1>1, <1>6, <2>4, <2>5 DEF OneLaneEach, SameFormation
  <2>7. QED
    BY <2>1, <2>2, <2>4, <2>5, <2>6
<1>7. \A k \in DOMAIN platoons : \E a \in CarIds :
        k = <<PlannedCar(a).platoon, PlannedCar(a).place>>
  BY <1>1, <1>3
<1>8. \A k \in DOMAIN positions : \E a \in CarIds : k = <<PlannedCar(a).platoon, a>>
  <2> SUFFICES ASSUME NEW k \in DOMAIN positions
               PROVE  \E a \in CarIds : k = <<PlannedCar(a).platoon, a>>
    OBVIOUS
  <2>1. PICK r \in Places : k = <<r.platoon, r.id>>
    BY <1>3
  <2>2. PICK a \in CarIds : r = PlannedCar(a)
    BY <1>1
  <2>3. QED
    BY <1>1, <2>1, <2>2
<1>9. \A p \in DOMAIN information : \E a \in CarIds : p = PlannedCar(a).platoon
  <2>1. \A p \in DOMAIN information : \E r \in Places : p = r.platoon
    BY DEF PlanTold, Information
  <2>2. QED
    BY <1>1, <2>1
<1>10. QED
  BY <1>2, <1>4, <1>5, <1>6, <1>7, <1>8, <1>9

(* The two directions of the position manager's maps agree in every run of *)
(* a process, for platoons of any number and size in any number of lanes,  *)
(* in rows or on a ring (DynamicPositionManager::addVehicleToPlatoon,      *)
(* insertPlatoons).                                                        *)
THEOREM MapsTellOneStory == Spec => []MapsAgree
<1>1. NothingTold => MapsAgree
  BY DEF NothingTold, MapsAgree
<1>2. OrderInv /\ PlanTold => MapsAgree
  <2> SUFFICES ASSUME OrderInv, PlanTold PROVE MapsAgree
    OBVIOUS
  <2> DEFINE place(a) == PlannedCar(a).place
             platoon(a) == PlannedCar(a).platoon
  <2>1. /\ DOMAIN vehToPlatoons = CarIds
        /\ \A a \in CarIds : /\ vehToPlatoons[a] = platoon(a)
                             /\ <<platoon(a), place(a)>> \in DOMAIN platoons
                             /\ platoons[<<platoon(a), place(a)>>] = a
                             /\ <<platoon(a), a>> \in DOMAIN positions
                             /\ positions[<<platoon(a), a>>] = place(a)
        /\ \A k \in DOMAIN platoons : \E a \in CarIds : k = <<platoon(a), place(a)>>
    BY PlanToldFacts DEF OrderInv
  <2>2. \A a \in CarIds : \A i \in 0..place(a) :
          \E b \in CarIds : platoon(b) = platoon(a) /\ place(b) = i
    BY PlanHolds DEF OrderInv, Plan, NoGap, SameFormation
  <2> HIDE DEF place, platoon
  <2>3. \A a \in CarIds : IsRegistered(a) /\ PlaceOf(a) = place(a)
    BY <2>1 DEF IsRegistered, PlaceOf
  <2>4. ASSUME NEW k \in DOMAIN platoons
        PROVE  /\ IsRegistered(platoons[k]) /\ vehToPlatoons[platoons[k]] = k[1]
               /\ PlaceOf(platoons[k]) = k[2]
               /\ \A i \in 0..k[2] : <<k[1], i>> \in DOMAIN platoons
    <3>1. PICK a \in CarIds : k = <<platoon(a), place(a)>>
      BY <2>1
    <3>2. platoons[k] = a /\ k[1] = platoon(a) /\ k[2] = place(a)
      BY <2>1, <3>1
    <3>3. ASSUME NEW i \in 0..place(a)
          PROVE  <<platoon(a), i>> \in DOMAIN platoons
      <4>1. PICK b \in CarIds : platoon(b) = platoon(a) /\ place(b) = i
        BY <2>2
      <4>2. <<platoon(b), place(b)>> \in DOMAIN platoons
        BY <2>1
      <4>3. QED
        BY <4>1, <4>2
    <3>4. QED
      BY <2>1, <2>3, <3>2, <3>3
  <2>5. ASSUME NEW id \in DOMAIN vehToPlatoons
        PROVE  /\ <<vehToPlatoons[id], id>> \in DOMAIN positions
               /\ platoons[<<vehToPlatoons[id], PlaceOf(id)>>] = id
    BY <2>1, <2>3
  <2>6. QED
    BY <2>4, <2>5 DEF MapsAgree
<1>3. QED
  BY <1>1, <1>2, OrderInvariant, RegistryInvariant, PTL DEF RegistryInv

(* Every event and handler of the traffic manager and of the base class    *)
(* keeps the types of the queue, the road and the position manager's maps. *)
THEOREM TypeCorrect == Spec => []TypeOK
<1>1. OrderInv => /\ traffic \in Setups /\ vehiclesCount \in [Type -> Nat]
                  /\ pending \in Seq(Event)
  <2>1. /\ <<"insertPlatoons", "insertJoiner">> \in Seq(Event)
        /\ <<"insertPlatoons">> \in Seq(Event) /\ <<"insertJoiner">> \in Seq(Event)
        /\ <<>> \in Seq(Event)
    BY DEF Event
  <2>2. PendingInv => pending \in Seq(Event)
    BY <2>1, Zenon DEF PendingInv, PendingAtStart
  <2>3. QED
    BY <2>2 DEF OrderInv
<1>2. OrderInv => queue \in Seq(Entry) /\ road \in Seq([id : Nat, entry : Entry])
  <2> SUFFICES ASSUME OrderInv PROVE queue \in Seq(Entry) /\ road \in Seq([id : Nat, entry : Entry])
    OBVIOUS
  <2>1. Queued \subseteq Entry
    BY QueuedFacts DEF OrderInv
  <2>2. Placed \subseteq [id : Nat, entry : Entry]
    BY <2>1 DEF Placed
  <2>3. queue \in Seq(Queued) /\ road \in Seq(Placed)
    BY DEF OrderInv
  <2>4. QED
    BY <2>1, <2>2, <2>3, SeqMonotonic
<1> DEFINE MapTypes == /\ DOMAIN platoons \subseteq Nat \X Nat /\ DOMAIN positions \subseteq Nat \X Nat
                       /\ vehToPlatoons \in [DOMAIN vehToPlatoons -> Nat]
                       /\ DOMAIN information \subseteq Nat
<1>3. OrderInv /\ RegistryInv => MapTypes
  <2>1. CASE NothingTold
    BY <2>1 DEF NothingTold
  <2>2. ASSUME OrderInv, PlanTold
        PROVE  MapTypes
    <3>1. \A a \in CarIds : a \in Nat /\ PlannedCar(a).platoon \in Nat /\ PlannedCar(a).place \in Nat
      BY <2>2, CarsTypes, PlanHolds DEF OrderInv, Plan, Typed
    <3>2. DOMAIN platoons \subseteq Nat \X Nat /\ DOMAIN positions \subseteq Nat \X Nat
      BY <2>2, <3>1, PlanToldFacts DEF OrderInv
    <3>3. DOMAIN information \subseteq Nat
      BY <2>2, <3>1, PlanToldFacts DEF OrderInv
    <3>4. vehToPlatoons = [a \in CarIds |-> PlannedCar(a).platoon]
      BY <2>2 DEF PlanTold, VehToPlatoons, CarIds
    <3>5. QED
      BY <3>1, <3>2, <3>3, <3>4
  <2>3. QED
    BY <2>1, <2>2 DEF RegistryInv
<1> HIDE DEF MapTypes
<1>4. Spec => [](runs \in Nat)
  <2>1. Init => runs \in Nat
    BY DEF Init
  <2>2. runs \in Nat /\ [Next]_vars => (runs \in Nat)'
    BY DEF Next, InsertPlatoons, InsertJoiner, NextRun, InsertVehicles, vars
  <2>3. QED
    BY <2>1, <2>2, PTL DEF Spec
<1>5. OrderInv /\ RegistryInv /\ runs \in Nat => TypeOK
  BY <1>1, <1>2, <1>3 DEF TypeOK, MapTypes
<1>6. QED
  BY <1>4, <1>5, OrderInvariant, RegistryInvariant, PTL

-----------------------------------------------------------------------------
(* Vehicles on the road *)

(* Vehicles whose ids count first are announced first.                     *)
RoadKinds ==
  /\ \A i \in 1..Len(road) : Kind(i, road[i].entry)
  /\ \A i, j \in 1..Len(road) :
       j < i /\ road[i].entry.type = "auto" => road[j].entry.type = "auto"

LEMMA KindsInOrder ==
  ASSUME NEW i \in Nat \ {0}, NEW x, Kind(i, x), x.type = "auto",
         NEW j \in Nat \ {0}, NEW y, Kind(j, y), j < i, traffic \in Setups
  PROVE  y.type = "auto"
<1>1. Cars \in Nat
  BY CarsTypes
<1>2. \A n, z : Planned(n, z) => z.type = "auto" /\ n <= Cars
  BY <1>1 DEF Planned, AsEntry
<1>3. \A n, z : Stray(n, z) => z.type = "auto" /\ n > Cars /\ traffic.manager # "human"
  BY DEF Stray
<1>4. \A n, z : Human(n, z) => z.type = "human" /\ n > Cars /\ traffic.manager = "human"
  BY DEF Human
<1>5. QED
  BY <1>1, <1>2, <1>3, <1>4 DEF Kind

LEMMA AnnouncedAre ==
  ASSUME traffic \in Setups
  PROVE  Announced \in Seq(Entry) /\ \A i \in 1..Len(Announced) : Kind(i, Announced[i])
<1>1. PICK s \in Seq(Entry) :
        /\ s = Entries("insertPlatoons") /\ Cars \in Nat /\ Cars <= Len(s)
        /\ \A i \in 1..Len(s) : Kind(i, s[i])
  BY EntriesAre
<1>2. CASE pending = PendingAtStart
  <2>1. Announced = <<>>
    BY <1>2 DEF Announced
  <2>2. QED
    BY <2>1
<1>3. CASE pending # PendingAtStart /\ pending = <<>> /\ traffic.manager = "join"
  <2>1. PICK joiner \in Entry : joiner = [type |-> "auto", lane |-> 2, position |-> 0]
    <3>1. [type |-> "auto", lane |-> 2, position |-> 0] \in Entry
      BY DEF Entry, Type
    <3>2. QED
      BY <3>1
  <2>2. Announced = s \o <<joiner>>
    BY <1>1, <1>3, <2>1 DEF Announced, Entries
  <2>3. /\ s \o <<joiner>> \in Seq(Entry) /\ Len(s \o <<joiner>>) = Len(s) + 1
        /\ \A i \in 1..Len(s) : (s \o <<joiner>>)[i] = s[i]
        /\ (s \o <<joiner>>)[Len(s) + 1] = joiner
    OBVIOUS
  <2>4. Stray(Len(s) + 1, joiner)
    BY <1>1, <1>3, <2>1 DEF Stray
  <2>5. \A i \in 1..(Len(s) + 1) : i \in 1..Len(s) \/ i = Len(s) + 1
    OBVIOUS
  <2>6. QED
    BY <1>1, <2>2, <2>3, <2>4, <2>5 DEF Kind
<1>4. CASE pending # PendingAtStart /\ ~(pending = <<>> /\ traffic.manager = "join")
  <2>1. Announced = s
    BY <1>1, <1>4 DEF Announced
  <2>2. QED
    BY <1>1, <2>1
<1>5. QED
  BY <1>2, <1>3, <1>4

LEMMA OnRoadAsAnnounced == OrderInv => RoadKinds
<1> SUFFICES ASSUME OrderInv PROVE RoadKinds
  OBVIOUS
<1>1. /\ road \in Seq(Placed) /\ Len(road) \in Nat /\ queue \in Seq(Queued)
      /\ \A i \in 1..Len(road) : road[i].entry \in Queued
  <2>1. road \in Seq(Placed) /\ \A i \in 1..Len(road) : road[i] \in Placed
    BY DEF OrderInv
  <2>2. QED
    BY <2>1 DEF Placed, OrderInv
<1>2. PICK s \in Seq(Queued) : /\ s = OnRoadInOrder /\ Len(s) = Len(road)
                               /\ \A i \in 1..Len(road) : s[i] = road[i].entry
  <2>1. OnRoadInOrder \in [1..Len(road) -> Queued]
    BY <1>1 DEF OnRoadInOrder
  <2>2. OnRoadInOrder \in Seq(Queued) /\ Len(OnRoadInOrder) = Len(road)
    BY <1>1, <2>1, FunctionIsSeq
  <2>3. QED
    BY <2>2 DEF OnRoadInOrder
<1>3. s \o queue = Announced
  BY <1>2 DEF OrderInv, InOrder, OnRoadInOrder
<1>4. /\ Len(s \o queue) >= Len(s)
      /\ \A i \in 1..Len(s) : (s \o queue)[i] = s[i]
  BY <1>1
<1>5. \A i \in 1..Len(Announced) : Kind(i, Announced[i])
  BY AnnouncedAre DEF OrderInv
<1>6. \A i \in 1..Len(road) : Kind(i, road[i].entry)
  <2>1. Len(Announced) \in Nat
    BY AnnouncedAre DEF OrderInv
  <2>2. \A i \in 1..Len(road) : i \in 1..Len(Announced) /\ Announced[i] = road[i].entry
    BY <1>1, <1>2, <1>3, <1>4, <2>1
  <2>3. QED
    BY <1>5, <2>2
<1>7. ASSUME NEW i \in 1..Len(road), NEW j \in 1..Len(road), j < i, road[i].entry.type = "auto"
      PROVE  road[j].entry.type = "auto"
  <2>1. i \in Nat \ {0} /\ j \in Nat \ {0}
    BY <1>1
  <2>2. QED
    BY <1>6, <1>7, <2>1, KindsInOrder DEF OrderInv
<1>8. QED
  BY <1>6, <1>7 DEF RoadKinds

(* So a vehicle's id is its place in the order of insertion.               *)
NumbersInv ==
  /\ \A i \in 1..Len(road) : road[i].entry.type = "auto" => road[i].id = i - 1
  /\ (\A i \in 1..Len(road) : road[i].entry.type = "auto") => vehiclesCount["auto"] = Len(road)

LEMMA OfTypeAll ==
  ASSUME NEW s, NEW type, NEW n \in Nat, \A i \in 1..n : s[i].type = type
  PROVE  OfType(s, type, n) = n
<1>1. {i \in 1..n : s[i].type = type} = 1..n
  OBVIOUS
<1>2. Cardinality(1..n) = n
  BY FS_Interval
<1>3. QED
  BY <1>1, <1>2 DEF OfType

LEMMA TakenNumbers ==
  ASSUME OrderInv, RoadKinds', NumbersInv, NEW k \in 1..Len(queue), InsertVehicles(k)
  PROVE  NumbersInv'
<1>1. PICK taken : taken = SubSeq(queue, 1, k)
  OBVIOUS
<1>2. PICK n \in Nat : n = Len(road)
  BY DEF OrderInv
<1>3. /\ Len(road') = n + k /\ k \in Nat
      /\ \A i \in 1..n : road'[i] = road[i]
      /\ \A i \in 1..k : road'[n + i] = [id |-> Number(taken, i), entry |-> taken[i]]
      /\ vehiclesCount'["auto"] = vehiclesCount["auto"] + OfType(taken, "auto", k)
  <2>1. k \in Nat
    BY DEF OrderInv
  <2>2. /\ Len(road') = Len(road) + k
        /\ \A i \in 1..Len(road) : road'[i] = road[i]
        /\ \A i \in 1..k : road'[Len(road) + i] = [id |-> Number(taken, i), entry |-> taken[i]]
        /\ \A type \in Type : vehiclesCount'[type] = vehiclesCount[type] + OfType(taken, type, k)
    BY <1>1, TakenFacts, ZenonT(40)
  <2>3. QED
    BY <1>2, <2>1, <2>2 DEF Type
<1>4. \A i \in 1..k : /\ n + i \in 1..(n + k)
                      /\ road'[n + i].id = Number(taken, i)
                      /\ road'[n + i].entry = taken[i]
  <2> TAKE i \in 1..k
  <2>1. n + i \in 1..(n + k)
    BY <1>3
  <2>2. road'[n + i] = [id |-> Number(taken, i), entry |-> taken[i]]
    BY <1>3
  <2>3. QED
    BY <2>1, <2>2
<1>5. ASSUME NEW i \in 1..(n + k)
      PROVE  i \in 1..n \/ \E m \in 1..k : i = n + m
  <2>1. CASE i <= n
    BY <2>1
  <2>2. CASE i > n
    <3>1. i - n \in 1..k /\ i = n + (i - n)
      BY <1>3, <2>2
    <3>2. QED
      BY <3>1
  <2>3. QED
    BY <2>1, <2>2
<1>6. (\A i \in 1..n : road[i].entry.type = "auto") => vehiclesCount["auto"] = n
  BY <1>2 DEF NumbersInv
<1>7. ASSUME NEW i \in 1..(n + k), road'[i].entry.type = "auto"
      PROVE  road'[i].id = i - 1
  <2>1. CASE i \in 1..n
    BY <1>2, <1>3, <1>7, <2>1 DEF NumbersInv
  <2>2. ASSUME NEW m \in 1..k, i = n + m
        PROVE  road'[i].id = i - 1
    <3>1. \A j \in 1..(n + k) : j < i => road'[j].entry.type = "auto"
      BY <1>3, <1>7 DEF RoadKinds
    <3>2. \A j \in 1..n : road[j].entry.type = "auto"
      <4>1. \A j \in 1..n : j \in 1..(n + k) /\ j < i
        BY <1>3, <2>2
      <4>2. QED
        BY <1>3, <3>1, <4>1
    <3>3. \A j \in 1..(m - 1) : taken[j].type = "auto"
      <4>1. \A j \in 1..(m - 1) : j \in 1..k /\ n + j < i
        BY <1>3, <2>2
      <4>2. QED
        BY <1>4, <3>1, <4>1
    <3>4. m - 1 \in Nat /\ taken[m].type = "auto"
      BY <1>4, <1>7, <2>2
    <3>5. OfType(taken, "auto", m - 1) = m - 1
      BY <3>3, <3>4, OfTypeAll
    <3>6. road'[i].id = n + (m - 1)
      BY <1>4, <1>6, <2>2, <3>2, <3>4, <3>5 DEF Number
    <3>7. QED
      BY <2>2, <3>6
  <2>3. QED
    BY <1>5, <2>1, <2>2
<1>8. ASSUME \A i \in 1..(n + k) : road'[i].entry.type = "auto"
      PROVE  vehiclesCount'["auto"] = n + k
  <2>1. \A j \in 1..n : j \in 1..(n + k)
    BY <1>3
  <2>2. \A j \in 1..n : road[j].entry.type = "auto"
    BY <1>3, <1>8, <2>1
  <2>3. \A j \in 1..k : taken[j].type = "auto"
    BY <1>4, <1>8
  <2>4. OfType(taken, "auto", k) = k
    BY <1>3, <2>3, OfTypeAll
  <2>5. QED
    BY <1>3, <1>6, <2>2, <2>4
<1>9. QED
  BY <1>3, <1>7, <1>8 DEF NumbersInv

LEMMA NextNumbers == OrderInv /\ RoadKinds' /\ NumbersInv /\ [Next]_vars => NumbersInv'
<1> SUFFICES ASSUME OrderInv, RoadKinds', NumbersInv, [Next]_vars PROVE NumbersInv'
  OBVIOUS
<1>1. ASSUME NEW k \in 1..Len(queue), InsertVehicles(k)
      PROVE  NumbersInv'
  BY <1>1, TakenNumbers
<1>2. CASE NextRun
  BY <1>2 DEF NextRun, NumbersInv, Type
<1>3. CASE InsertPlatoons \/ InsertJoiner \/ UNCHANGED vars
  <2>1. road' = road /\ vehiclesCount' = vehiclesCount
    BY <1>3 DEF InsertPlatoons, InsertJoiner, vars
  <2>2. QED
    BY <2>1 DEF NumbersInv
<1>4. QED
  BY <1>1, <1>2, <1>3 DEF Next

LEMMA NumbersInvariant == Spec => [](RoadKinds /\ NumbersInv)
<1>1. Init => NumbersInv
  BY DEF Init, NumbersInv, Type
<1>2. QED
  BY <1>1, OnRoadAsAnnounced, OrderInvariant, NextNumbers, PTL DEF Spec

(* An id given by insertion is the id its platoon was registered with: the *)
(* vehicle that gets it is the planned one.                                *)
LEMMA RegisteredIsPlanned ==
  ASSUME OrderInv, PlanTold, RoadKinds, NumbersInv,
         NEW i \in AutoCars, IsRegistered(road[i].id)
  PROVE  \E a \in CarIds :
           /\ road[i].id = a
           /\ road[i].entry.lane = PlannedCar(a).lane
           /\ road[i].entry.position = PlannedCar(a).position
           /\ vehToPlatoons[road[i].id] = PlannedCar(a).platoon
           /\ PlaceOf(road[i].id) = PlannedCar(a).place
<1>1. i \in 1..Len(road) /\ road[i].entry.type = "auto" /\ Len(road) \in Nat
  BY RoadFacts DEF AutoCars
<1>2. road[i].id = i - 1 /\ i - 1 \in CarIds
  BY <1>1, PlanToldFacts DEF NumbersInv, IsRegistered, OrderInv
<1>3. PICK a \in CarIds : a = i - 1
  BY <1>2
<1>4. i <= Cars /\ Cars \in Nat
  BY <1>1, <1>3, CarsTypes DEF OrderInv, CarIds
<1>5. Planned(i, road[i].entry)
  BY <1>1, <1>4 DEF RoadKinds, Kind, Stray, Human
<1>6. road[i].entry = AsEntry(PlannedCar(a))
  BY <1>3, <1>5 DEF Planned
<1>7. road[i].entry.lane = PlannedCar(a).lane /\ road[i].entry.position = PlannedCar(a).position
  BY <1>6 DEF AsEntry
<1>8. /\ vehToPlatoons[a] = PlannedCar(a).platoon
      /\ positions[<<PlannedCar(a).platoon, a>>] = PlannedCar(a).place
  BY PlanToldFacts DEF OrderInv
<1>9. PlaceOf(a) = PlannedCar(a).place
  BY <1>8 DEF PlaceOf
<1>10. QED
  BY <1>2, <1>3, <1>7, <1>8, <1>9

(* Nobody else in its lane comes between two vehicles of a platoon.        *)
LEMMA NobodyBetween ==
  ASSUME traffic \in Setups, NEW a \in CarIds, NEW b \in CarIds, Follows(a, b),
         NEW n, NEW x, Kind(n, x),
         Before(PlannedCar(a), x), Before(x, PlannedCar(b))
  PROVE  FALSE
<1>1. Typed /\ CloseUp
  BY PlanHolds DEF Plan
<1>2. CASE Planned(n, x)
  <2>1. PICK c \in CarIds : x = AsEntry(PlannedCar(c))
    <3>1. n - 1 \in CarIds
      BY <1>2, CarsTypes DEF Planned, CarIds
    <3>2. QED
      BY <1>2, <3>1 DEF Planned
  <2>2. x.lane = PlannedCar(c).lane /\ x.position = PlannedCar(c).position
    BY <2>1 DEF AsEntry
  <2>3. Before(PlannedCar(a), PlannedCar(c)) /\ Before(PlannedCar(c), PlannedCar(b))
    BY <2>2 DEF Before
  <2>4. QED
    BY <1>1, <2>3 DEF CloseUp
<1>3. CASE Stray(n, x)
  <2>1. traffic.manager # "ring" /\ x.position = 0
    BY <1>3 DEF Stray
  <2>2. PICK g \in Nat, r \in 0..(traffic.platoonSize - 1), l \in 0..(traffic.nLanes - 1) :
          RowSeat(a, g, r, l)
    BY <2>1, RowSeatOf
  <2>3. PICK h \in Nat, q \in 0..(traffic.platoonSize - 1), k \in 0..(traffic.nLanes - 1) :
          RowSeat(b, h, q, k)
    BY <2>1, RowSeatOf
  <2>4. g = h
    BY <2>2, <2>3, RowSameFormation DEF Follows
  <2>5. RowPosition(RowOf(g, r)) > 0 /\ 0 > RowPosition(RowOf(h, q))
    BY <2>1, <2>2, <2>3 DEF Before, RowSeat
  <2>6. RowPosition(RowOf(g, r)) \in Int /\ RowPosition(RowOf(h, q)) \in Int
    BY RowPositionIs
  <2>7. /\ g < NPlatoons => RowPosition(RowOf(h, q)) > 0
        /\ NPlatoons <= g => RowPosition(RowOf(g, r)) <= 0
    BY <2>4, RowsOnRoad
  <2>8. g < NPlatoons \/ NPlatoons <= g
    BY SetupTypes
  <2>9. QED
    BY <2>5, <2>6, <2>7, <2>8
<1>4. CASE Human(n, x)
  <2>1. PlannedCar(a).lane \in 0..(traffic.nLanes - 1)
    BY <1>1 DEF Typed
  <2>2. x.lane >= traffic.nLanes /\ x.lane = PlannedCar(a).lane
    BY <1>4 DEF Human, Before
  <2>3. QED
    BY <2>1, <2>2, SetupTypes
<1>5. QED
  BY <1>2, <1>3, <1>4 DEF Kind

(* A vehicle's id, given when SUMO accepts it, and its formation,          *)
(* registered when it is queued under the id it is expected to get, fit    *)
(* together on the road for every configuration, whatever SUMO refuses and *)
(* in every run (TraCIBaseTrafficManager::insertVehicles, insertPlatoons). *)
THEOREM RegisteredInFormation == Spec => []InFormation
<1>1. NothingTold => InFormation
  BY DEF NothingTold, InFormation, SamePlatoon, IsRegistered
<1>2. OrderInv /\ PlanTold /\ RoadKinds /\ NumbersInv => InFormation
  <2> SUFFICES ASSUME OrderInv, PlanTold, RoadKinds, NumbersInv,
                      NEW i \in AutoCars, NEW j \in AutoCars
               PROVE  /\ IsRegistered(road[i].id) /\ traffic.manager # "ring" => InLane(i)
                      /\ SamePlatoon(i, j) /\ PlaceOf(road[j].id) = PlaceOf(road[i].id) + 1 =>
                           /\ Ahead(i, j)
                           /\ ~ \E m \in DOMAIN road : Ahead(i, m) /\ Ahead(m, j)
    BY DEF InFormation
  <2>1. ASSUME IsRegistered(road[i].id), traffic.manager # "ring"
        PROVE  InLane(i)
    <3>1. PICK a \in CarIds : /\ road[i].entry.lane = PlannedCar(a).lane
                              /\ vehToPlatoons[road[i].id] = PlannedCar(a).platoon
      BY <2>1, RegisteredIsPlanned
    <3>2. information[PlannedCar(a).platoon] = PlannedCar(a).lane
      BY <2>1, PlanToldFacts DEF OrderInv
    <3>3. QED
      BY <3>1, <3>2 DEF InLane
  <2>2. ASSUME SamePlatoon(i, j), PlaceOf(road[j].id) = PlaceOf(road[i].id) + 1
        PROVE  Ahead(i, j) /\ ~ \E m \in DOMAIN road : Ahead(i, m) /\ Ahead(m, j)
    <3>1. PICK a \in CarIds : /\ road[i].entry.lane = PlannedCar(a).lane
                              /\ road[i].entry.position = PlannedCar(a).position
                              /\ vehToPlatoons[road[i].id] = PlannedCar(a).platoon
                              /\ PlaceOf(road[i].id) = PlannedCar(a).place
      BY <2>2, RegisteredIsPlanned DEF SamePlatoon
    <3>2. PICK b \in CarIds : /\ road[j].entry.lane = PlannedCar(b).lane
                              /\ road[j].entry.position = PlannedCar(b).position
                              /\ vehToPlatoons[road[j].id] = PlannedCar(b).platoon
                              /\ PlaceOf(road[j].id) = PlannedCar(b).place
      BY <2>2, RegisteredIsPlanned DEF SamePlatoon
    <3>3. Follows(a, b)
      BY <2>2, <3>1, <3>2 DEF SamePlatoon, Follows, SameFormation
    <3>4. Ahead(i, j)
      <4>1. Before(PlannedCar(a), PlannedCar(b))
        BY <3>3, PlanHolds DEF OrderInv, Plan, CloseUp
      <4>2. QED
        BY <3>1, <3>2, <4>1 DEF Before, Ahead
    <3>5. ASSUME NEW m \in DOMAIN road, Ahead(i, m), Ahead(m, j)
          PROVE  FALSE
      <4>1. Kind(m, road[m].entry)
        BY RoadFacts DEF RoadKinds
      <4>2. Before(PlannedCar(a), road[m].entry) /\ Before(road[m].entry, PlannedCar(b))
        BY <3>1, <3>2, <3>5 DEF Before, Ahead
      <4>3. QED
        BY <3>3, <4>1, <4>2, NobodyBetween DEF OrderInv
    <3>6. QED
      BY <3>4, <3>5
  <2>3. QED
    BY <2>1, <2>2
<1>3. QED
  BY <1>1, <1>2, OrderInvariant, RegistryInvariant, NumbersInvariant, PTL DEF RegistryInv

-----------------------------------------------------------------------------
(* Roles *)

LEMMA LeaderIsFirst ==
  ASSUME traffic \in Setups, PlanTold, NEW a \in CarIds
  PROVE  LeaderOf(a) = a <=> PlannedCar(a).place = 0
<1>1. OnePerPlace /\ NoGap /\ PlannedCar(a).place \in Nat
  BY PlanHolds DEF Plan, Typed
<1>2. PICK b \in CarIds : SameFormation(a, b) /\ PlannedCar(b).place = 0
  <2>1. 0 \in 0..PlannedCar(a).place
    BY <1>1
  <2>2. QED
    BY <1>1, <2>1 DEF NoGap
<1>3. LeaderOf(a) = b
  <2>1. vehToPlatoons[a] = PlannedCar(b).platoon
    BY <1>2, PlanToldFacts DEF SameFormation
  <2>2. platoons[<<PlannedCar(b).platoon, 0>>] = b
    BY <1>2, PlanToldFacts
  <2>3. QED
    BY <2>1, <2>2 DEF LeaderOf
<1>4. PlannedCar(a).place = 0 => a = b
  BY <1>1, <1>2 DEF OnePerPlace
<1>5. QED
  BY <1>2, <1>3, <1>4

(* In one lane a vehicle's place follows from its id.                      *)
LEMMA PlaceById ==
  ASSUME traffic \in Setups, traffic.manager # "ring", traffic.nLanes = 1, NEW a \in CarIds
  PROVE  PlannedCar(a).place = a % traffic.platoonSize /\ a < traffic.nCars /\ a \in Nat
<1>1. PICK g \in Nat, r \in 0..(traffic.platoonSize - 1), l \in 0..(traffic.nLanes - 1) :
        RowSeat(a, g, r, l)
  BY RowSeatOf
<1>2. l = 0 /\ RowOf(g, r) \in Nat
  BY RowOfFacts
<1>3. a = RowOf(g, r) /\ RowOf(g, r) < Rows /\ PlannedCar(a).place = r
  BY <1>1, <1>2 DEF RowSeat
<1>4. r = RowOf(g, r) % traffic.platoonSize
  BY RowOfFacts DEF RowPlace
<1>5. Rows = traffic.nCars
  <2>1. PICK n \in Nat : n = traffic.nCars
    BY SetupTypes
  <2>2. n \div 1 = n
    OBVIOUS
  <2>3. QED
    BY <2>1, <2>2 DEF Rows
<1>6. QED
  BY <1>2, <1>3, <1>4, <1>5

(* Roles are given by id, formations come from the position manager: with  *)
(* configurations that fit the ids in the code, exactly the first vehicle  *)
(* of each platoon leads it, for platoons of any number and size           *)
(* (LaneChangeManeuverScenario.cc:52, MergeManeuverScenario.cc:40,         *)
(* JoinManeuverScenario.cc:48).                                            *)
THEOREM RolesFitFormations == FittingSetups => (Spec => []RolesMatchFormation)
<1> SUFFICES ASSUME FittingSetups PROVE Spec => []RolesMatchFormation
  OBVIOUS
<1>1. NothingTold => RolesMatchFormation
  BY DEF NothingTold, RolesMatchFormation, IsRegistered
<1>2. OrderInv /\ PlanTold /\ RoadKinds /\ NumbersInv => RolesMatchFormation
  <2> SUFFICES ASSUME OrderInv, PlanTold, RoadKinds, NumbersInv,
                      traffic.scenario # "other", traffic.nLanes = 1,
                      NEW i \in AutoCars, IsRegistered(road[i].id)
               PROVE  RolesOf(road[i].id) =
                        {IF LeaderOf(road[i].id) = road[i].id THEN "LEADER" ELSE "FOLLOWER"}
    BY DEF RolesMatchFormation
  <2>1. PICK a \in CarIds : road[i].id = a
    BY RegisteredIsPlanned
  <2>2. /\ traffic \in Setups /\ IsRegistered(a)
        /\ traffic.scenario \in {"join", "merge", "lane_change"}
        /\ traffic.platoonSize \in Nat \ {0}
    BY <2>1, SetupAssumption DEF OrderInv
  <2>3. IsLeader(a) = {LeaderOf(a) = a}
    BY <2>2 DEF IsLeader
  <2>4. CASE traffic.scenario = "merge"
    BY <2>1, <2>3, <2>4 DEF RolesOf, RoleOf, MergeRole
  <2>5. ASSUME traffic.manager # "ring"
        PROVE  /\ a \in Nat /\ a < traffic.nCars
               /\ LeaderOf(a) = a <=> a % traffic.platoonSize = 0
    BY <2>2, <2>5, LeaderIsFirst, PlaceById
  <2>6. CASE traffic.scenario = "lane_change"
    <3>1. /\ a \in Nat /\ a < traffic.nCars /\ traffic.nCars \in Nat
          /\ LeaderOf(a) = a <=> a % traffic.platoonSize = 0
      BY <2>2, <2>5, <2>6, SetupTypes DEF FittingSetups
    <3>2. LaneChangeRole(a, LeaderOf(a) = a) = IF LeaderOf(a) = a THEN "LEADER" ELSE "FOLLOWER"
      BY <3>1 DEF LaneChangeRole
    <3>3. RolesOf(a) = {LaneChangeRole(a, LeaderOf(a) = a)}
      BY <2>3, <2>6 DEF RolesOf, RoleOf
    <3>4. QED
      BY <2>1, <3>2, <3>3
  <2>7. CASE traffic.scenario = "join"
    <3>1. /\ a \in Nat /\ a < traffic.nCars /\ traffic.nCars \in Nat
          /\ traffic.nCars <= 4 /\ traffic.nCars <= traffic.platoonSize
          /\ LeaderOf(a) = a <=> a % traffic.platoonSize = 0
      BY <2>2, <2>5, <2>7, SetupTypes DEF FittingSetups
    <3>2. a % traffic.platoonSize = a
      <4>1. PICK s \in Nat \ {0} : s = traffic.platoonSize /\ a < s
        BY <2>2, <3>1
      <4>2. a \in 0..(s - 1) /\ s * 0 + a = a
        BY <3>1, <4>1
      <4>3. (s * 0 + a) % s = a
        BY <4>2, DivOfProduct
      <4>4. QED
        BY <4>1, <4>2, <4>3
    <3>3. JoinRole(a) = IF a = 0 THEN "LEADER" ELSE "FOLLOWER"
      BY <3>1 DEF JoinRole
    <3>4. RolesOf(a) = {JoinRole(a)}
      BY <2>3, <2>7 DEF RolesOf, RoleOf
    <3>5. QED
      BY <2>1, <3>1, <3>2, <3>3, <3>4
  <2>8. QED
    BY <2>2, <2>4, <2>6, <2>7
<1>3. QED
  BY <1>1, <1>2, OrderInvariant, RegistryInvariant, NumbersInvariant, PTL DEF RegistryInv

=============================================================================
