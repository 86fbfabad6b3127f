------------------------ MODULE PlatoonFormationProofs ------------------------
(***************************************************************************)
(* The formations the vehicles hold fit together, for every set of         *)
(* platoons, joiners and merging leaders: every member finds itself in the *)
(* formation it holds, and a formation changes only by growing.            *)
(*                                                                         *)
(* The argument.  Each leader stands for one line of vehicles, Known: its  *)
(* formation, or the new one once the vehicle it is admitting follows it,  *)
(* or the one it had when it became a follower itself.  Only the admission *)
(* of a joiner or of a merging platoon changes that line, and lengthens it *)
(* at the back.  All the formations under way, those the vehicles hold,    *)
(* those in formation updates and those a merging leader took from its     *)
(* new leader, are front parts of the line of their first vehicle; and a   *)
(* leader that follows another stands in front of its old formation in     *)
(* any of them.                                                            *)
(*                                                                         *)
(* Where platoons are only joined, a follower either holds the formation   *)
(* of its leader, or that formation is on its way to it, or the leader     *)
(* has yet to hear that it follows (Agreement); so when all is quiet the   *)
(* members of a platoon agree.                                             *)
(***************************************************************************)
EXTENDS PlatoonMembershipProofs

-----------------------------------------------------------------------------
(* Parts of sequences *)

Occurs(x, g)  == \E i \in 1 .. Len(g) : g[i] = x
Follows(x, g) == \E i \in 2 .. Len(g) : g[i] = x
Distinct(g)   == \A i, j \in 1 .. Len(g) : g[i] = g[j] => i = j

Begins(f, g)   == Len(f) <= Len(g) /\ \A i \in 1 .. Len(f) : f[i] = g[i]
(* g has f after its first n places.                                       *)
After(n, f, g) == n + Len(f) <= Len(g) /\ \A i \in 1 .. Len(f) : g[n + i] = f[i]

LEMMA BeginsRefl ==
  ASSUME NEW f \in Formation PROVE Begins(f, f)
BY DEF Begins, Formation

LEMMA BeginsTrans ==
  ASSUME NEW f \in Formation, NEW g \in Formation, NEW h \in Formation, Begins(f, g), Begins(g, h)
  PROVE  Begins(f, h)
BY DEF Begins, Formation

LEMMA BeginningsCompare ==
  ASSUME NEW f \in Formation, NEW g \in Formation, NEW h \in Formation,
         Begins(f, h), Begins(g, h), Len(f) <= Len(g)
  PROVE  Begins(f, g)
BY DEF Begins, Formation

LEMMA BeginningOfAfter ==
  ASSUME NEW f \in Formation, NEW g \in Formation, NEW h \in Formation, NEW n \in Nat,
         Begins(f, g), After(n, g, h)
  PROVE  After(n, f, h)
BY DEF Begins, After, Formation

LEMMA AfterBegins ==
  ASSUME NEW f \in Formation, NEW g \in Formation, NEW h \in Formation, NEW n \in Nat,
         After(n, f, g), Begins(g, h)
  PROVE  After(n, f, h)
<1>1. n + Len(f) <= Len(h)
  BY DEF After, Begins, Formation
<1>2. ASSUME NEW i \in 1 .. Len(f)
      PROVE  h[n + i] = f[i]
  <2>1. n + i \in 1 .. Len(g) /\ g[n + i] = f[i]
    BY DEF After, Formation
  <2>2. QED
    BY <2>1 DEF Begins
<1>3. QED
  BY <1>1, <1>2 DEF After

LEMMA AfterIsPrefix ==
  ASSUME NEW f \in Formation, NEW g \in Formation, NEW n \in Nat, After(n, f, g), f # <<>>
  PROVE  /\ n + 1 \in 1 .. Len(g)
         /\ IsPrefix(f, SubSeq(g, n + 1, Len(g)))
<1>1. Len(f) \in Nat \ {0} /\ Len(g) \in Nat /\ n + Len(f) <= Len(g)
  BY DEF After, Formation
<1>2. n + 1 \in 1 .. Len(g)
  BY <1>1
<1> DEFINE s == SubSeq(g, n + 1, Len(g))
<1>3. /\ s \in Seq(Vehicle) /\ Len(s) = Len(g) - n
      /\ \A i \in 1 .. Len(g) - n : s[i] = g[n + i]
  BY <1>1 DEF Formation
<1>4. \A i \in 1 .. Len(f) : s[i] = f[i]
  BY <1>1, <1>3 DEF After
<1> HIDE DEF s
<1>5. Len(f) <= Len(s)
  BY <1>1, <1>3
<1>6. SubSeq(f, 1, Len(f)) = SubSeq(s, 1, Len(f))
  BY <1>1, <1>3, <1>4, <1>5 DEF Formation
<1>7. IsPrefix(f, s)
  BY <1>5, <1>6 DEF IsPrefix
<1>8. QED
  BY <1>2, <1>7 DEF s

LEMMA BeginsIsPrefix ==
  ASSUME NEW f \in Formation, NEW g \in Formation, Begins(f, g)
  PROVE  IsPrefix(f, g)
<1>1. Len(f) \in Nat /\ Len(g) \in Nat /\ Len(f) <= Len(g)
  BY DEF Begins, Formation
<1>2. SubSeq(f, 1, Len(f)) = SubSeq(g, 1, Len(f))
  BY <1>1 DEF Begins, Formation
<1>3. QED
  BY <1>1, <1>2 DEF IsPrefix

(* f with g behind it.                                                     *)
LEMMA Coupled ==
  ASSUME NEW f \in Formation, NEW g \in Formation
  PROVE  /\ f \o g \in Formation /\ Len(f \o g) = Len(f) + Len(g)
         /\ \A i \in 1 .. Len(f) : (f \o g)[i] = f[i]
         /\ \A i \in 1 .. Len(g) : (f \o g)[Len(f) + i] = g[i]
         /\ Begins(f, f \o g) /\ After(Len(f), g, f \o g)
         /\ \A x : Occurs(x, f \o g) <=> Occurs(x, f) \/ Occurs(x, g)
<1>1. /\ f \o g \in Formation /\ Len(f \o g) = Len(f) + Len(g)
      /\ Len(f) \in Nat /\ Len(g) \in Nat
  BY DEF Formation
<1>2. \A i \in 1 .. Len(f) : (f \o g)[i] = f[i]
  BY <1>1 DEF Formation
<1>3. \A i \in 1 .. Len(g) : (f \o g)[Len(f) + i] = g[i]
  BY <1>1 DEF Formation
<1> DEFINE h == f \o g
<1> HIDE DEF h
<1>4. Begins(f, h) /\ After(Len(f), g, h)
  BY <1>1, <1>2, <1>3 DEF Begins, After, h
<1>5. ASSUME NEW x, Occurs(x, h)
      PROVE  Occurs(x, f) \/ Occurs(x, g)
  <2>1. PICK i \in 1 .. Len(h) : h[i] = x
    BY <1>5 DEF Occurs
  <2>2. CASE i <= Len(f)
    <3>1. i \in 1 .. Len(f)
      BY <1>1, <2>2 DEF h
    <3>2. QED
      BY <1>2, <2>1, <3>1 DEF Occurs, h
  <2>3. CASE ~(i <= Len(f))
    <3>1. i - Len(f) \in 1 .. Len(g) /\ Len(f) + (i - Len(f)) = i
      BY <1>1, <2>3 DEF h
    <3>2. g[i - Len(f)] = x
      BY <1>3, <2>1, <3>1 DEF h
    <3>3. QED
      BY <3>1, <3>2 DEF Occurs
  <2>4. QED
    BY <2>2, <2>3
<1>6. ASSUME NEW x, Occurs(x, f)
      PROVE  Occurs(x, h)
  <2>1. PICK i \in 1 .. Len(f) : f[i] = x
    BY <1>6 DEF Occurs
  <2>2. i \in 1 .. Len(h) /\ h[i] = x
    BY <1>1, <1>2, <2>1 DEF h
  <2>3. QED
    BY <2>2 DEF Occurs
<1>7. ASSUME NEW x, Occurs(x, g)
      PROVE  Occurs(x, h)
  <2>1. PICK i \in 1 .. Len(g) : g[i] = x
    BY <1>7 DEF Occurs
  <2>2. Len(f) + i \in 1 .. Len(h) /\ h[Len(f) + i] = x
    BY <1>1, <1>3, <2>1 DEF h
  <2>3. QED
    BY <2>2 DEF Occurs
<1>8. QED
  BY <1>1, <1>2, <1>3, <1>4, <1>5, <1>6, <1>7 DEF h

LEMMA OccursInBeginning ==
  ASSUME NEW f \in Formation, NEW g \in Formation, Begins(f, g), NEW x, Occurs(x, f)
  PROVE  Occurs(x, g)
<1>1. PICK i \in 1 .. Len(f) : f[i] = x
  BY DEF Occurs
<1>2. i \in 1 .. Len(g) /\ g[i] = x
  BY <1>1 DEF Begins, Formation
<1>3. QED
  BY <1>2 DEF Occurs

(* In the terms of the properties. *)
LEMMA OccursToSet ==
  ASSUME NEW g \in Formation, NEW x
  PROVE  /\ x \in ToSet(g) <=> Occurs(x, g)
         /\ g # <<>> => (x \in ToSet(Tail(g)) <=> Follows(x, g))
         /\ g # <<>> => Head(g) = g[1] /\ Len(g) >= 1
         /\ IsInjective(g) <=> Distinct(g)
<1>1. DOMAIN g = 1 .. Len(g) /\ Len(g) \in Nat
  BY DEF Formation
<1>2. x \in ToSet(g) <=> Occurs(x, g)
  BY <1>1 DEF ToSet, Occurs
<1>3. IsInjective(g) <=> Distinct(g)
  BY <1>1 DEF IsInjective, Distinct
<1>4. ASSUME g # <<>>
      PROVE  Head(g) = g[1] /\ Len(g) >= 1
  BY <1>4 DEF Formation
<1>5. ASSUME g # <<>>
      PROVE  x \in ToSet(Tail(g)) <=> Follows(x, g)
  <2>1. /\ DOMAIN Tail(g) = 1 .. (Len(g) - 1)
        /\ \A i \in 1 .. (Len(g) - 1) : Tail(g)[i] = g[i + 1]
    BY <1>5 DEF Formation
  <2> DEFINE t == Tail(g)
  <2>2. x \in ToSet(t) <=> \E i \in 1 .. (Len(g) - 1) : t[i] = x
    BY <2>1 DEF ToSet
  <2> HIDE DEF t
  <2>3. ASSUME NEW i \in 1 .. (Len(g) - 1), t[i] = x
        PROVE  Follows(x, g)
    <3>1. i + 1 \in 2 .. Len(g) /\ g[i + 1] = x
      BY <1>1, <2>1, <2>3 DEF t
    <3>2. QED
      BY <3>1 DEF Follows
  <2>4. ASSUME NEW j \in 2 .. Len(g), g[j] = x
        PROVE  \E i \in 1 .. (Len(g) - 1) : t[i] = x
    <3>1. j - 1 \in 1 .. (Len(g) - 1) /\ (j - 1) + 1 = j
      BY <1>1
    <3>2. t[j - 1] = x
      BY <2>1, <2>4, <3>1 DEF t
    <3>3. QED
      BY <3>1, <3>2
  <2>5. QED
    BY <2>2, <2>3, <2>4 DEF Follows, t
<1>6. QED
  BY <1>2, <1>3, <1>4, <1>5

-----------------------------------------------------------------------------
(* Sound formations *)

(* A leader and, behind it, followers only; a leader among those has its   *)
(* own train behind it.  The whole is the front of its leader's line.      *)
Shape(g, followers, trains) ==
  /\ g \in Formation /\ g # <<>> /\ Distinct(g) /\ g[1] \in Leaders
  /\ \A i \in 2 .. Len(g) :
       /\ g[i] \in followers
       /\ g[i] \in Leaders => After(i - 1, trains[g[i]], g)

Sound(g, followers, trains, lines) ==
  Shape(g, followers, trains) /\ Begins(g, lines[g[1]])

Lines == [Leaders -> Formation]

(* More followers and longer lines leave a formation sound.                *)
LEMMA SoundKept ==
  ASSUME NEW g, NEW followers, NEW trains, NEW lines \in Lines,
         NEW followers2, NEW trains2, NEW lines2 \in Lines,
         Sound(g, followers, trains, lines),
         followers \subseteq followers2,
         \A b \in Leaders \cap followers : trains2[b] = trains[b],
         \A l \in Leaders : Begins(lines[l], lines2[l])
  PROVE  Sound(g, followers2, trains2, lines2)
<1>1. Shape(g, followers2, trains2)
  BY DEF Sound, Shape
<1>2. /\ g \in Formation /\ lines[g[1]] \in Formation /\ lines2[g[1]] \in Formation
      /\ Begins(g, lines[g[1]]) /\ Begins(lines[g[1]], lines2[g[1]])
  BY DEF Sound, Shape, Lines
<1>3. Begins(g, lines2[g[1]])
  BY <1>2, BeginsTrans
<1>4. QED
  BY <1>1, <1>3 DEF Sound

(* Whoever occurs in a sound formation is its leader or a follower.        *)
LEMMA SoundMembers ==
  ASSUME NEW g, NEW followers, NEW trains, NEW lines, Sound(g, followers, trains, lines),
         NEW x, Occurs(x, g)
  PROVE  x = g[1] \/ (Follows(x, g) /\ x \in followers)
<1>1. PICK i \in 1 .. Len(g) : g[i] = x
  BY DEF Occurs
<1>2. Len(g) \in Nat
  BY DEF Sound, Shape, Formation
<1>3. i = 1 \/ i \in 2 .. Len(g)
  BY <1>2
<1>4. CASE i = 1
  BY <1>1, <1>4
<1>5. CASE i \in 2 .. Len(g)
  BY <1>1, <1>5 DEF Follows, Sound, Shape
<1>6. QED
  BY <1>3, <1>4, <1>5

LEMMA FollowersOfSound ==
  ASSUME NEW g, NEW followers, NEW trains, NEW lines, Sound(g, followers, trains, lines),
         NEW x, Follows(x, g)
  PROVE  x \in followers /\ Occurs(x, g) /\ x # g[1]
<1>1. PICK i \in 2 .. Len(g) : g[i] = x
  BY DEF Follows
<1>2. Len(g) \in Nat /\ i \in 1 .. Len(g) /\ 1 \in 1 .. Len(g) /\ i # 1
  BY DEF Sound, Shape, Formation
<1>3. QED
  BY <1>1, <1>2 DEF Sound, Shape, Distinct, Occurs

(* A leader that follows has in front of it no one of its own train, which *)
(* stands behind it in every sound formation.                              *)
LEMMA TrainsOfSound ==
  ASSUME NEW g, NEW followers, NEW trains, NEW lines, Sound(g, followers, trains, lines),
         NEW b \in Leaders, Follows(b, g), NEW x, Occurs(x, trains[b]), trains[b] \in Formation
  PROVE  Occurs(x, g)
<1>1. PICK i \in 2 .. Len(g) : g[i] = b
  BY DEF Follows
<1>2. After(i - 1, trains[b], g) /\ i - 1 \in Nat /\ Len(g) \in Nat
  BY <1>1 DEF Sound, Shape, Formation
<1>3. PICK j \in 1 .. Len(trains[b]) : trains[b][j] = x
  BY DEF Occurs
<1>4. Len(trains[b]) \in Nat
  BY DEF Formation
<1>5. (i - 1) + j \in 1 .. Len(g) /\ g[(i - 1) + j] = x
  BY <1>2, <1>3, <1>4 DEF After
<1>6. QED
  BY <1>5 DEF Occurs

(* A train coupled to a sound formation gives a sound formation.           *)
LEMMA SoundCoupled ==
  ASSUME NEW f, NEW followers, NEW trains, NEW lines \in Lines, Sound(f, followers, trains, lines),
         NEW t \in Formation, t # <<>>, Distinct(t), t[1] \in followers,
         \A i \in 2 .. Len(t) :
           /\ t[i] \in followers
           /\ t[i] \in Leaders => trains[t[i]] \in Formation /\ After(i - 1, trains[t[i]], t),
         \A b \in Leaders : trains[b] \in Formation,
         t[1] \in Leaders => trains[t[1]] = t,
         \A x : ~(Occurs(x, f) /\ Occurs(x, t)),
         lines[f[1]] = f \o t
  PROVE  /\ Sound(f \o t, followers, trains, lines)
         /\ \A x : Occurs(x, t) => Follows(x, f \o t)
<1> DEFINE g == f \o t
           n == Len(f)
<1>1. /\ f \in Formation /\ f # <<>> /\ Distinct(f) /\ f[1] \in Leaders
      /\ \A i \in 2 .. Len(f) : f[i] \in followers /\ (f[i] \in Leaders => After(i - 1, trains[f[i]], f))
  BY DEF Sound, Shape
<1>2. n \in Nat /\ Len(t) \in Nat /\ n >= 1 /\ Len(t) >= 1
  BY <1>1 DEF Formation
<1>3. /\ g \in Formation /\ Len(g) = n + Len(t)
      /\ \A i \in 1 .. n : g[i] = f[i]
      /\ \A i \in 1 .. Len(t) : g[n + i] = t[i]
      /\ Begins(f, g) /\ After(n, t, g)
  BY <1>1, Coupled
<1> HIDE DEF g
<1>4. g # <<>> /\ g[1] = f[1]
  BY <1>2, <1>3
<1>5. Distinct(g)
  <2> SUFFICES ASSUME NEW i \in 1 .. Len(g), NEW j \in 1 .. Len(g), g[i] = g[j], i < j
               PROVE  FALSE
    BY <1>2, <1>3 DEF Distinct
  <2>1. CASE j <= n
    <3>1. i \in 1 .. n /\ j \in 1 .. n
      BY <1>2, <1>3, <2>1
    <3>2. QED
      BY <1>1, <1>2, <1>3, <3>1 DEF Distinct
  <2>2. CASE n < i
    <3>1. /\ i - n \in 1 .. Len(t) /\ j - n \in 1 .. Len(t)
          /\ n + (i - n) = i /\ n + (j - n) = j /\ i - n # j - n
      BY <1>2, <1>3, <2>2
    <3>2. t[i - n] = g[i] /\ t[j - n] = g[j]
      BY <1>3, <3>1
    <3>3. QED
      BY <3>1, <3>2 DEF Distinct
  <2>3. CASE i <= n /\ n < j
    <3>1. i \in 1 .. n /\ j - n \in 1 .. Len(t) /\ n + (j - n) = j
      BY <1>2, <1>3, <2>3
    <3>2. f[i] = g[i] /\ t[j - n] = g[j]
      BY <1>3, <3>1
    <3>3. Occurs(g[i], f) /\ Occurs(g[i], t)
      BY <3>1, <3>2 DEF Occurs
    <3>4. QED
      BY <3>3
  <2>4. QED
    BY <1>2, <1>3, <2>1, <2>2, <2>3
<1>6. ASSUME NEW i \in 2 .. Len(g)
      PROVE  g[i] \in followers /\ (g[i] \in Leaders => After(i - 1, trains[g[i]], g))
  <2>1. CASE i <= n
    <3>1. i \in 2 .. n /\ g[i] = f[i] /\ i - 1 \in Nat
      BY <1>2, <1>3, <2>1
    <3>2. g[i] \in followers
      BY <1>1, <3>1
    <3>3. ASSUME g[i] \in Leaders
          PROVE  After(i - 1, trains[g[i]], g)
      <4>1. After(i - 1, trains[g[i]], f) /\ trains[g[i]] \in Formation
        BY <1>1, <3>1, <3>3
      <4>2. QED
        BY <1>1, <1>3, <3>1, <4>1, AfterBegins
    <3>4. QED
      BY <3>2, <3>3
  <2>2. CASE i = n + 1
    <3>1. g[i] = t[1] /\ i - 1 = n
      BY <1>2, <1>3, <2>2
    <3>2. QED
      BY <1>3, <3>1
  <2>3. CASE n + 1 < i
    <3> DEFINE k == i - n
    <3>1. k \in 2 .. Len(t) /\ k \in 1 .. Len(t) /\ n + k = i /\ k - 1 \in Nat
      BY <1>2, <1>3, <2>3
    <3>2. g[i] = t[k]
      BY <1>3, <3>1
    <3>3. g[i] \in followers
      BY <3>1, <3>2
    <3>4. ASSUME g[i] \in Leaders
          PROVE  After(i - 1, trains[g[i]], g)
      <4> DEFINE b == trains[g[i]]
      <4>1. b \in Formation /\ After(k - 1, b, t)
        BY <3>1, <3>2, <3>4
      <4> HIDE DEF b
      <4>2. Len(b) \in Nat /\ (k - 1) + Len(b) <= Len(t)
            /\ \A a \in 1 .. Len(b) : t[(k - 1) + a] = b[a]
        BY <4>1 DEF After, Formation
      <4>3. (i - 1) + Len(b) <= Len(g)
        BY <1>2, <1>3, <3>1, <4>2
      <4>4. ASSUME NEW a \in 1 .. Len(b)
            PROVE  g[(i - 1) + a] = b[a]
        <5>1. (k - 1) + a \in 1 .. Len(t) /\ n + ((k - 1) + a) = (i - 1) + a
          BY <1>2, <3>1, <4>2, SMTT(30)
        <5>2. QED
          BY <1>3, <4>2, <5>1
      <4>5. QED
        BY <4>3, <4>4 DEF After, b
    <3>5. QED
      BY <3>3, <3>4
  <2>4. QED
    BY <1>2, <1>3, <2>1, <2>2, <2>3
<1>7. Shape(g, followers, trains)
  BY <1>1, <1>3, <1>4, <1>5, <1>6 DEF Shape
<1>8. Begins(g, lines[g[1]])
  BY <1>3, <1>4, BeginsRefl DEF g
<1>9. ASSUME NEW x, Occurs(x, t)
      PROVE  Follows(x, g)
  <2>1. PICK i \in 1 .. Len(t) : t[i] = x
    BY <1>9 DEF Occurs
  <2>2. n + i \in 2 .. Len(g) /\ g[n + i] = x
    BY <1>2, <1>3, <2>1
  <2>3. QED
    BY <2>2 DEF Follows
<1>10. QED
  BY <1>7, <1>8, <1>9 DEF Sound, g

-----------------------------------------------------------------------------
(* The invariant of the formations *)

Followers == {x \in Vehicle : role[x] = "FOLLOWER"}

Merged(b) == target[b]["merge"].newFormation

(* What a leader brought with it when it became a follower.                *)
Trains == [l \in Leaders |-> old[l].formation]

(* The joiner of l follows it already, and l is about to learn so.         *)
Admitting(l) ==
  \E m \in Maneuver, u \in Followers : ServesIn(l, m, u, "L_WAIT_JOINER_TO_JOIN")

Known(l) ==
  IF l \in Followers THEN old[l].formation
  ELSE IF Admitting(l) THEN Offer(l, active[l])
  ELSE formation[l]

KnownLines == [l \in Leaders |-> Known(l)]

Good(g) == Sound(g, Followers, Trains, KnownLines)

(* The joiner u with those that come along.                                *)
Along(u, m) == <<u>> \o Company(u, m)

Updates(q) == {msg \in ToSet(q) : msg.kind \in UpdateKind}

(* The formations a leader sends to the followers become no shorter.       *)
Growing(q) ==
  \A i, j \in DOMAIN q :
    i < j /\ q[i].kind = "UpdatePlatoonFormation" /\ q[j].kind = "UpdatePlatoonFormation" =>
      Len(q[i].formation) <= Len(q[j].formation)

FollowersGood == \A x \in Followers : Good(formation[x]) /\ Follows(x, formation[x])

LeadersGood == \A l \in Leaders \ Followers : Good(Known(l)) /\ Good(formation[l])

(* A leader that follows is in the formation it took over, with its train. *)
MergedGood ==
  \A b \in Leaders \cap Followers :
    /\ Good(Merged(b))
    /\ old[b].formation # <<>> /\ old[b].formation[1] = b
    /\ \E n \in 1 .. Len(Merged(b)) :
         After(n, old[b].formation, Merged(b)) /\ Len(Merged(b)) = n + Len(old[b].formation)

Apart ==
  \A a, b \in Leaders \ Followers :
    a # b => \A x \in Vehicle : ~(Occurs(x, Known(a)) /\ Occurs(x, Known(b)))

OldFormations == \A l \in Leaders : role[l] = "JOINER" => old[l].formation = formation[l]

OffersStand ==
  \A l, u \in Vehicle, m \in Maneuver, s \in LState :
    ServesIn(l, m, u, s) /\ role[u] = "JOINER" => Offer(l, m) = formation[l] \o Along(u, m)

UpdateGood(u, w, msg) ==
  /\ u \in Leaders /\ Good(msg.formation) /\ Follows(w, msg.formation)
  /\ msg.kind = "UpdatePlatoonFormation" => msg.formation[1] = u
  /\ msg.kind = "UpdatePlatoonData" =>
       u \in Followers /\ msg.formation = Merged(u) /\ Follows(w, old[u].formation)

UpdatesGood == \A u, w \in Vehicle : \A msg \in Updates(channel[u][w]) : UpdateGood(u, w, msg)

UpdatesGrow ==
  \A u, w \in Vehicle :
    /\ Growing(channel[u][w])
    /\ w \in Followers /\ LeaderId(w) = u =>
         \A msg \in Updates(channel[u][w]) :
           msg.kind = "UpdatePlatoonFormation" => Len(formation[w]) <= Len(msg.formation)

ChecksFollow == \A v \in Vehicle : checkDistance[v] => v \in Leaders \cap Followers

Formations ==
  /\ FollowersGood /\ LeadersGood /\ MergedGood /\ Apart
  /\ OldFormations /\ OffersStand /\ UpdatesGood /\ UpdatesGrow /\ ChecksFollow

LEMMA LineTypes ==
  ASSUME Typed
  PROVE  /\ \A l \in Leaders : Known(l) \in Formation
         /\ KnownLines \in Lines /\ Trains \in Lines
<1>1. /\ formation \in [Vehicle -> Formation]
      /\ \A l \in Vehicle : old[l].formation \in Formation
      /\ \A l \in Vehicle, m \in Maneuver : joiner[l][m].newFormation \in Formation
  BY DEF Typed, TypeOK
<1>2. \A l \in Leaders : Admitting(l) => active[l] \in Maneuver
  BY DEF Admitting, ServesIn
<1>3. \A l \in Leaders : Known(l) \in Formation
  BY <1>1, <1>2, Constants DEF Known, Offer
<1>4. QED
  BY <1>1, <1>3, Constants DEF KnownLines, Trains, Lines

LEMMA LinesTyped == Typed => KnownLines \in Lines
BY LineTypes

(* A sound formation stays so when nothing happens to its followers and    *)
(* the lines only grow.                                                    *)
FollowersStay ==
  /\ Followers \subseteq Followers'
  /\ \A b \in Leaders \cap Followers :
       old'[b].formation = old[b].formation /\ Merged(b)' = Merged(b)

LinesGrow == \A l \in Leaders : Begins(Known(l), Known(l)')

LEMMA GoodKept ==
  ASSUME Typed, Typed', FollowersStay, LinesGrow, NEW g, Good(g)
  PROVE  Sound(g, Followers', Trains', KnownLines')
<1>1. KnownLines \in Lines /\ KnownLines' \in Lines
  <2>1. (KnownLines \in Lines)'
    BY LinesTyped, PTL
  <2>2. QED
    BY <2>1, LinesTyped
<1>2. \A b \in Leaders \cap Followers : Trains'[b] = Trains[b]
  BY DEF FollowersStay, Trains
<1>3. \A l \in Leaders : Begins(KnownLines[l], KnownLines'[l])
  BY DEF LinesGrow, KnownLines
<1>4. QED
  BY <1>1, <1>2, <1>3, SoundKept DEF Good, FollowersStay

LEMMA UpdateKept ==
  ASSUME Typed, Typed', FollowersStay, LinesGrow,
         NEW u, NEW w, NEW msg, UpdateGood(u, w, msg)
  PROVE  UpdateGood(u, w, msg)'
<1>1. Sound(msg.formation, Followers', Trains', KnownLines')
  BY GoodKept DEF UpdateGood
<1>2. Good(msg.formation)'
  BY <1>1 DEF Good
<1>3. ASSUME msg.kind = "UpdatePlatoonData"
      PROVE  u \in Followers' /\ msg.formation = Merged(u)' /\ Follows(w, old'[u].formation)
  BY <1>3 DEF UpdateGood, FollowersStay
<1>4. QED
  BY <1>2, <1>3 DEF UpdateGood

(* The formation a leader holds begins its line, and starts with itself.   *)
LEMMA LeaderLines ==
  ASSUME Inv, Formations, NEW l \in Leaders, l \notin Followers
  PROVE  /\ role[l] # "FOLLOWER" /\ formation[l] \in Formation /\ formation[l] # <<>>
         /\ formation[l][1] = l /\ Known(l) \in Formation /\ Known(l)[1] = l
         /\ Begins(formation[l], Known(l)) /\ Good(formation[l]) /\ Good(Known(l))
<1>1. l \in Vehicle /\ role[l] # "FOLLOWER"
  BY Constants DEF Followers
<1>2. formation[l] \in Formation /\ formation[l] # <<>> /\ Head(formation[l]) = l
  BY <1>1, InvFacts DEF Local, LeaderId, Inv, Typed, TypeOK
<1>3. formation[l][1] = l /\ Len(formation[l]) >= 1
  BY <1>2, OccursToSet
<1>4. Good(formation[l]) /\ Good(Known(l)) /\ Known(l) \in Formation
  BY LineTypes DEF Formations, LeadersGood, Inv
<1>5. Begins(formation[l], Known(l))
  BY <1>3, <1>4 DEF Good, Sound, KnownLines
<1>6. Known(l)[1] = l
  <2>1. 1 \in 1 .. Len(formation[l])
    BY <1>2, <1>3 DEF Formation
  <2>2. QED
    BY <1>3, <1>5, <2>1 DEF Begins
<1>7. QED
  BY <1>1, <1>2, <1>3, <1>4, <1>5, <1>6

LEMMA CalmStep ==
  ASSUME Inv, Inv', Formations,
         Followers' = Followers,
         \A b \in Leaders \cap Followers :
           old'[b].formation = old[b].formation /\ Merged(b)' = Merged(b),
         \A l \in Leaders : Known(l)' = Known(l),
         \A x \in Vehicle :
           \/ formation'[x] = formation[x]
           \/ x \in Followers /\ Good(formation'[x]) /\ Follows(x, formation'[x])
           \/ x \in Leaders \ Followers /\ formation'[x] = Known(x),
         \A l \in Leaders : role'[l] = "JOINER" => old'[l].formation = formation'[l],
         OffersStand',
         \A u, w \in Vehicle : \A msg \in Updates(channel'[u][w]) :
           msg \in Updates(channel[u][w]) \/ UpdateGood(u, w, msg),
         UpdatesGrow',
         \A v \in Vehicle : checkDistance'[v] => v \in Leaders \cap Followers
  PROVE  Formations'
<1>1. Typed /\ Typed' /\ FollowersStay
  BY DEF Inv, FollowersStay
<1>2. LinesGrow
  BY <1>1, LineTypes, BeginsRefl DEF LinesGrow
<1>3. \A g : Good(g) => Sound(g, Followers', Trains', KnownLines')
  BY <1>1, <1>2, GoodKept
<1>4. FollowersGood'
  <2> SUFFICES ASSUME NEW x \in Followers
               PROVE  Sound(formation'[x], Followers', Trains', KnownLines') /\ Follows(x, formation'[x])
    BY DEF FollowersGood, Good
  <2>1. x \in Vehicle /\ Good(formation[x]) /\ Follows(x, formation[x])
    BY DEF Followers, Formations, FollowersGood
  <2>2. Good(formation'[x]) /\ Follows(x, formation'[x])
    BY <2>1
  <2>3. QED
    BY <1>3, <2>2
<1>5. LeadersGood'
  <2> SUFFICES ASSUME NEW l \in Leaders, l \notin Followers
               PROVE  /\ Sound(Known(l)', Followers', Trains', KnownLines')
                      /\ Sound(formation'[l], Followers', Trains', KnownLines')
    BY DEF LeadersGood, Good
  <2>1. Good(Known(l)) /\ Good(formation[l]) /\ l \in Vehicle
    BY Constants DEF Formations, LeadersGood
  <2>2. formation'[l] = formation[l] \/ formation'[l] = Known(l)
    BY <2>1
  <2>3. QED
    BY <1>3, <2>1, <2>2
<1>6. MergedGood'
  <2> SUFFICES ASSUME NEW b \in Leaders \cap Followers
               PROVE  /\ Sound(Merged(b)', Followers', Trains', KnownLines')
                      /\ old'[b].formation # <<>> /\ old'[b].formation[1] = b
                      /\ \E n \in 1 .. Len(Merged(b)') :
                           /\ After(n, old'[b].formation, Merged(b)')
                           /\ Len(Merged(b)') = n + Len(old'[b].formation)
    BY DEF MergedGood, Good
  <2>1. QED
    BY <1>3 DEF Formations, MergedGood
<1>7. Apart'
  BY DEF Formations, Apart
<1>8. OldFormations'
  BY DEF OldFormations
<1>9. UpdatesGood'
  <2> SUFFICES ASSUME NEW u \in Vehicle, NEW w \in Vehicle, NEW msg \in Updates(channel'[u][w])
               PROVE  UpdateGood(u, w, msg)'
    BY DEF UpdatesGood, Updates
  <2>1. UpdateGood(u, w, msg)
    BY DEF Formations, UpdatesGood
  <2>2. QED
    BY <1>1, <1>2, <2>1, UpdateKept
<1>10. ChecksFollow'
  BY DEF ChecksFollow
<1>11. QED
  BY <1>4, <1>5, <1>6, <1>7, <1>8, <1>9, <1>10 DEF Formations

-----------------------------------------------------------------------------
(* Who is served, and what queues do to formation updates *)

(* Whom a leader serves waits for it, or follows it already.               *)
LEMMA ServedBy ==
  ASSUME Inv, NEW l \in Vehicle, NEW u \in Vehicle, NEW m \in Maneuver, NEW s \in LState,
         ServesIn(l, m, u, s)
  PROVE  /\ InService(u, l, m) /\ l \in Leaders /\ role[l] = "LEADER" /\ l # u
         /\ role[u] \in {"JOINER", "FOLLOWER"}
         /\ role[u] = "JOINER" => \E t \in JState : At(u, m, l, t)
         /\ role[u] = "FOLLOWER" => Joined(u, l, m)
<1>1. Serves(l, u)
  BY DEF Serves
<1>2. PICK n \in Maneuver : InService(u, l, n)
  BY <1>1, InvFacts DEF Stage, Strangers, Waiting, Requesting, Refused
<1>3. n = m
  BY <1>2 DEF InService, Permitted, Informed, Approaching, InPosition, Joining, Joined, ServesIn
<1>4. role[l] = "LEADER" /\ l \in Leaders
  BY InvFacts, LocalOfState DEF ServesIn, Inv
<1>5. \/ Joined(u, l, m) /\ role[u] = "FOLLOWER"
      \/ role[u] = "JOINER" /\ \E t \in JState : At(u, m, l, t)
  BY <1>2, <1>3
     DEF InService, Permitted, Informed, Approaching, InPosition, Joining, Joined, At, JState
<1>6. QED
  BY <1>2, <1>3, <1>4, <1>5

(* What decides whether l is admitting.                                    *)
SameAdmission(l) ==
  \A m \in Maneuver, u \in Followers :
    /\ ServesIn(l, m, u, "L_WAIT_JOINER_TO_JOIN")' <=> ServesIn(l, m, u, "L_WAIT_JOINER_TO_JOIN")
    /\ ServesIn(l, m, u, "L_WAIT_JOINER_TO_JOIN") => Offer(l, m)' = Offer(l, m)

LEMMA KnownFrame ==
  ASSUME NEW l \in Leaders, Followers' = Followers, formation'[l] = formation[l] \/ l \in Followers,
         l \in Followers => old'[l].formation = old[l].formation,
         SameAdmission(l)
  PROVE  Known(l)' = Known(l)
<1>1. CASE l \in Followers
  BY <1>1 DEF Known
<1>2. CASE l \notin Followers /\ Admitting(l)
  <2>1. PICK m \in Maneuver, u \in Followers : ServesIn(l, m, u, "L_WAIT_JOINER_TO_JOIN")
    BY <1>2 DEF Admitting
  <2>2. ServesIn(l, m, u, "L_WAIT_JOINER_TO_JOIN")' /\ Offer(l, m)' = Offer(l, m)
    BY <2>1 DEF SameAdmission
  <2>3. Admitting(l)' /\ active[l] = m /\ active'[l] = m
    BY <2>1, <2>2 DEF Admitting, ServesIn
  <2>4. Known(l) = Offer(l, m) /\ Known(l)' = Offer(l, m)'
    BY <1>2, <2>3 DEF Known, Offer
  <2>5. QED
    BY <2>2, <2>4
<1>3. CASE l \notin Followers /\ ~Admitting(l)
  <2>1. ~Admitting(l)'
    BY <1>3 DEF Admitting, SameAdmission
  <2>2. QED
    BY <1>3, <2>1 DEF Known
<1>4. QED
  BY <1>1, <1>2, <1>3

(* A step that changes no formation and leaves all leaders with the        *)
(* vehicles they serve leaves the lines and the offers alone.              *)
LEMMA ServingFrame ==
  ASSUME Inv, Formations, Followers' = Followers, formation' = formation,
         \A b \in Leaders \cap Followers : old'[b].formation = old[b].formation,
         \A l, b \in Vehicle : KeepsServing(l, b)
  PROVE  (\A l \in Leaders : Known(l)' = Known(l)) /\ OffersStand'
<1>1. "L_WAIT_JOINER_TO_JOIN" \in LState
  BY DEF LState
<1>2. ASSUME NEW l \in Leaders PROVE Known(l)' = Known(l)
  <2>1. SameAdmission(l)
    BY <1>1, Constants DEF SameAdmission, KeepsServing, Followers
  <2>2. QED
    BY <2>1, KnownFrame
<1>3. ASSUME NEW l \in Vehicle, NEW u \in Vehicle, NEW m \in Maneuver, NEW s \in LState,
             ServesIn(l, m, u, s)', role'[u] = "JOINER"
      PROVE  Offer(l, m)' = formation'[l] \o Along(u, m)'
  <2>1. ServesIn(l, m, u, s) /\ Offer(l, m)' = Offer(l, m)
    BY <1>3 DEF KeepsServing
  <2>2. u \notin Followers
    BY <1>3 DEF Followers
  <2>3. role[u] = "JOINER"
    BY <2>1, <2>2, ServedBy DEF Followers
  <2>4. Along(u, m)' = Along(u, m)
    BY DEF Along, Company
  <2>5. QED
    BY <2>1, <2>3, <2>4 DEF Formations, OffersStand
<1>4. OffersStand'
  BY <1>3 DEF OffersStand
<1>5. QED
  BY <1>2, <1>4

LEMMA GrowingTail ==
  ASSUME NEW q \in Seq(Message), q # <<>>, Growing(q)
  PROVE  /\ Growing(Tail(q)) /\ Updates(Tail(q)) \subseteq Updates(q)
         /\ Head(q).kind \in UpdateKind => Head(q) \in Updates(q)
         /\ Head(q).kind = "UpdatePlatoonFormation" =>
              \A msg \in Updates(Tail(q)) :
                msg.kind = "UpdatePlatoonFormation" => Len(Head(q).formation) <= Len(msg.formation)
<1> DEFINE t == Tail(q)
<1>1. /\ Len(q) \in Nat \ {0} /\ DOMAIN q = 1 .. Len(q) /\ DOMAIN t = 1 .. (Len(q) - 1)
      /\ \A i \in 1 .. (Len(q) - 1) : t[i] = q[i + 1] /\ i + 1 \in 1 .. Len(q)
      /\ Head(q) = q[1] /\ 1 \in 1 .. Len(q)
  OBVIOUS
<1> HIDE DEF t
<1>2. Growing(t)
  <2> SUFFICES ASSUME NEW i \in 1 .. (Len(q) - 1), NEW j \in 1 .. (Len(q) - 1), i < j,
                      t[i].kind = "UpdatePlatoonFormation", t[j].kind = "UpdatePlatoonFormation"
               PROVE  Len(t[i].formation) <= Len(t[j].formation)
    BY <1>1 DEF Growing
  <2>1. /\ t[i] = q[i + 1] /\ t[j] = q[j + 1] /\ i + 1 < j + 1
        /\ i + 1 \in 1 .. Len(q) /\ j + 1 \in 1 .. Len(q)
    BY <1>1
  <2>2. QED
    BY <1>1, <2>1 DEF Growing
<1>3. ToSet(t) \subseteq ToSet(q) /\ Head(q) \in ToSet(q)
  BY <1>1 DEF ToSet
<1>4. ASSUME Head(q).kind = "UpdatePlatoonFormation", NEW msg \in ToSet(t),
             msg.kind = "UpdatePlatoonFormation"
      PROVE  Len(Head(q).formation) <= Len(msg.formation)
  <2>1. PICK i \in 1 .. (Len(q) - 1) : msg = t[i]
    BY <1>1 DEF ToSet
  <2>2. msg = q[i + 1] /\ i + 1 \in 1 .. Len(q) /\ 1 < i + 1
    BY <1>1, <2>1
  <2>3. QED
    BY <1>1, <1>4, <2>2 DEF Growing
<1>5. QED
  BY <1>2, <1>3, <1>4 DEF Updates, t

LEMMA GrowingAppend ==
  ASSUME NEW q \in Seq(Message), NEW msg \in Message, Growing(q),
         msg.kind = "UpdatePlatoonFormation" =>
           \A x \in Updates(q) :
             x.kind = "UpdatePlatoonFormation" => Len(x.formation) <= Len(msg.formation)
  PROVE  /\ Growing(Append(q, msg))
         /\ msg.kind \in UpdateKind => Updates(Append(q, msg)) = Updates(q) \cup {msg}
         /\ msg.kind \notin UpdateKind => Updates(Append(q, msg)) = Updates(q)
<1> DEFINE p == Append(q, msg)
<1>1. /\ Len(q) \in Nat /\ DOMAIN q = 1 .. Len(q) /\ DOMAIN p = 1 .. (Len(q) + 1)
      /\ \A i \in 1 .. Len(q) : p[i] = q[i]
      /\ p[Len(q) + 1] = msg
      /\ \A i \in 1 .. (Len(q) + 1) : i \in 1 .. Len(q) \/ i = Len(q) + 1
  OBVIOUS
<1>2. ToSet(p) = ToSet(q) \cup {msg}
  BY AppendSet
<1> HIDE DEF p
<1>3. ASSUME NEW i \in 1 .. Len(q), msg.kind = "UpdatePlatoonFormation",
             q[i].kind = "UpdatePlatoonFormation"
      PROVE  Len(q[i].formation) <= Len(msg.formation)
  <2>1. q[i] \in Updates(q)
    BY <1>1, <1>3 DEF Updates, ToSet, UpdateKind
  <2>2. QED
    BY <1>3, <2>1
<1>4. Growing(p)
  <2> SUFFICES ASSUME NEW i \in 1 .. (Len(q) + 1), NEW j \in 1 .. (Len(q) + 1), i < j,
                      p[i].kind = "UpdatePlatoonFormation", p[j].kind = "UpdatePlatoonFormation"
               PROVE  Len(p[i].formation) <= Len(p[j].formation)
    BY <1>1 DEF Growing
  <2>1. i \in 1 .. Len(q) /\ p[i] = q[i]
    BY <1>1
  <2>2. CASE j \in 1 .. Len(q)
    BY <1>1, <2>1, <2>2 DEF Growing
  <2>3. CASE j = Len(q) + 1
    BY <1>1, <1>3, <2>1, <2>3
  <2>4. QED
    BY <1>1, <2>2, <2>3
<1>5. QED
  BY <1>2, <1>4 DEF Updates, p

(* No update is new in ch, and the updates are in their order.             *)
NoNews(ch) ==
  \A a, b \in Vehicle : Updates(ch[a][b]) \subseteq Updates(channel[a][b]) /\ Growing(ch[a][b])

LEMMA DequeuedUpdates ==
  ASSUME Inv, Formations, NEW u \in Vehicle, NEW v \in Vehicle, channel[u][v] # <<>>
  PROVE  Dequeue(u, v) \in Channels /\ NoNews(Dequeue(u, v))
<1>1. /\ channel \in Channels /\ \A a, b \in Vehicle : Growing(channel[a][b])
  BY InvFacts DEF Formations, UpdatesGrow
<1>2. /\ Dequeue(u, v) \in Channels
      /\ \A a, b \in Vehicle :
           Dequeue(u, v)[a][b] = IF a = u /\ b = v THEN Tail(channel[u][v]) ELSE channel[a][b]
  BY <1>1, DequeueChannels
<1>3. Growing(Tail(channel[u][v])) /\ Updates(Tail(channel[u][v])) \subseteq Updates(channel[u][v])
  BY <1>1, GrowingTail DEF Channels
<1>4. QED
  BY <1>1, <1>2, <1>3 DEF NoNews

LEMMA SentOther ==
  ASSUME NEW ch \in Channels, NoNews(ch), NEW v \in Vehicle, NEW w \in Vehicle, NEW msg,
         msg.kind \notin UpdateKind
  PROVE  NoNews(Send(ch, v, w, msg))
<1> DEFINE q == ch[v][w]
           p == Append(q, msg)
<1>1. /\ q \in Seq(Message) /\ Growing(q) /\ Updates(q) \subseteq Updates(channel[v][w])
  BY DEF Channels, NoNews
<1>2. /\ Len(q) \in Nat /\ DOMAIN q = 1 .. Len(q) /\ DOMAIN p = 1 .. (Len(q) + 1)
      /\ \A i \in 1 .. Len(q) : p[i] = q[i]
      /\ p[Len(q) + 1] = msg
      /\ \A i \in 1 .. (Len(q) + 1) : i \in 1 .. Len(q) \/ i = Len(q) + 1
  BY <1>1
<1>3. \A a, b \in Vehicle :
        Send(ch, v, w, msg)[a][b] = IF a = v /\ b = w THEN p ELSE ch[a][b]
  BY DEF Send, Channels
<1> HIDE DEF p, q
<1>4. Updates(p) \subseteq Updates(q)
  BY <1>2 DEF Updates, ToSet
<1>5. Growing(p)
  <2>1. \A i \in 1 .. (Len(q) + 1) : p[i].kind = "UpdatePlatoonFormation" => i \in 1 .. Len(q)
    BY <1>2 DEF UpdateKind
  <2>2. QED
    BY <1>1, <1>2, <2>1 DEF Growing
<1>6. QED
  BY <1>1, <1>3, <1>4, <1>5 DEF NoNews, q

LEMMA QuietStep ==
  ASSUME Inv, Inv', Formations, formation' = formation, Followers' = Followers, FollowersStay,
         \A l \in Leaders : Known(l)' = Known(l),
         OffersStand',
         \A l \in Leaders : role'[l] = "JOINER" => old'[l].formation = formation[l],
         NoNews(channel'),
         \A v \in Vehicle : checkDistance'[v] => v \in Leaders \cap Followers
  PROVE  Formations'
<1>1. UpdatesGrow'
  <2> SUFFICES ASSUME NEW u \in Vehicle, NEW w \in Vehicle
               PROVE  /\ Growing(channel'[u][w])
                      /\ w \in Followers /\ LeaderId(w) = u =>
                           \A msg \in Updates(channel'[u][w]) :
                             msg.kind = "UpdatePlatoonFormation" =>
                               Len(formation[w]) <= Len(msg.formation)
    BY DEF UpdatesGrow, LeaderId, Updates, Growing
  <2>1. QED
    BY DEF NoNews, Formations, UpdatesGrow
<1>2. \A u, w \in Vehicle : Updates(channel'[u][w]) \subseteq Updates(channel[u][w])
  BY DEF NoNews
<1>3. QED
  BY <1>1, <1>2, CalmStep DEF FollowersStay

-----------------------------------------------------------------------------
(* The steps that change no formation *)

(* A step of one vehicle that is no follower and serves nobody.            *)
LEMMA JoinerQuiet ==
  ASSUME Inv, Inv', Formations, NEW v \in Vehicle,
         role[v] # "FOLLOWER", role'[v] # "FOLLOWER",
         \A w \in Vehicle : w # v => Same(w) /\ old'[w] = old[w],
         \A b \in Vehicle : KeepsServing(v, b),
         formation' = formation,
         v \in Leaders /\ role'[v] = "JOINER" => old'[v].formation = formation[v],
         NoNews(channel'),
         checkDistance' = checkDistance
  PROVE  Formations'
<1>1. Followers' = Followers
  BY DEF Followers, Same
<1>2. v \notin Followers
  BY DEF Followers
<1>3. \A b \in Leaders \cap Followers : old'[b] = old[b] /\ target'[b] = target[b]
  BY <1>2, Constants DEF Same
<1>4. FollowersStay
  BY <1>1, <1>3 DEF FollowersStay, Merged
<1>5. \A l, b \in Vehicle : KeepsServing(l, b)
  BY SameKeeps
<1>6. (\A l \in Leaders : Known(l)' = Known(l)) /\ OffersStand'
  BY <1>1, <1>3, <1>5, ServingFrame
<1>7. ASSUME NEW l \in Leaders, role'[l] = "JOINER"
      PROVE  old'[l].formation = formation[l]
  BY <1>7, Constants DEF Formations, OldFormations, Same
<1>8. \A w \in Vehicle : checkDistance'[w] => w \in Leaders \cap Followers
  BY DEF Formations, ChecksFollow
<1>9. QED
  BY <1>1, <1>4, <1>6, <1>7, <1>8, QuietStep

LEMMA FormationsStart ==
  ASSUME Inv, Inv', Formations, NEW m \in Maneuver, NEW v \in Vehicle, NEW leader \in Target,
         IF m = "join" THEN v \in Joiner ELSE v \in Leaders,
         StartManeuver(m, v, leader)
  PROVE  Formations'
<1>1. /\ role[v] = IF m = "join" THEN "NONE" ELSE "LEADER"
      /\ active[v] = "none"
      /\ active' = [active EXCEPT ![v] = m]
      /\ role' = [role EXCEPT ![v] = "JOINER"]
      /\ channel' = Send(channel, v, leader, Demand(v, leader, m))
      /\ \E t : target' = [target EXCEPT ![v][m] = t]
      /\ \E s : state' = [state EXCEPT ![v][m] = s]
      /\ old' = IF m = "merge"
                THEN [old EXCEPT ![v] = [platoonId |-> platoonId[v], formation |-> formation[v]]]
                ELSE old
      /\ UNCHANGED <<helperVars, joiner, checkDistance>>
  BY DEF StartManeuver, SetActive, SetRole, SetState, Demand, Company
<1>2. role'[v] = "JOINER" /\ role[v] # "FOLLOWER" /\ formation' = formation
  BY <1>1 DEF Inv, Typed, TypeOK, helperVars
<1>3. \A w \in Vehicle : w # v => Same(w) /\ old'[w] = old[w]
  BY <1>1 DEF Inv, Typed, TypeOK, helperVars, Same
<1>4. \A n \in Maneuver : \A w : \A s \in LState : ~ServesIn(v, n, w, s)
  BY <1>1, InvFacts, LocalOfState DEF Inv
<1>5. \A b \in Vehicle : KeepsServing(v, b)
  BY <1>2, <1>4 DEF KeepsServing, ServesIn
<1>6. v \in Leaders => old'[v].formation = formation[v]
  <2>1. v \in Leaders => m = "merge"
    BY Constants DEF Maneuver
  <2>2. QED
    BY <1>1, <2>1 DEF Inv, Typed, TypeOK
<1>7. NoNews(channel')
  <2>1. Demand(v, leader, m).kind \notin UpdateKind
    BY RequestKinds DEF Demand, Msg
  <2>2. leader \in Vehicle
    BY Constants
  <2>3. NoNews(channel) /\ channel \in Channels
    BY InvFacts DEF NoNews, Formations, UpdatesGrow
  <2>4. QED
    BY <1>1, <2>1, <2>2, <2>3, SentOther
<1>8. QED
  BY <1>1, <1>2, <1>3, <1>5, <1>6, <1>7, JoinerQuiet

LEMMA FormationsResponse ==
  ASSUME Inv, Inv', Formations, NEW m \in Maneuver, NEW u \in Vehicle, NEW v \in Vehicle,
         HandleJoinPlatoonResponse(m, u, v)
  PROVE  Formations'
<1>1. /\ channel[u][v] # <<>> /\ FromTarget(m, u, v)
      /\ channel' = Dequeue(u, v)
      /\ \E s : state' = [state EXCEPT ![v][m] = s]
      /\ \/ UNCHANGED appVars
         \/ role' = [role EXCEPT ![v] = "NONE"] /\ active' = [active EXCEPT ![v] = "none"]
      /\ UNCHANGED <<helperVars, target, joiner, mergeVars>>
  BY SMTT(30) DEF HandleJoinPlatoonResponse, Receives, SetState, SetRole, SetActive
<1>2. role[v] = "JOINER" /\ role'[v] \in {"JOINER", "NONE"}
  BY <1>1 DEF FromTarget, appVars, Inv, Typed, TypeOK
<1>3. /\ \A w \in Vehicle : w # v => Same(w)
      /\ old' = old /\ formation' = formation /\ checkDistance' = checkDistance
  BY <1>1 DEF Inv, Typed, TypeOK, appVars, helperVars, mergeVars, Same
<1>4. \A b \in Vehicle : KeepsServing(v, b)
  BY <1>2 DEF KeepsServing, ServesIn
<1>5. v \in Leaders => old[v].formation = formation[v]
  BY <1>2 DEF Formations, OldFormations
<1>6. NoNews(channel')
  BY <1>1, DequeuedUpdates
<1>7. QED
  BY <1>2, <1>3, <1>4, <1>5, <1>6, JoinerQuiet

LEMMA FormationsInformation ==
  ASSUME Inv, Inv', Formations, NEW m \in Maneuver, NEW u \in Vehicle, NEW v \in Vehicle,
         HandleMoveToPosition(m, u, v)
  PROVE  Formations'
<1>1. /\ channel[u][v] # <<>> /\ FromTarget(m, u, v)
      /\ channel' = Dequeue(u, v)
      /\ \E f : target' = [target EXCEPT ![v][m].newFormation = f]
      /\ \E s : state' = [state EXCEPT ![v][m] = s]
      /\ UNCHANGED <<appVars, helperVars, joiner, mergeVars>>
  BY DEF HandleMoveToPosition, Receives, SetState
<1>2. role[v] = "JOINER" /\ role'[v] = "JOINER"
  BY <1>1 DEF FromTarget, appVars
<1>3. /\ \A w \in Vehicle : w # v => Same(w)
      /\ old' = old /\ formation' = formation /\ checkDistance' = checkDistance
  BY <1>1 DEF Inv, Typed, TypeOK, appVars, helperVars, mergeVars, Same
<1>4. \A b \in Vehicle : KeepsServing(v, b)
  BY <1>2 DEF KeepsServing, ServesIn
<1>5. v \in Leaders => old[v].formation = formation[v]
  BY <1>2 DEF Formations, OldFormations
<1>6. NoNews(channel')
  BY <1>1, DequeuedUpdates
<1>7. QED
  BY <1>2, <1>3, <1>4, <1>5, <1>6, JoinerQuiet

LEMMA FormationsInPosition ==
  ASSUME Inv, Inv', Formations, NEW m \in Maneuver, NEW v \in Vehicle, OnPlatoonBeacon(m, v)
  PROVE  Formations'
<1> DEFINE w0 == Head(target[v][m].newFormation)
<1>1. /\ state[v][m] = "J_MOVE_IN_POSITION"
      /\ \E id, f : channel' = Send(channel, v, w0, Msg("MoveToPositionAck", id, f))
      /\ \E s : state' = [state EXCEPT ![v][m] = s]
      /\ UNCHANGED <<appVars, helperVars, target, joiner, mergeVars>>
  BY DEF OnPlatoonBeacon, SetState
<1>2. /\ AsJoiner(v, m) /\ role[v] = "JOINER" /\ role'[v] = "JOINER" /\ active[v] = m
  <2>1. AsJoiner(v, m)
    BY <1>1, InvFacts, LocalOfState DEF JState, Inv
  <2>2. active[v] = m
    BY <1>1, InvFacts, LocalOfState DEF Inv
  <2>3. QED
    BY <1>1, <2>1, <2>2 DEF AsJoiner, appVars
<1>3. /\ \A w \in Vehicle : w # v => Same(w)
      /\ old' = old /\ formation' = formation /\ checkDistance' = checkDistance
  BY <1>1 DEF Inv, Typed, TypeOK, appVars, helperVars, mergeVars, Same
<1>4. \A b \in Vehicle : KeepsServing(v, b)
  BY <1>2 DEF KeepsServing, ServesIn
<1>5. v \in Leaders => old[v].formation = formation[v]
  BY <1>2 DEF Formations, OldFormations
<1>6. NoNews(channel')
  <2>1. w0 \in Vehicle
    <3> DEFINE l == target[v][m].platoonLeader
    <3>1. l \in Leaders /\ l \in Vehicle
      BY <1>2, Constants DEF AsJoiner
    <3>2. At(v, m, l, "J_MOVE_IN_POSITION") /\ "J_MOVE_IN_POSITION" \in JState
      BY <1>1, <1>2 DEF At, JState
    <3> HIDE DEF l
    <3>3. Approaching(v, l, m)
      BY <3>1, <3>2, StageOfJoiner, InvFacts
    <3>4. state[l][m] \in LState /\ target[v][m].newFormation = Offer(l, m)
      BY <3>3 DEF Approaching, ServesIn, LState
    <3>5. Head(Offer(l, m)) = l
      BY <3>1, <3>4, InvFacts, LocalOfState DEF AsLeader, Offer, Inv
    <3>6. QED
      BY <3>1, <3>4, <3>5
  <2>2. \A id, f : Msg("MoveToPositionAck", id, f).kind \notin UpdateKind
    BY Kinds DEF Msg, UpdateKind
  <2>3. NoNews(channel) /\ channel \in Channels
    BY InvFacts DEF NoNews, Formations, UpdatesGrow
  <2>4. QED
    BY <1>1, <2>1, <2>2, <2>3, SentOther
<1>7. QED
  BY <1>2, <1>3, <1>4, <1>5, <1>6, JoinerQuiet

(* A step of one leader that changes at most whom it serves.               *)
LEMMA LeaderQuiet ==
  ASSUME Inv, Inv', Formations, NEW v \in Leaders,
         role[v] # "FOLLOWER", role'[v] \notin {"FOLLOWER", "JOINER"},
         \A w \in Vehicle : w # v => Same(w),
         formation' = formation, old' = old, target' = target, checkDistance' = checkDistance,
         SameAdmission(v),
         \A m \in Maneuver, u \in Vehicle, s \in LState :
           ServesIn(v, m, u, s)' /\ role[u] = "JOINER" => Offer(v, m)' = formation[v] \o Along(u, m),
         NoNews(channel')
  PROVE  Formations'
<1>1. Followers' = Followers
  BY DEF Followers, Same
<1>2. FollowersStay
  BY <1>1 DEF FollowersStay, Merged
<1>3. ASSUME NEW l \in Leaders PROVE Known(l)' = Known(l)
  <2>1. SameAdmission(l)
    <3>1. CASE l = v
      BY <3>1
    <3>2. CASE l # v
      <4>1. Same(l)
        BY <3>2, Constants
      <4>2. QED
        BY <4>1 DEF Same, SameAdmission, ServesIn, Offer
    <3>3. QED
      BY <3>1, <3>2
  <2>2. QED
    BY <1>1, <2>1, KnownFrame
<1>4. ASSUME NEW l \in Vehicle, NEW u \in Vehicle, NEW m \in Maneuver, NEW s \in LState,
             ServesIn(l, m, u, s)', role'[u] = "JOINER"
      PROVE  Offer(l, m)' = formation'[l] \o Along(u, m)'
  <2>1. role[u] = "JOINER"
    BY <1>4 DEF Same
  <2>2. Along(u, m)' = Along(u, m)
    BY DEF Along, Company
  <2>3. CASE l = v
    BY <1>4, <2>1, <2>2, <2>3
  <2>4. CASE l # v
    <3>1. ServesIn(l, m, u, s) /\ Offer(l, m)' = Offer(l, m)
      BY <1>4, <2>4 DEF Same, ServesIn, Offer
    <3>2. QED
      BY <2>1, <2>2, <3>1 DEF Formations, OffersStand
  <2>5. QED
    BY <2>3, <2>4
<1>5. OffersStand'
  BY <1>4 DEF OffersStand
<1>6. ASSUME NEW l \in Leaders, role'[l] = "JOINER"
      PROVE  old'[l].formation = formation[l]
  BY <1>6, Constants DEF Formations, OldFormations, Same
<1>7. \A w \in Vehicle : checkDistance'[w] => w \in Leaders \cap Followers
  BY DEF Formations, ChecksFollow
<1>8. QED
  BY <1>1, <1>2, <1>3, <1>5, <1>6, <1>7, QuietStep

LEMMA FormationsPositionAck ==
  ASSUME Inv, Inv', Formations, NEW m \in Maneuver, NEW u \in Vehicle, NEW v \in Vehicle,
         HandleMoveToPositionAck(m, u, v)
  PROVE  Formations'
<1> DEFINE h == Head(channel[u][v])
           d == Dequeue(u, v)
<1>1. /\ channel[u][v] # <<>> /\ h.kind = "MoveToPositionAck" /\ FromJoiner(m, u, v)
      /\ \E id, f : channel' = Send(d, v, u, Msg("JoinFormation", id, f))
      /\ state' = [state EXCEPT ![v][m] = "L_WAIT_JOINER_TO_JOIN"]
      /\ UNCHANGED <<appVars, helperVars, target, joiner, mergeVars>>
  BY DEF HandleMoveToPositionAck, Receives, SetState
<1>2. /\ v \in Leaders /\ role[v] = "LEADER" /\ active[v] = m
      /\ InPosition(u, v, m) /\ ServesIn(v, m, u, "L_WAIT_JOINER_IN_POSITION")
  BY <1>1, Confirmed DEF LeaderExpects
<1>3. /\ \A w \in Vehicle : w # v => Same(w)
      /\ old' = old /\ formation' = formation /\ target' = target /\ checkDistance' = checkDistance
      /\ role' = role /\ active' = active /\ joiner' = joiner
  BY <1>1 DEF Inv, Typed, TypeOK, appVars, helperVars, mergeVars, Same
<1>4. u \notin Followers /\ joiner[v][m].id = u
  BY <1>2 DEF InPosition, At, ServesIn, Followers
<1>5. SameAdmission(v)
  BY <1>2, <1>3, <1>4 DEF SameAdmission, ServesIn, Offer
<1>6. ASSUME NEW n \in Maneuver, NEW w \in Vehicle, NEW s \in LState,
             ServesIn(v, n, w, s)', role[w] = "JOINER"
      PROVE  Offer(v, n)' = formation[v] \o Along(w, n)
  <2>1. n = m /\ w = u
    BY <1>2, <1>3, <1>4, <1>6 DEF ServesIn
  <2>2. Offer(v, m) = formation[v] \o Along(u, m)
    BY <1>2, <1>6, <2>1, Constants DEF Formations, OffersStand, LState
  <2>3. QED
    BY <1>3, <2>1, <2>2 DEF Offer
<1>7. NoNews(channel')
  <2>1. \A id, f : Msg("JoinFormation", id, f).kind \notin UpdateKind
    BY DEF Msg, UpdateKind
  <2>2. d \in Channels /\ NoNews(d)
    BY <1>1, DequeuedUpdates
  <2> HIDE DEF d
  <2>3. QED
    BY <1>1, <2>1, <2>2, SentOther
<1>8. QED
  BY <1>2, <1>3, <1>5, <1>6, <1>7, LeaderQuiet

LEMMA FormationsRequest ==
  ASSUME Inv, Inv', Formations, NEW m \in Maneuver, NEW u \in Vehicle, NEW v \in Vehicle,
         HandleRequest(m, u, v)
  PROVE  Formations'
<1> DEFINE h    == Head(channel[u][v])
           d    == Dequeue(u, v)
           next == NewFormation(formation[v], u, h.formation)
<1>1. /\ channel[u][v] # <<>> /\ ForMyPlatoon(m, u, v)
      /\ UNCHANGED <<helperVars, target, mergeVars>>
  BY DEF HandleRequest, Receives
<1>2. /\ Requesting(u, v, m) /\ v \in Leaders /\ v # u
      /\ role[v] # "FOLLOWER" /\ role[v] # "JOINER"
      /\ formation[v] \in Seq(Vehicle)
      /\ h.platoonId = v /\ h.formation = Company(u, m) /\ h.formation \in Seq(Vehicle)
  BY <1>1, Requested
<1>3. next = formation[v] \o Along(u, m)
  <2> DEFINE f == formation[v]
             g == Company(u, m)
  <2>1. f \in Seq(Vehicle) /\ g \in Seq(Vehicle)
    BY <1>2
  <2> HIDE DEF f, g
  <2>2. Append(f, u) \o g = f \o (<<u>> \o g)
    BY <2>1
  <2>3. QED
    BY <1>2, <2>2 DEF NewFormation, Along, f, g
<1>4. d \in Channels /\ NoNews(d)
  BY <1>1, DequeuedUpdates
<1>5. old' = old /\ formation' = formation /\ target' = target /\ checkDistance' = checkDistance
  BY <1>1 DEF helperVars, mergeVars
<1>6. \A kind \in {"JoinPlatoonResponse", "MoveToPosition"} : \A id, f :
        Msg(kind, id, f).kind \notin UpdateKind
  BY DEF Msg, UpdateKind
<1>7. /\ Permission(v) \in Message
      /\ Permission(v).kind \notin UpdateKind /\ Denial(v).kind \notin UpdateKind
  BY <1>2, Answers DEF UpdateKind
<1> HIDE DEF d
<1>8. CASE IsJoinAllowed(v)
  <2>1. /\ active[v] = "none" /\ active' = [active EXCEPT ![v] = m]
        /\ role' = [role EXCEPT ![v] = "LEADER"]
        /\ joiner' = [joiner EXCEPT ![v][m] = [id |-> u, newFormation |-> next]]
        /\ state' = [state EXCEPT ![v][m] = "L_WAIT_JOINER_IN_POSITION"]
        /\ channel' = Grant(d, v, u, h.platoonId, next)
    BY <1>8 DEF IsJoinAllowed, HandleRequest, SetActive, SetRole, SetState, d
  <2>2. \A w \in Vehicle : w # v => Same(w)
    BY <1>1, <2>1 DEF Inv, Typed, TypeOK, helperVars, Same
  <2>3. /\ role'[v] = "LEADER" /\ active'[v] = m /\ state'[v][m] = "L_WAIT_JOINER_IN_POSITION"
        /\ joiner'[v][m].id = u /\ joiner'[v][m].newFormation = next
    BY <1>2, <2>1 DEF Inv, Typed, TypeOK
  <2>4. \A n \in Maneuver : \A w : \A s \in LState : ~ServesIn(v, n, w, s)
    BY <2>1, InvFacts, LocalOfState DEF Inv
  <2>5. SameAdmission(v)
    BY <2>3, <2>4 DEF SameAdmission, ServesIn, LState
  <2>6. ASSUME NEW n \in Maneuver, NEW w \in Vehicle, NEW s \in LState,
               ServesIn(v, n, w, s)', role[w] = "JOINER"
        PROVE  Offer(v, n)' = formation[v] \o Along(w, n)
    <3>1. n = m /\ w = u
      BY <2>3, <2>6 DEF ServesIn
    <3>2. QED
      BY <1>3, <2>3, <3>1 DEF Offer
  <2>7. NoNews(channel')
    <3> DEFINE s1 == Send(d, v, u, Permission(v))
    <3>1. Grant(d, v, u, v, next) = Send(s1, v, u, Msg("MoveToPosition", v, next))
      BY DEF Grant, Permission
    <3>2. NoNews(s1)
      BY <1>4, <1>7, SentOther
    <3>3. s1 \in Channels
      BY <1>4, <1>7, SendChannels
    <3> HIDE DEF s1, next
    <3>4. NoNews(Send(s1, v, u, Msg("MoveToPosition", v, next)))
      BY <1>6, <3>2, <3>3, SentOther
    <3>5. QED
      BY <1>2, <2>1, <3>1, <3>4
  <2>8. QED
    BY <1>2, <1>5, <2>2, <2>3, <2>5, <2>6, <2>7, LeaderQuiet
<1>9. CASE ~IsJoinAllowed(v)
  <2>1. channel' = Send(d, v, u, Denial(v)) /\ UNCHANGED <<appVars, joiner, state>>
    BY <1>2, <1>9 DEF HandleRequest, Denial, d
  <2>2. \A w \in Vehicle : Same(w)
    BY <1>1, <2>1 DEF appVars, helperVars, Same
  <2>3. role' = role
    BY <2>1 DEF appVars
  <2>4. v \in Vehicle /\ Same(v) /\ SameAdmission(v)
    BY <2>2, Constants DEF SameAdmission, Same, ServesIn, Offer
  <2>5. ASSUME NEW n \in Maneuver, NEW w \in Vehicle, NEW s \in LState,
               ServesIn(v, n, w, s)', role[w] = "JOINER"
        PROVE  Offer(v, n)' = formation[v] \o Along(w, n)
    <3>1. ServesIn(v, n, w, s) /\ Offer(v, n)' = Offer(v, n)
      BY <2>4, <2>5 DEF Same, ServesIn, Offer
    <3>2. QED
      BY <1>2, <2>4, <2>5, <3>1 DEF Formations, OffersStand
  <2>6. NoNews(channel')
    BY <1>4, <1>7, <2>1, SentOther
  <2>7. QED
    BY <1>2, <1>5, <2>2, <2>3, <2>4, <2>5, <2>6, LeaderQuiet
<1>10. QED
  BY <1>8, <1>9

(* Nothing changes but queues, and timers that were scheduled before.      *)
LEMMA FormationsUnread ==
  ASSUME Inv, Inv', Formations, UNCHANGED <<appVars, helperVars, maneuverVars, old>>,
         NoNews(channel'), checkDistance' = checkDistance
  PROVE  Formations'
<1>1. /\ \A w \in Vehicle : Same(w)
      /\ formation' = formation /\ role' = role /\ old' = old /\ target' = target
  BY DEF Same, appVars, helperVars, maneuverVars
<1>2. \A l, b \in Vehicle : KeepsServing(l, b)
  BY <1>1, SameKeeps
<1>3. Followers' = Followers /\ FollowersStay
  BY <1>1 DEF Followers, FollowersStay, Merged
<1>4. (\A l \in Leaders : Known(l)' = Known(l)) /\ OffersStand'
  BY <1>1, <1>2, <1>3, ServingFrame
<1>5. \A l \in Leaders : role'[l] = "JOINER" => old'[l].formation = formation[l]
  BY <1>1 DEF Formations, OldFormations
<1>6. \A w \in Vehicle : checkDistance'[w] => w \in Leaders \cap Followers
  BY DEF Formations, ChecksFollow
<1>7. QED
  BY <1>1, <1>3, <1>4, <1>5, <1>6, QuietStep

LEMMA FormationsDisregard ==
  ASSUME Inv, Inv', Formations, NEW u \in Vehicle, NEW v \in Vehicle, Disregard(u, v)
  PROVE  Formations'
<1> DEFINE h == Head(channel[u][v])
<1>1. /\ channel[u][v] # <<>> /\ ~Wanted(u, v) /\ channel' = Dequeue(u, v)
      /\ UNCHANGED <<appVars, helperVars, maneuverVars, old>>
      /\ checkDistance' = [checkDistance EXCEPT ![v] =
           @ \/ (Served("merge", v) /\ h.kind = "JoinFormation")]
  BY DEF Disregard
<1>2. h.kind # "JoinFormation"
  <2>1. \/ h.kind \in UpdateKind
        \/ \E m \in Maneuver : h = Demand(u, v, m)
    BY <1>1, OnlyRequestsDisregarded
  <2>2. \A m \in Maneuver : Demand(u, v, m).kind # "JoinFormation"
    <3>1. \A m \in Maneuver : Demand(u, v, m).kind = Request[m]
      BY DEF Demand, Msg
    <3>2. \A m \in Maneuver : Request[m] # "JoinFormation"
      BY DEF Request, Maneuver
    <3>3. QED
      BY <3>1, <3>2
  <2>3. "JoinFormation" \notin UpdateKind
    BY DEF UpdateKind
  <2>4. QED
    BY <2>1, <2>2, <2>3
<1>3. checkDistance' = checkDistance
  BY <1>1, <1>2 DEF Inv, Typed, TypeOK
<1>4. NoNews(channel')
  BY <1>1, DequeuedUpdates
<1>5. QED
  BY <1>1, <1>3, <1>4, FormationsUnread

-----------------------------------------------------------------------------
(* The steps that send or apply formation updates *)

LEMMA FollowsAfter ==
  ASSUME NEW f \in Formation, NEW g \in Formation, NEW n \in Nat, After(n, f, g), NEW x,
         Follows(x, f) \/ (n >= 1 /\ Occurs(x, f))
  PROVE  Follows(x, g)
<1>1. PICK i \in 1 .. Len(f) : f[i] = x /\ n + i >= 2
  <2>1. CASE Follows(x, f)
    <3>1. PICK i \in 2 .. Len(f) : f[i] = x
      BY <2>1 DEF Follows
    <3>2. i \in 1 .. Len(f) /\ n + i >= 2
      BY <3>1 DEF Formation
    <3>3. QED
      BY <3>1, <3>2
  <2>2. CASE n >= 1 /\ Occurs(x, f)
    BY <2>2 DEF Occurs, Formation
  <2>3. QED
    BY <2>1, <2>2
<1>2. n + i \in 2 .. Len(g) /\ g[n + i] = x
  BY <1>1 DEF After, Formation
<1>3. QED
  BY <1>2 DEF Follows

(* The line of any leader, following or not, has no vehicle twice.         *)
LEMMA DistinctLines ==
  ASSUME Inv, Formations, NEW l \in Leaders
  PROVE  Distinct(Known(l)) /\ Known(l) \in Formation
<1>1. Known(l) \in Formation
  BY LineTypes DEF Inv
<1>2. CASE l \notin Followers
  BY <1>1, <1>2, LeaderLines DEF Good, Sound, Shape
<1>3. CASE l \in Followers
  <2> DEFINE f == old[l].formation
             g == Merged(l)
  <2>1. Known(l) = f
    BY <1>3 DEF Known
  <2>2. Distinct(g) /\ g \in Formation
    BY <1>3 DEF Formations, MergedGood, Good, Sound, Shape
  <2>3. PICK n \in 1 .. Len(g) : After(n, f, g)
    BY <1>3 DEF Formations, MergedGood
  <2> HIDE DEF f, g
  <2>4. Len(f) \in Nat /\ Len(g) \in Nat
    BY <1>1, <2>1, <2>2 DEF Formation
  <2>5. \A i \in 1 .. Len(f) : n + i \in 1 .. Len(g) /\ g[n + i] = f[i]
    BY <2>3, <2>4 DEF After
  <2>6. ASSUME NEW i \in 1 .. Len(f), NEW j \in 1 .. Len(f), f[i] = f[j]
        PROVE  i = j
    <3>1. n + i = n + j
      BY <2>2, <2>5, <2>6 DEF Distinct
    <3>2. QED
      BY <2>3, <2>4, <3>1
  <2>7. QED
    BY <1>1, <2>1, <2>6 DEF Distinct
<1>4. QED
  BY <1>2, <1>3

(* A formation of the new leader that has a vehicle of the train that u    *)
(* brought has the whole train, so it is no shorter than what u took over. *)
LEMMA MergedIsShorter ==
  ASSUME Inv, Formations, NEW u \in Leaders, u \in Followers,
         NEW g, Good(g), g[1] = Merged(u)[1],
         NEW w, Follows(w, old[u].formation), Follows(w, g)
  PROVE  Len(Merged(u)) <= Len(g)
<1> DEFINE f == old[u].formation
           k == Merged(u)
           l == g[1]
           line == Known(l)
<1>1. /\ g \in Formation /\ g # <<>> /\ l \in Leaders /\ Begins(g, line)
      /\ \A i \in 2 .. Len(g) : g[i] \in Leaders => After(i - 1, Trains[g[i]], g)
  BY DEF Good, Sound, Shape, KnownLines
<1>2. /\ k \in Formation /\ k # <<>> /\ Begins(k, line)
  <2>1. Good(k)
    BY DEF Formations, MergedGood
  <2>2. QED
    BY <1>1, <2>1 DEF Good, Sound, Shape, KnownLines
<1>3. PICK n \in 1 .. Len(k) : After(n, f, k) /\ Len(k) = n + Len(f)
  BY DEF Formations, MergedGood
<1>4. f # <<>> /\ f[1] = u /\ f \in Formation
  BY Constants DEF Formations, MergedGood, Inv, Typed, TypeOK
<1>5. Distinct(line) /\ line \in Formation
  BY <1>1, DistinctLines
<1>6. PICK i \in 2 .. Len(f) : f[i] = w
  BY DEF Follows
<1>7. PICK j \in 2 .. Len(g) : g[j] = w
  BY DEF Follows
<1>8. Trains[u] = f
  BY DEF Trains
<1> HIDE DEF f, k, l, line
<1>9. Len(f) \in Nat /\ Len(g) \in Nat /\ Len(k) \in Nat /\ Len(line) \in Nat
  BY <1>1, <1>2, <1>4, <1>5 DEF Formation
<1>10. /\ n + i \in 1 .. Len(k) /\ k[n + i] = w /\ n + i \in 1 .. Len(line) /\ line[n + i] = w
       /\ n + 1 \in 1 .. Len(k) /\ k[n + 1] = u /\ n + 1 \in 1 .. Len(line) /\ line[n + 1] = u
  <2>1. i \in 1 .. Len(f) /\ 1 \in 1 .. Len(f)
    BY <1>6, <1>9
  <2>2. k[n + i] = w /\ k[n + 1] = u
    BY <1>3, <1>4, <1>6, <2>1 DEF After
  <2>3. n + i \in 1 .. Len(k) /\ n + 1 \in 1 .. Len(k)
    BY <1>3, <1>9, <2>1
  <2>4. QED
    BY <1>2, <1>9, <2>2, <2>3, SMTT(30) DEF Begins
<1>11. j \in 1 .. Len(line) /\ line[j] = w
  BY <1>1, <1>7, <1>9 DEF Begins
<1>12. j = n + i
  BY <1>5, <1>10, <1>11 DEF Distinct
<1>13. n + 1 \in 2 .. Len(g) /\ g[n + 1] = u /\ (n + 1) - 1 = n
  <2>1. n + 1 \in 2 .. Len(g) /\ n + 1 \in 1 .. Len(g) /\ (n + 1) - 1 = n
    BY <1>3, <1>6, <1>7, <1>9, <1>12
  <2>2. g[n + 1] = line[n + 1]
    BY <1>1, <2>1 DEF Begins
  <2>3. QED
    BY <1>10, <2>1, <2>2
<1>14. After(n, f, g)
  BY <1>1, <1>8, <1>13
<1>15. QED
  BY <1>3, <1>9, <1>14 DEF After, k

(* What a follower sends on with an update, and who gets it.               *)
LEMMA UpdatesSent ==
  ASSUME NEW ch \in Channels, NoNews(ch), NEW v \in Vehicle, NEW f, NEW msg \in Message,
         msg.kind \in UpdateKind,
         msg.kind = "UpdatePlatoonFormation" =>
           \A b \in Vehicle : \A x \in Updates(channel[v][b]) :
             b \in ToSet(Tail(f)) /\ x.kind = "UpdatePlatoonFormation" =>
               Len(x.formation) <= Len(msg.formation)
  PROVE  LET s == SendToFollowers(ch, v, f, msg) IN
         \A a, b \in Vehicle :
           /\ Growing(s[a][b])
           /\ \A x \in Updates(s[a][b]) :
                \/ x \in Updates(channel[a][b])
                \/ x = msg /\ a = v /\ b \in ToSet(Tail(f))
<1> DEFINE s == SendToFollowers(ch, v, f, msg)
<1>1. \A a, b \in Vehicle :
        s[a][b] = IF a = v /\ b \in ToSet(Tail(f)) THEN Append(ch[a][b], msg) ELSE ch[a][b]
  BY SendToFollowersChannels
<1> HIDE DEF s
<1>2. ASSUME NEW b \in Vehicle, b \in ToSet(Tail(f))
      PROVE  /\ Growing(Append(ch[v][b], msg))
             /\ Updates(Append(ch[v][b], msg)) = Updates(ch[v][b]) \cup {msg}
  <2>1. ch[v][b] \in Seq(Message) /\ Growing(ch[v][b])
        /\ Updates(ch[v][b]) \subseteq Updates(channel[v][b])
    BY DEF Channels, NoNews
  <2>2. msg.kind = "UpdatePlatoonFormation" =>
          \A x \in Updates(ch[v][b]) :
            x.kind = "UpdatePlatoonFormation" => Len(x.formation) <= Len(msg.formation)
    BY <1>2, <2>1
  <2>3. QED
    BY <2>1, <2>2, GrowingAppend
<1>3. ASSUME NEW a \in Vehicle, NEW b \in Vehicle
      PROVE  /\ Growing(s[a][b])
             /\ \A x \in Updates(s[a][b]) :
                  \/ x \in Updates(channel[a][b])
                  \/ x = msg /\ a = v /\ b \in ToSet(Tail(f))
  BY <1>1, <1>2 DEF NoNews
<1>4. QED
  BY <1>3 DEF s

LEMMA FormationsCheckDistance ==
  ASSUME Inv, Inv', Formations, NEW v \in Vehicle, CheckDistance(v)
  PROVE  Formations'
<1> DEFINE base == Msg("UpdatePlatoonData", old[v].platoonId, target[v]["merge"].newFormation)
           data == [base EXCEPT !.newPlatoonId = target[v]["merge"].platoonId]
           s    == SendToFollowers(channel, v, old[v].formation, data)
<1>1. /\ checkDistance[v] /\ channel' = s
      /\ checkDistance' = [checkDistance EXCEPT ![v] = FALSE]
      /\ UNCHANGED <<appVars, helperVars, maneuverVars, old>>
  BY DEF CheckDistance
<1>2. data \in Message /\ data.kind = "UpdatePlatoonData" /\ data.formation = Merged(v)
  <2>1. /\ old[v].platoonId \in Id
        /\ target[v]["merge"].newFormation \in Formation /\ target[v]["merge"].platoonId \in Id
    BY Kinds DEF Inv, Typed, TypeOK
  <2>2. base \in Message /\ base.kind = "UpdatePlatoonData" /\ base.formation = Merged(v)
    BY <2>1, Kinds, MsgType DEF Merged
  <2> HIDE DEF base
  <2>3. QED
    BY <2>1, <2>2 DEF Message
<1> HIDE DEF data
<1>3. v \in Leaders /\ v \in Followers
  BY <1>1 DEF Formations, ChecksFollow
<1>4. \A a, b \in Vehicle :
        /\ Growing(s[a][b])
        /\ \A x \in Updates(s[a][b]) :
             \/ x \in Updates(channel[a][b])
             \/ x = data /\ a = v /\ b \in ToSet(Tail(old[v].formation))
  <2>1. data.kind \in UpdateKind /\ data.kind # "UpdatePlatoonFormation"
    BY <1>2 DEF UpdateKind
  <2>2. channel \in Channels /\ NoNews(channel)
    BY InvFacts DEF NoNews, Formations, UpdatesGrow
  <2>3. QED
    BY <1>2, <2>1, <2>2, UpdatesSent
<1> HIDE DEF s
<1>5. ASSUME NEW b \in ToSet(Tail(old[v].formation))
      PROVE  UpdateGood(v, b, data)
  <2>1. /\ Good(Merged(v)) /\ old[v].formation # <<>>
        /\ \E n \in 1 .. Len(Merged(v)) : After(n, old[v].formation, Merged(v))
    BY <1>3 DEF Formations, MergedGood
  <2>2. Merged(v) \in Formation /\ old[v].formation \in Formation
    BY <2>1 DEF Good, Sound, Shape, Inv, Typed, TypeOK
  <2>3. Follows(b, old[v].formation)
    BY <2>1, <2>2, OccursToSet
  <2>4. Follows(b, Merged(v))
    BY <2>1, <2>2, <2>3, FollowsAfter
  <2>5. QED
    BY <1>2, <1>3, <2>1, <2>3, <2>4 DEF UpdateGood
<1>6. /\ \A w \in Vehicle : Same(w)
      /\ formation' = formation /\ role' = role /\ old' = old /\ target' = target
  BY <1>1 DEF Same, appVars, helperVars, maneuverVars
<1>7. Followers' = Followers
  BY <1>6 DEF Followers
<1>8. \A b \in Leaders \cap Followers :
        old'[b].formation = old[b].formation /\ Merged(b)' = Merged(b)
  BY <1>6 DEF Merged
<1>9. (\A l \in Leaders : Known(l)' = Known(l)) /\ OffersStand'
  BY <1>6, <1>7, <1>8, SameKeeps, ServingFrame
<1>10. \A l \in Leaders : role'[l] = "JOINER" => old'[l].formation = formation'[l]
  BY <1>6 DEF Formations, OldFormations
<1>11. \A w \in Vehicle : checkDistance'[w] => w \in Leaders \cap Followers
  <2>1. \A w \in Vehicle : checkDistance'[w] => checkDistance[w]
    BY <1>1 DEF Inv, Typed, TypeOK
  <2>2. QED
    BY <2>1 DEF Formations, ChecksFollow
<1>12. \A a, b \in Vehicle : \A x \in Updates(channel'[a][b]) :
         x \in Updates(channel[a][b]) \/ UpdateGood(a, b, x)
  BY <1>1, <1>4, <1>5
<1>13. UpdatesGrow'
  <2> SUFFICES ASSUME NEW a \in Vehicle, NEW b \in Vehicle
               PROVE  /\ Growing(channel'[a][b])
                      /\ b \in Followers /\ LeaderId(b) = a =>
                           \A x \in Updates(channel'[a][b]) :
                             x.kind = "UpdatePlatoonFormation" => Len(formation[b]) <= Len(x.formation)
    BY <1>6, <1>7 DEF UpdatesGrow, LeaderId, Updates, Growing
  <2>1. \A x \in Updates(channel'[a][b]) :
          x.kind = "UpdatePlatoonFormation" => x \in Updates(channel[a][b])
    BY <1>1, <1>2, <1>4
  <2>2. QED
    BY <1>1, <1>4, <2>1 DEF Formations, UpdatesGrow
<1>14. QED
  BY <1>6, <1>7, <1>8, <1>9, <1>10, <1>11, <1>12, <1>13, CalmStep

LEMMA FormationsJoined ==
  ASSUME Inv, Inv', Formations, NEW m \in Maneuver, NEW u \in Vehicle, NEW v \in Vehicle,
         HandleJoinFormationAck(m, u, v)
  PROVE  Formations'
<1> DEFINE f   == Offer(v, m)
           d   == Dequeue(u, v)
           upd == Msg("UpdatePlatoonFormation", platoonId[v], f)
           s   == SendToFollowers(d, v, f, upd)
<1>1. /\ channel[u][v] # <<>> /\ Head(channel[u][v]).kind = "JoinFormationAck" /\ FromJoiner(m, u, v)
      /\ channel' = s
      /\ formation' = [formation EXCEPT ![v] = f]
      /\ active' = [active EXCEPT ![v] = "none"]
      /\ \E t : state' = [state EXCEPT ![v][m] = t]
      /\ UNCHANGED <<role, platoonId, target, joiner, mergeVars>>
  BY DEF HandleJoinFormationAck, Receives, SetFormation, SetState, SetActive, Offer
<1>2. /\ active[v] = m /\ role[v] = "LEADER" /\ v \in Leaders /\ platoonId[v] = v
      /\ Joined(u, v, m) /\ f \in Formation
  BY <1>1, Confirmed
<1>3. v \notin Followers /\ u \in Followers /\ ServesIn(v, m, u, "L_WAIT_JOINER_TO_JOIN")
  BY <1>2 DEF Followers, Joined
<1>4. Known(v) = f
  <2>1. Admitting(v)
    BY <1>3 DEF Admitting
  <2>2. QED
    BY <1>2, <1>3, <2>1 DEF Known
<1>5. f # <<>> /\ f[1] = v /\ Good(f)
  BY <1>2, <1>3, <1>4, LeaderLines DEF Good, Sound, Shape
<1> HIDE DEF f
<1>6. /\ upd \in Message /\ upd.kind = "UpdatePlatoonFormation" /\ upd.formation = f
  BY <1>2, Constants, Kinds, MsgType
<1>7. d \in Channels /\ NoNews(d)
  BY <1>1, DequeuedUpdates
<1> HIDE DEF d, upd
<1>8. ASSUME NEW g, Good(g), g[1] = v
      PROVE  Len(g) <= Len(f)
  BY <1>4, <1>8 DEF Good, Sound, Shape, KnownLines, Begins
<1>9. \A a, b \in Vehicle :
        /\ Growing(s[a][b])
        /\ \A x \in Updates(s[a][b]) :
             \/ x \in Updates(channel[a][b])
             \/ x = upd /\ a = v /\ b \in ToSet(Tail(f))
  <2>1. ASSUME NEW b \in Vehicle, NEW x \in Updates(channel[v][b]),
               x.kind = "UpdatePlatoonFormation"
        PROVE  Len(x.formation) <= Len(upd.formation)
    <3>1. Good(x.formation) /\ x.formation[1] = v
      BY <2>1 DEF Formations, UpdatesGood, UpdateGood
    <3>2. QED
      BY <1>6, <1>8, <3>1
  <2>2. upd.kind \in UpdateKind
    BY <1>6 DEF UpdateKind
  <2>3. \A b \in Vehicle : \A x \in Updates(channel[v][b]) :
          b \in ToSet(Tail(f)) /\ x.kind = "UpdatePlatoonFormation" =>
            Len(x.formation) <= Len(upd.formation)
    BY <2>1
  <2>4. d \in Channels /\ NoNews(d) /\ upd \in Message
    BY <1>6, <1>7
  <2>5. QED
    BY <2>2, <2>3, <2>4, UpdatesSent
<1> HIDE DEF s
<1>10. /\ \A w \in Vehicle : w # v => Same(w) /\ formation'[w] = formation[w]
       /\ formation'[v] = f /\ active'[v] = "none"
       /\ role' = role /\ old' = old /\ target' = target /\ checkDistance' = checkDistance
  BY <1>1 DEF Inv, Typed, TypeOK, mergeVars, Same
<1>11. Followers' = Followers
  BY <1>10 DEF Followers
<1>12. \A b \in Leaders \cap Followers :
         old'[b].formation = old[b].formation /\ Merged(b)' = Merged(b)
  BY <1>10 DEF Merged
<1>13. ASSUME NEW n \in Maneuver, NEW w, NEW t PROVE ~ServesIn(v, n, w, t)'
  BY <1>10 DEF ServesIn, Maneuver
<1>14. ASSUME NEW l \in Leaders PROVE Known(l)' = Known(l)
  <2>1. CASE l = v
    <3>1. ~Admitting(v)'
      BY <1>13 DEF Admitting
    <3>2. Known(v)' = f
      BY <1>3, <1>10, <1>11, <3>1 DEF Known
    <3>3. QED
      BY <1>4, <2>1, <3>2
  <2>2. CASE l # v
    <3>1. Same(l) /\ formation'[l] = formation[l] /\ old'[l] = old[l]
      BY <1>10, <2>2, Constants
    <3>2. SameAdmission(l)
      BY <3>1 DEF Same, SameAdmission, ServesIn, Offer
    <3>3. QED
      BY <1>11, <3>1, <3>2, KnownFrame
  <2>3. QED
    BY <2>1, <2>2
<1>15. OffersStand'
  <2> SUFFICES ASSUME NEW l \in Vehicle, NEW w \in Vehicle, NEW n \in Maneuver, NEW t \in LState,
                      ServesIn(l, n, w, t)', role'[w] = "JOINER"
               PROVE  Offer(l, n)' = formation'[l] \o Along(w, n)'
    BY DEF OffersStand
  <2>1. l # v /\ w # v
    BY <1>2, <1>10, <1>13
  <2>2. /\ ServesIn(l, n, w, t) /\ role[w] = "JOINER" /\ Offer(l, n)' = Offer(l, n)
        /\ formation'[l] = formation[l] /\ Along(w, n)' = Along(w, n)
    BY <1>10, <2>1 DEF Same, ServesIn, Offer, Along, Company
  <2>3. QED
    BY <2>2 DEF Formations, OffersStand
<1>16. \A l \in Leaders : role'[l] = "JOINER" => old'[l].formation = formation'[l]
  BY <1>2, <1>10, Constants DEF Formations, OldFormations
<1>17. \A w \in Vehicle : checkDistance'[w] => w \in Leaders \cap Followers
  BY <1>10 DEF Formations, ChecksFollow
<1>18. \A a, b \in Vehicle : \A x \in Updates(channel'[a][b]) :
         x \in Updates(channel[a][b]) \/ UpdateGood(a, b, x)
  <2>1. ASSUME NEW b \in ToSet(Tail(f)) PROVE UpdateGood(v, b, upd)
    <3>1. Follows(b, f)
      BY <1>2, <1>5, OccursToSet
    <3>2. QED
      BY <1>2, <1>5, <1>6, <3>1 DEF UpdateGood
  <2>2. QED
    BY <1>1, <1>9, <2>1
<1>19. UpdatesGrow'
  <2> SUFFICES ASSUME NEW a \in Vehicle, NEW b \in Vehicle
               PROVE  /\ Growing(channel'[a][b])
                      /\ b \in Followers /\ Head(formation'[b]) = a =>
                           \A x \in Updates(channel'[a][b]) :
                             x.kind = "UpdatePlatoonFormation" => Len(formation'[b]) <= Len(x.formation)
    BY <1>11 DEF UpdatesGrow, LeaderId, Updates, Growing
  <2>1. ASSUME b \in Followers, Head(formation'[b]) = a, NEW x \in Updates(channel'[a][b]),
               x.kind = "UpdatePlatoonFormation"
        PROVE  Len(formation'[b]) <= Len(x.formation)
    <3>1. formation'[b] = formation[b] /\ LeaderId(b) = a
      BY <1>3, <1>10, <2>1 DEF LeaderId
    <3>2. CASE x \in Updates(channel[a][b])
      BY <2>1, <3>1, <3>2 DEF Formations, UpdatesGrow
    <3>3. CASE x = upd /\ a = v
      <4>1. Good(formation[b])
        BY <2>1 DEF Formations, FollowersGood
      <4>2. formation[b] \in Formation /\ formation[b] # <<>>
        BY <4>1 DEF Good, Sound, Shape
      <4>3. formation[b][1] = v
        BY <3>1, <3>3, <4>2, OccursToSet DEF LeaderId
      <4>4. QED
        BY <1>6, <1>8, <3>1, <3>3, <4>1, <4>3
    <3>4. QED
      BY <1>1, <1>9, <2>1, <3>2, <3>3
  <2>2. QED
    BY <1>1, <1>9, <2>1
<1>20. \A x \in Vehicle :
         formation'[x] = formation[x] \/ (x \in Leaders \ Followers /\ formation'[x] = Known(x))
  BY <1>2, <1>3, <1>4, <1>10
<1>21. QED
  BY <1>11, <1>12, <1>14, <1>15, <1>16, <1>17, <1>18, <1>19, <1>20, CalmStep

(* A follower takes over the formation of an update from its leader u.     *)
LEMMA FormationsUpdated ==
  ASSUME Inv, Inv', Formations, NEW u \in Vehicle, NEW v \in Vehicle,
         channel[u][v] # <<>>, Head(channel[u][v]).kind \in UpdateKind, FromLeader(u, v),
         formation' = [formation EXCEPT ![v] = Head(channel[u][v]).formation],
         channel' = Dequeue(u, v),
         UNCHANGED <<appVars, maneuverVars, mergeVars>>
  PROVE  Formations'
<1> DEFINE h == Head(channel[u][v])
<1>1. role[v] = "FOLLOWER" /\ u = LeaderId(v) /\ v \in Followers
  BY DEF FromLeader, Followers
<1>2. channel[u][v] \in Seq(Message) /\ Growing(channel[u][v])
  BY InvFacts DEF Channels, Formations, UpdatesGrow
<1>3. /\ h \in Updates(channel[u][v])
      /\ h.kind = "UpdatePlatoonFormation" =>
           \A x \in Updates(Tail(channel[u][v])) :
             x.kind = "UpdatePlatoonFormation" => Len(h.formation) <= Len(x.formation)
  BY <1>2, GrowingTail
<1>4. UpdateGood(u, v, h)
  BY <1>3 DEF Formations, UpdatesGood
<1>5. NoNews(channel') /\ channel'[u][v] = Tail(channel[u][v])
  <2>1. channel' \in Channels /\ NoNews(channel')
    BY DequeuedUpdates
  <2>2. QED
    BY <2>1, InvFacts DEF Dequeue, Channels
<1>6. /\ Good(h.formation) /\ Follows(v, h.formation)
      /\ h.formation \in Formation /\ h.formation # <<>> /\ Head(h.formation) = h.formation[1]
  <2>1. Good(h.formation) /\ Follows(v, h.formation)
    BY <1>4, SMTT(30) DEF UpdateGood
  <2>2. h.formation \in Formation /\ h.formation # <<>>
    BY <2>1 DEF Good, Sound, Shape
  <2>3. QED
    BY <2>1, <2>2, OccursToSet
<1> DEFINE f == h.formation
<1>7. ASSUME NEW a \in Vehicle, a = f[1], NEW x \in Updates(channel'[a][v]),
             x.kind = "UpdatePlatoonFormation"
      PROVE  Len(f) <= Len(x.formation)
  <2>1. CASE h.kind = "UpdatePlatoonFormation"
    <3>1. a = u
      BY <1>4, <1>7, <2>1 DEF UpdateGood
    <3>2. QED
      BY <1>3, <1>5, <1>7, <2>1, <3>1
  <2>2. CASE h.kind = "UpdatePlatoonData"
    <3>1. u \in Leaders /\ u \in Followers /\ f = Merged(u) /\ Follows(v, old[u].formation)
      BY <1>4, <2>2 DEF UpdateGood
    <3>2. UpdateGood(a, v, x)
      BY <1>5, <1>7 DEF NoNews, Formations, UpdatesGood
    <3>3. Good(x.formation) /\ x.formation[1] = a /\ Follows(v, x.formation)
      BY <1>7, <3>2 DEF UpdateGood
    <3> HIDE DEF f
    <3>4. x.formation[1] = Merged(u)[1]
      BY <1>7, <3>1, <3>3
    <3>5. Len(Merged(u)) <= Len(x.formation)
      BY <3>1, <3>3, <3>4, MergedIsShorter
    <3>6. QED
      BY <3>1, <3>5
  <2>3. QED
    BY <2>1, <2>2 DEF UpdateKind
<1> HIDE DEF f
<1>8. /\ role' = role /\ old' = old /\ target' = target /\ checkDistance' = checkDistance
      /\ \A l, w, m, s : ServesIn(l, m, w, s)' <=> ServesIn(l, m, w, s)
      /\ \A l, m : Offer(l, m)' = Offer(l, m)
  BY DEF appVars, maneuverVars, mergeVars, ServesIn, Offer
<1>9. /\ formation'[v] = f /\ \A w \in Vehicle : w # v => formation'[w] = formation[w]
  BY DEF f, Inv, Typed, TypeOK
<1>10. Followers' = Followers
  BY <1>8 DEF Followers
<1>11. \A b \in Leaders \cap Followers :
         old'[b].formation = old[b].formation /\ Merged(b)' = Merged(b)
  BY <1>8 DEF Merged
<1>12. ASSUME NEW l \in Leaders PROVE Known(l)' = Known(l)
  <2>1. SameAdmission(l)
    BY <1>8 DEF SameAdmission
  <2>2. formation'[l] = formation[l] \/ l \in Followers
    BY <1>1, <1>9, Constants
  <2>3. QED
    BY <1>8, <1>10, <2>1, <2>2, KnownFrame
<1>13. \A x \in Vehicle :
         \/ formation'[x] = formation[x]
         \/ x \in Followers /\ Good(formation'[x]) /\ Follows(x, formation'[x])
  BY <1>1, <1>6, <1>9 DEF f
<1>14. \A l \in Leaders : role'[l] = "JOINER" => old'[l].formation = formation'[l]
  BY <1>1, <1>8, <1>9, Constants DEF Formations, OldFormations
<1>15. OffersStand'
  <2> SUFFICES ASSUME NEW l \in Vehicle, NEW w \in Vehicle, NEW m \in Maneuver, NEW s \in LState,
                      ServesIn(l, m, w, s)', role'[w] = "JOINER"
               PROVE  Offer(l, m)' = formation'[l] \o Along(w, m)'
    BY DEF OffersStand
  <2>1. ServesIn(l, m, w, s) /\ role[w] = "JOINER" /\ Offer(l, m)' = Offer(l, m)
    BY <1>8
  <2>2. l # v /\ w # v
    BY <1>1, <2>1 DEF ServesIn
  <2>3. formation'[l] = formation[l] /\ Along(w, m)' = Along(w, m)
    BY <1>9, <2>2 DEF Along, Company
  <2>4. Offer(l, m) = formation[l] \o Along(w, m)
    BY <2>1 DEF Formations, OffersStand
  <2>5. QED
    BY <2>1, <2>3, <2>4
<1>16. \A a, b \in Vehicle : \A x \in Updates(channel'[a][b]) : x \in Updates(channel[a][b])
  BY <1>5 DEF NoNews
<1>17. UpdatesGrow'
  <2> SUFFICES ASSUME NEW a \in Vehicle, NEW b \in Vehicle
               PROVE  /\ Growing(channel'[a][b])
                      /\ b \in Followers /\ Head(formation'[b]) = a =>
                           \A x \in Updates(channel'[a][b]) :
                             x.kind = "UpdatePlatoonFormation" => Len(formation'[b]) <= Len(x.formation)
    BY <1>10 DEF UpdatesGrow, LeaderId, Updates, Growing
  <2>1. Growing(channel'[a][b])
    BY <1>5 DEF NoNews
  <2>2. ASSUME b \in Followers, Head(formation'[b]) = a, NEW x \in Updates(channel'[a][b]),
               x.kind = "UpdatePlatoonFormation"
        PROVE  Len(formation'[b]) <= Len(x.formation)
    <3>1. CASE b = v
      <4>1. a = f[1]
        BY <1>6, <1>9, <2>2, <3>1 DEF f
      <4>2. QED
        BY <1>7, <1>9, <2>2, <3>1, <4>1
    <3>2. CASE b # v
      BY <1>9, <1>16, <2>2, <3>2 DEF Formations, UpdatesGrow, LeaderId
    <3>3. QED
      BY <3>1, <3>2
  <2>3. QED
    BY <2>1, <2>2
<1>18. \A w \in Vehicle : checkDistance'[w] => w \in Leaders \cap Followers
  BY <1>8 DEF Formations, ChecksFollow
<1>19. QED
  BY <1>10, <1>11, <1>12, <1>13, <1>14, <1>15, <1>16, <1>17, <1>18, CalmStep

LEMMA FormationsFollower ==
  ASSUME Inv, Inv', Formations, NEW u \in Vehicle, NEW v \in Vehicle,
         HandleUpdatePlatoonFormation(u, v) \/ HandleUpdatePlatoonData(u, v)
  PROVE  Formations'
<1>1. /\ channel[u][v] # <<>> /\ Head(channel[u][v]).kind \in UpdateKind /\ FromLeader(u, v)
      /\ formation' = [formation EXCEPT ![v] = Head(channel[u][v]).formation]
      /\ channel' = Dequeue(u, v)
      /\ UNCHANGED <<appVars, maneuverVars, mergeVars>>
  <2>1. CASE HandleUpdatePlatoonFormation(u, v)
    BY <2>1 DEF HandleUpdatePlatoonFormation, Receives, SetFormation, UpdateKind
  <2>2. CASE HandleUpdatePlatoonData(u, v)
    BY <2>2 DEF HandleUpdatePlatoonData, Receives, SetFormation, UpdateKind
  <2>3. QED
    BY <2>1, <2>2
<1>2. QED
  BY <1>1, FormationsUpdated

-----------------------------------------------------------------------------
(* The step in which the joiner takes its place *)

(* v is about to join the platoon of u, and brings its own train along.    *)
LEMMA AboutToJoin ==
  ASSUME Inv, Formations, NEW m \in Maneuver, NEW u \in Vehicle, NEW v \in Vehicle,
         Joining(v, u, m), AsJoiner(v, m)
  PROVE  /\ u \in Leaders /\ u # v /\ u \notin Followers /\ v \notin Followers
         /\ Known(u) = formation[u]
         /\ Offer(u, m) = formation[u] \o Along(v, m)
         /\ Along(v, m) \in Formation /\ Along(v, m) # <<>> /\ Along(v, m)[1] = v
         /\ v \in Leaders => /\ m = "merge" /\ Along(v, m) = formation[v]
                             /\ Known(v) = formation[v] /\ old[v].formation = formation[v]
         /\ v \notin Leaders => Along(v, m) = <<v>>
<1>1. /\ role[v] = "JOINER" /\ ServesIn(u, m, v, "L_WAIT_JOINER_TO_JOIN")
      /\ At(v, m, u, "J_WAIT_JOIN")
  BY DEF Joining, At
<1>2. "L_WAIT_JOINER_TO_JOIN" \in LState
  BY DEF LState
<1>3. u \in Leaders /\ u # v /\ u \notin Followers /\ v \notin Followers
  BY <1>1, <1>2, ServedBy DEF Followers
<1>4. ~Admitting(u)
  <2>1. \A n \in Maneuver, w \in Followers : ~ServesIn(u, n, w, "L_WAIT_JOINER_TO_JOIN")
    BY <1>1, <1>3 DEF ServesIn
  <2>2. QED
    BY <2>1 DEF Admitting
<1>5. Known(u) = formation[u]
  BY <1>3, <1>4 DEF Known
<1>6. Offer(u, m) = formation[u] \o Along(v, m)
  BY <1>1, <1>2 DEF Formations, OffersStand
<1>7. ASSUME v \in Leaders
      PROVE  /\ m = "merge" /\ formation[v] # <<>> /\ formation[v][1] = v
             /\ formation[v] \in Formation /\ Along(v, m) = formation[v]
             /\ Known(v) = formation[v] /\ old[v].formation = formation[v]
  <2>1. m = "merge"
    BY <1>7, Constants DEF AsJoiner, Maneuver
  <2>2. formation[v] # <<>> /\ formation[v][1] = v /\ formation[v] \in Formation
    BY <1>3, <1>7, LeaderLines
  <2>3. Along(v, m) = formation[v]
    <3> DEFINE f == formation[v]
    <3>1. f \in Seq(Vehicle) /\ f # <<>> /\ f[1] = v
      BY <2>2 DEF Formation
    <3> HIDE DEF f
    <3>2. <<v>> \o Tail(f) = f
      BY <3>1
    <3>3. QED
      BY <2>1, <3>2 DEF Along, Company, f
  <2>4. ~Admitting(v)
    BY <1>1 DEF Admitting, ServesIn
  <2>5. Known(v) = formation[v]
    BY <1>3, <2>4 DEF Known
  <2>6. old[v].formation = formation[v]
    BY <1>1, <1>7 DEF Formations, OldFormations
  <2>7. QED
    BY <2>1, <2>2, <2>3, <2>5, <2>6
<1>8. ASSUME v \notin Leaders
      PROVE  Along(v, m) = <<v>>
  <2>1. m # "merge"
    BY <1>8 DEF AsJoiner
  <2>2. QED
    BY <2>1 DEF Along, Company
<1>9. Along(v, m) \in Formation /\ Along(v, m) # <<>> /\ Along(v, m)[1] = v
  <2>1. CASE v \in Leaders
    BY <1>7, <2>1
  <2>2. CASE v \notin Leaders
    <3>1. <<v>> \in Formation /\ <<v>> # <<>> /\ <<v>>[1] = v
      BY DEF Formation
    <3>2. QED
      BY <1>8, <2>2, <3>1
  <2>3. QED
    BY <2>1, <2>2
<1>10. QED
  BY <1>3, <1>5, <1>6, <1>7, <1>8, <1>9

(* The vehicle or platoon that joins a line was not in any other leader's  *)
(* line before.                                                            *)
LEMMA NotYetIn ==
  ASSUME Inv, Formations, NEW m \in Maneuver, NEW u \in Vehicle, NEW v \in Vehicle,
         Joining(v, u, m), AsJoiner(v, m),
         NEW l \in Leaders, l \notin Followers, l # v
  PROVE  \A x : ~(Occurs(x, Known(l)) /\ Occurs(x, Along(v, m)))
<1> SUFFICES ASSUME NEW x, Occurs(x, Known(l)), Occurs(x, Along(v, m))
             PROVE  FALSE
  OBVIOUS
<1>1. CASE v \in Leaders
  <2>1. Along(v, m) = Known(v) /\ Known(v) \in Formation /\ v \notin Followers
    BY <1>1, AboutToJoin
  <2>2. x \in Vehicle
    BY <2>1 DEF Occurs, Formation
  <2>3. QED
    BY <1>1, <2>1, <2>2 DEF Formations, Apart
<1>2. CASE v \notin Leaders
  <2>1. Along(v, m) = <<v>> /\ v \notin Followers
    BY <1>2, AboutToJoin
  <2>2. x = v
    BY <2>1 DEF Occurs
  <2>3. Good(Known(l)) /\ Known(l)[1] = l
    BY LeaderLines
  <2>4. x = l \/ x \in Followers
    BY <2>3, SoundMembers, SMTT(30) DEF Good
  <2>5. QED
    BY <2>1, <2>2, <2>4
<1>3. QED
  BY <1>1, <1>2

(* What the step changes, as far as the formations are concerned.          *)
Joins(m, u, v) ==
  /\ formation'[v] = Offer(u, m) /\ role'[v] = "FOLLOWER"
  /\ \A w \in Vehicle : w # v => Same(w)
  /\ old' = old /\ target' = target
  /\ NoNews(channel')
  /\ \A w \in Vehicle : checkDistance'[w] => checkDistance[w] \/ (w = v /\ m = "merge")

LEMMA JoinStep ==
  ASSUME Inv, Formations, NEW m \in Maneuver, NEW u \in Vehicle, NEW v \in Vehicle,
         HandleJoinFormation(m, u, v)
  PROVE  Joins(m, u, v) /\ Joining(v, u, m) /\ AsJoiner(v, m)
<1> DEFINE h == Head(channel[u][v])
           d == Dequeue(u, v)
<1>1. /\ channel[u][v] # <<>> /\ h.kind = "JoinFormation" /\ FromTarget(m, u, v)
      /\ channel' = Send(d, v, Head(h.formation),
                         Msg("JoinFormationAck", h.platoonId, h.formation))
      /\ platoonId' = [platoonId EXCEPT ![v] = h.platoonId]
      /\ formation' = [formation EXCEPT ![v] = h.formation]
      /\ role' = [role EXCEPT ![v] = "FOLLOWER"]
      /\ state' = [state EXCEPT ![v][m] = "IDLE"]
      /\ active' = [active EXCEPT ![v] = "none"]
      /\ checkDistance' = [checkDistance EXCEPT ![v] = @ \/ m = "merge"]
      /\ UNCHANGED <<target, joiner, old>>
  BY SMTT(30) DEF HandleJoinFormation, Receives, SetFormation, SetRole, SetState, SetActive
<1>2. Joining(v, u, m) /\ AsJoiner(v, m) /\ h.formation = Offer(u, m) /\ Head(h.formation) = u
  BY <1>1, Welcomed, Taken
<1>3. NoNews(channel')
  <2>1. \A id, f : Msg("JoinFormationAck", id, f).kind \notin UpdateKind
    BY DEF Msg, UpdateKind
  <2>2. d \in Channels /\ NoNews(d)
    BY <1>1, DequeuedUpdates
  <2> HIDE DEF d
  <2>3. QED
    BY <1>1, <1>2, <2>1, <2>2, SentOther
<1>4. \A w \in Vehicle : w # v => Same(w)
  BY <1>1 DEF Inv, Typed, TypeOK, Same
<1>5. formation'[v] = Offer(u, m) /\ role'[v] = "FOLLOWER"
  BY <1>1, <1>2 DEF Inv, Typed, TypeOK
<1>6. \A w \in Vehicle : checkDistance'[w] => checkDistance[w] \/ (w = v /\ m = "merge")
  BY <1>1 DEF Inv, Typed, TypeOK
<1>7. QED
  BY <1>1, <1>2, <1>3, <1>4, <1>5, <1>6 DEF Joins

(* Only the line of the leader u becomes longer, by what v brings along.   *)
LEMMA LinesAfterJoin ==
  ASSUME Inv, Inv', Formations, NEW m \in Maneuver, NEW u \in Vehicle, NEW v \in Vehicle,
         Joining(v, u, m), AsJoiner(v, m), Joins(m, u, v)
  PROVE  /\ Followers' = Followers \cup {v}
         /\ Known(u)' = Offer(u, m)
         /\ \A l \in Leaders : l # u => Known(l)' = Known(l)
         /\ FollowersStay /\ LinesGrow
<1>1. /\ u \in Leaders /\ u # v /\ u \notin Followers /\ v \notin Followers
      /\ Known(u) = formation[u] /\ Offer(u, m) = formation[u] \o Along(v, m)
      /\ Along(v, m) \in Formation
  BY AboutToJoin
<1>2. \A w \in Vehicle : w # v => Same(w)
  BY DEF Joins
<1>3. Followers' = Followers \cup {v}
  <2>1. \A w \in Vehicle : w # v => role'[w] = role[w]
    BY <1>2 DEF Same
  <2>2. QED
    BY <2>1 DEF Followers, Joins
<1>4. Known(u)' = Offer(u, m)
  <2>1. Same(u)
    BY <1>1, <1>2
  <2>2. ServesIn(u, m, v, "L_WAIT_JOINER_TO_JOIN")'
    BY <2>1 DEF Joining, ServesIn, Same
  <2>3. Admitting(u)' /\ active'[u] = m
    BY <1>3, <2>2 DEF Admitting, ServesIn
  <2>4. u \notin Followers' /\ Offer(u, m)' = Offer(u, m)
    BY <1>1, <1>3, <2>1 DEF Same, Offer
  <2>5. QED
    BY <2>3, <2>4 DEF Known, Offer
<1>5. ASSUME NEW l \in Leaders, l # u
      PROVE  Known(l)' = Known(l)
  <2>1. CASE l = v
    <3>1. Known(v)' = old'[v].formation
      BY <1>3 DEF Known
    <3>2. QED
      BY <2>1, <3>1, AboutToJoin DEF Joins
  <2>2. CASE l \in Followers
    BY <1>3, <2>2 DEF Known, Joins
  <2>3. CASE l # v /\ l \notin Followers
    <3>1. Same(l) /\ l \in Vehicle
      BY <1>2, <2>3, Constants
    <3>2. ASSUME NEW n \in Maneuver
          PROVE  ~ServesIn(l, n, v, "L_WAIT_JOINER_TO_JOIN")
      <4>1. role[v] = "JOINER" /\ target[v][m].platoonLeader = u /\ active[v] = m
        BY DEF Joining, At
      <4>2. "L_WAIT_JOINER_TO_JOIN" \in LState
        BY DEF LState
      <4>3. ServesIn(l, n, v, "L_WAIT_JOINER_TO_JOIN") => \E t \in JState : At(v, n, l, t)
        BY <3>1, <4>1, <4>2, ServedBy
      <4>4. QED
        BY <1>5, <4>1, <4>3 DEF At
    <3>3. \A n, w : ServesIn(l, n, w, "L_WAIT_JOINER_TO_JOIN")' <=>
                    ServesIn(l, n, w, "L_WAIT_JOINER_TO_JOIN")
      BY <3>1 DEF Same, ServesIn
    <3>4. Admitting(l)' <=> Admitting(l)
      BY <1>3, <3>2, <3>3 DEF Admitting
    <3>5. /\ l \notin Followers' /\ formation'[l] = formation[l]
          /\ Offer(l, active[l])' = Offer(l, active[l])
      BY <1>3, <2>3, <3>1 DEF Same, Offer
    <3>6. QED
      BY <2>3, <3>4, <3>5 DEF Known
  <2>4. QED
    BY <2>1, <2>2, <2>3
<1>6. FollowersStay
  BY <1>3 DEF FollowersStay, Merged, Joins
<1>7. LinesGrow
  <2>1. formation[u] \in Formation /\ \A l \in Leaders : Known(l) \in Formation
    BY LineTypes DEF Inv, Typed, TypeOK
  <2>2. Begins(Known(u), Known(u)')
    BY <1>1, <1>4, <2>1, Coupled
  <2>3. \A l \in Leaders : Begins(Known(l), Known(l))
    BY <2>1, BeginsRefl
  <2>4. QED
    BY <1>5, <2>2, <2>3 DEF LinesGrow
<1>8. QED
  BY <1>3, <1>4, <1>5, <1>6, <1>7

(* The formation v takes over is the new line of its leader, with v and    *)
(* its train in it.                                                        *)
LEMMA OfferGood ==
  ASSUME Inv, Inv', Formations, NEW m \in Maneuver, NEW u \in Vehicle, NEW v \in Vehicle,
         Joining(v, u, m), AsJoiner(v, m), Joins(m, u, v)
  PROVE  /\ Sound(Offer(u, m), Followers', Trains', KnownLines')
         /\ \A x : Occurs(x, Along(v, m)) => Follows(x, Offer(u, m))
<1> DEFINE f == formation[u]
           t == Along(v, m)
<1>1. /\ u \in Leaders /\ u \notin Followers /\ v \notin Followers /\ Known(u) = f
      /\ Offer(u, m) = f \o t
      /\ t \in Formation /\ t # <<>> /\ t[1] = v
      /\ v \in Leaders => t = formation[v] /\ Known(v) = formation[v] /\ old[v].formation = t
      /\ v \notin Leaders => t = <<v>>
      /\ u # v
  BY AboutToJoin
<1>2. /\ Followers' = Followers \cup {v} /\ Known(u)' = f \o t
      /\ FollowersStay /\ LinesGrow
  BY <1>1, LinesAfterJoin
<1>3. Sound(f, Followers', Trains', KnownLines') /\ f[1] = u
  <2>1. Good(f) /\ f[1] = u
    BY <1>1, LeaderLines
  <2>2. QED
    BY <1>2, <2>1, GoodKept DEF Inv
<1>4. Trains' = Trains /\ \A b \in Leaders : Trains[b] \in Formation
  <2>1. Trains \in Lines
    BY LineTypes DEF Inv
  <2>2. QED
    BY <2>1 DEF Trains, Joins, Lines
<1>5. v \in Leaders => Trains[v] = t
  BY <1>1 DEF Trains
<1>6. /\ Distinct(t)
      /\ \A i \in 2 .. Len(t) :
           t[i] \in Followers /\ (t[i] \in Leaders => After(i - 1, Trains[t[i]], t))
  <2>1. CASE v \in Leaders
    <3>1. Good(formation[v])
      BY <1>1, <2>1, LeaderLines
    <3>2. QED
      BY <1>1, <2>1, <3>1 DEF Good, Sound, Shape
  <2>2. CASE v \notin Leaders
    <3>1. t = <<v>> /\ Len(<<v>>) = 1
      BY <1>1, <2>2
    <3>2. QED
      BY <3>1 DEF Distinct
  <2>3. QED
    BY <2>1, <2>2
<1>7. \A x : ~(Occurs(x, f) /\ Occurs(x, t))
  BY <1>1, NotYetIn
<1>8. KnownLines' \in Lines /\ KnownLines'[u] = f \o t
  <2>1. (KnownLines \in Lines)'
    BY LinesTyped, PTL DEF Inv
  <2>2. KnownLines'[u] = Known(u)'
    BY <1>1 DEF KnownLines
  <2>3. QED
    BY <1>2, <2>1, <2>2
<1> HIDE DEF f, t
<1> DEFINE followers == Followers'
           trains    == Trains'
           lines     == KnownLines'
<1>9. /\ lines \in Lines /\ lines[f[1]] = f \o t /\ Sound(f, followers, trains, lines)
      /\ t \in Formation /\ t # <<>> /\ Distinct(t) /\ t[1] \in followers
      /\ \A b \in Leaders : trains[b] \in Formation
      /\ t[1] \in Leaders => trains[t[1]] = t
  BY <1>1, <1>2, <1>3, <1>4, <1>5, <1>6, <1>8
<1>10. \A i \in 2 .. Len(t) :
         /\ t[i] \in followers
         /\ t[i] \in Leaders => trains[t[i]] \in Formation /\ After(i - 1, trains[t[i]], t)
  BY <1>2, <1>4, <1>6
<1> HIDE DEF followers, trains, lines
<1>11. /\ Sound(f \o t, followers, trains, lines)
       /\ \A x : Occurs(x, t) => Follows(x, f \o t)
  BY <1>7, <1>9, <1>10, SoundCoupled
<1>12. QED
  BY <1>1, <1>11 DEF t, followers, trains, lines

LEMMA FormationsJoin ==
  ASSUME Inv, Inv', Formations, NEW m \in Maneuver, NEW u \in Vehicle, NEW v \in Vehicle,
         Joining(v, u, m), AsJoiner(v, m), Joins(m, u, v)
  PROVE  Formations'
<1> DEFINE f == formation[u]
           t == Along(v, m)
           g == Offer(u, m)
<1>1. /\ u \in Leaders /\ u # v /\ u \notin Followers /\ v \notin Followers
      /\ Known(u) = f /\ g = f \o t
      /\ t \in Formation /\ t # <<>> /\ t[1] = v
      /\ v \in Leaders => /\ m = "merge" /\ t = formation[v]
                          /\ Known(v) = formation[v] /\ old[v].formation = formation[v]
      /\ v \notin Leaders => t = <<v>>
  BY AboutToJoin
<1>2. /\ Followers' = Followers \cup {v}
      /\ Known(u)' = g /\ \A l \in Leaders : l # u => Known(l)' = Known(l)
      /\ FollowersStay /\ LinesGrow
  BY LinesAfterJoin
<1>3. /\ formation'[v] = g /\ role'[v] = "FOLLOWER"
      /\ \A w \in Vehicle : w # v => Same(w) /\ formation'[w] = formation[w] /\ role'[w] = role[w]
      /\ old' = old /\ target' = target /\ NoNews(channel')
      /\ \A w \in Vehicle : checkDistance'[w] => checkDistance[w] \/ (w = v /\ m = "merge")
  BY DEF Joins, Same
<1>4. /\ Sound(g, Followers', Trains', KnownLines')
      /\ \A x : Occurs(x, t) => Follows(x, g)
  BY OfferGood
<1>5. \A h : Good(h) => Sound(h, Followers', Trains', KnownLines')
  BY <1>2, GoodKept DEF Inv
<1>6. \A l \in Leaders : l \notin Followers /\ l # v => \A x : ~(Occurs(x, Known(l)) /\ Occurs(x, t))
  BY NotYetIn
<1>7. f \in Formation /\ Len(f) \in 1 .. Len(g) /\ After(Len(f), t, g) /\ Len(g) = Len(f) + Len(t)
      /\ \A x : Occurs(x, g) <=> Occurs(x, f) \/ Occurs(x, t)
  <2>1. f \in Formation /\ f # <<>>
    BY <1>1, LeaderLines
  <2>2. Len(f) \in Nat \ {0} /\ Len(t) \in Nat
    BY <1>1, <2>1 DEF Formation
  <2> HIDE DEF f, t, g
  <2>3. After(Len(f), t, g) /\ Len(g) = Len(f) + Len(t)
        /\ \A x : Occurs(x, g) <=> Occurs(x, f) \/ Occurs(x, t)
    BY <1>1, <2>1, Coupled
  <2>4. QED
    BY <2>1, <2>2, <2>3
<1> HIDE DEF f, t, g
<1>8. FollowersGood'
  <2> SUFFICES ASSUME NEW x \in Followers'
               PROVE  Sound(formation'[x], Followers', Trains', KnownLines') /\ Follows(x, formation'[x])
    BY DEF FollowersGood, Good
  <2>1. CASE x = v
    <3>1. Occurs(v, t)
      <4>1. Len(t) \in Nat \ {0}
        BY <1>1 DEF Formation
      <4>2. 1 \in 1 .. Len(t) /\ t[1] = v
        BY <1>1, <4>1
      <4>3. QED
        BY <4>2 DEF Occurs
    <3>2. QED
      BY <1>3, <1>4, <2>1, <3>1
  <2>2. CASE x # v
    <3>1. x \in Followers /\ x \in Vehicle
      BY <1>2, <2>2 DEF Followers
    <3>2. Good(formation[x]) /\ Follows(x, formation[x]) /\ formation'[x] = formation[x]
      BY <1>3, <2>2, <3>1 DEF Formations, FollowersGood
    <3>3. QED
      BY <1>5, <3>2
  <2>3. QED
    BY <2>1, <2>2
<1>9. LeadersGood'
  <2> SUFFICES ASSUME NEW l \in Leaders, l \notin Followers'
               PROVE  /\ Sound(Known(l)', Followers', Trains', KnownLines')
                      /\ Sound(formation'[l], Followers', Trains', KnownLines')
    BY DEF LeadersGood, Good
  <2>1. l \notin Followers /\ l # v /\ l \in Vehicle
    BY <1>2, Constants
  <2>2. Good(Known(l)) /\ Good(formation[l])
    BY <2>1 DEF Formations, LeadersGood
  <2>3. QED
    BY <1>2, <1>3, <1>4, <1>5, <2>1, <2>2
<1>10. MergedGood'
  <2> SUFFICES ASSUME NEW b \in Leaders, b \in Followers'
               PROVE  /\ Sound(Merged(b)', Followers', Trains', KnownLines')
                      /\ old'[b].formation # <<>> /\ old'[b].formation[1] = b
                      /\ \E n \in 1 .. Len(Merged(b)') :
                           /\ After(n, old'[b].formation, Merged(b)')
                           /\ Len(Merged(b)') = n + Len(old'[b].formation)
    BY DEF MergedGood, Good
  <2>1. Merged(b)' = Merged(b) /\ old'[b] = old[b]
    BY <1>3 DEF Merged
  <2>2. CASE b = v
    <3>1. Merged(b) = g
      BY <1>1, <2>2 DEF Joining, Merged, g
    <3>2. old[b].formation = t
      BY <1>1, <2>2
    <3>3. QED
      BY <1>1, <1>4, <1>7, <2>1, <2>2, <3>1, <3>2
  <2>3. CASE b # v
    <3>1. b \in Followers
      BY <1>2, <2>3
    <3>2. QED
      BY <1>5, <2>1, <3>1 DEF Formations, MergedGood
  <2>4. QED
    BY <2>2, <2>3
<1>11. Apart'
  <2>1. ASSUME NEW l \in Leaders, l \notin Followers', l # u, NEW x \in Vehicle,
               Occurs(x, g), Occurs(x, Known(l))
        PROVE  FALSE
    <3>1. l \notin Followers /\ l # v
      BY <1>2, <2>1
    <3>2. CASE Occurs(x, f)
      BY <1>1, <2>1, <3>1, <3>2 DEF Formations, Apart
    <3>3. CASE Occurs(x, t)
      BY <1>6, <2>1, <3>1, <3>3
    <3>4. QED
      BY <1>7, <2>1, <3>2, <3>3
  <2> SUFFICES ASSUME NEW a \in Leaders, a \notin Followers', NEW b \in Leaders, b \notin Followers',
                      a # b, NEW x \in Vehicle, Occurs(x, Known(a)'), Occurs(x, Known(b)')
               PROVE  FALSE
    BY DEF Apart, Occurs
  <2>2. CASE a = u
    BY <1>2, <2>1, <2>2
  <2>3. CASE b = u
    BY <1>2, <2>1, <2>3
  <2>4. CASE a # u /\ b # u
    <3>1. Known(a)' = Known(a) /\ Known(b)' = Known(b) /\ a \notin Followers /\ b \notin Followers
      BY <1>2, <2>4
    <3>2. QED
      BY <3>1 DEF Formations, Apart
  <2>5. QED
    BY <2>2, <2>3, <2>4
<1>12. OldFormations'
  <2> SUFFICES ASSUME NEW l \in Leaders, role'[l] = "JOINER"
               PROVE  old'[l].formation = formation'[l]
    BY DEF OldFormations
  <2>1. l # v /\ l \in Vehicle
    BY <1>3, Constants
  <2>2. QED
    BY <1>3, <2>1 DEF Formations, OldFormations
<1>13. OffersStand'
  <2> SUFFICES ASSUME NEW l \in Vehicle, NEW w \in Vehicle, NEW n \in Maneuver, NEW s \in LState,
                      ServesIn(l, n, w, s)', role'[w] = "JOINER"
               PROVE  Offer(l, n)' = formation'[l] \o Along(w, n)'
    BY DEF OffersStand
  <2>1. l # v /\ w # v
    BY <1>3 DEF ServesIn
  <2>2. ServesIn(l, n, w, s) /\ role[w] = "JOINER" /\ Offer(l, n)' = Offer(l, n)
    BY <1>3, <2>1 DEF ServesIn, Offer, Same
  <2>3. formation'[l] = formation[l] /\ Along(w, n)' = Along(w, n)
    BY <1>3, <2>1 DEF Along, Company
  <2>4. Offer(l, n) = formation[l] \o Along(w, n)
    BY <2>2 DEF Formations, OffersStand
  <2>5. QED
    BY <2>2, <2>3, <2>4
<1>14. UpdatesGood'
  <2> SUFFICES ASSUME NEW a \in Vehicle, NEW b \in Vehicle, NEW x \in Updates(channel'[a][b])
               PROVE  UpdateGood(a, b, x)'
    BY DEF UpdatesGood, Updates
  <2>1. UpdateGood(a, b, x)
    BY <1>3 DEF NoNews, Formations, UpdatesGood
  <2>2. QED
    BY <1>2, <2>1, UpdateKept DEF Inv
<1>15. UpdatesGrow'
  <2> SUFFICES ASSUME NEW a \in Vehicle, NEW b \in Vehicle
               PROVE  /\ Growing(channel'[a][b])
                      /\ b \in Followers' /\ Head(formation'[b]) = a =>
                           \A x \in Updates(channel'[a][b]) :
                             x.kind = "UpdatePlatoonFormation" => Len(formation'[b]) <= Len(x.formation)
    BY DEF UpdatesGrow, LeaderId, Updates, Growing
  <2>1. Growing(channel'[a][b]) /\ Updates(channel'[a][b]) \subseteq Updates(channel[a][b])
    BY <1>3 DEF NoNews
  <2>2. CASE b = v
    <3>1. ASSUME NEW x \in Updates(channel[a][v]) PROVE FALSE
      <4>1. Good(x.formation) /\ Follows(v, x.formation)
        BY <3>1 DEF Formations, UpdatesGood, UpdateGood
      <4>2. QED
        BY <1>1, <4>1, FollowersOfSound DEF Good
    <3>2. QED
      BY <2>1, <2>2, <3>1
  <2>3. CASE b # v
    <3>1. formation'[b] = formation[b] /\ (b \in Followers' => b \in Followers)
      BY <1>2, <1>3, <2>3
    <3>2. QED
      BY <2>1, <3>1 DEF Formations, UpdatesGrow, LeaderId
  <2>4. QED
    BY <2>2, <2>3
<1>16. ChecksFollow'
  <2> SUFFICES ASSUME NEW w \in Vehicle, checkDistance'[w]
               PROVE  w \in Leaders /\ w \in Followers'
    BY DEF ChecksFollow
  <2>1. CASE checkDistance[w]
    BY <1>2, <2>1 DEF Formations, ChecksFollow
  <2>2. CASE w = v /\ m = "merge"
    BY <1>2, <2>2 DEF AsJoiner
  <2>3. QED
    BY <1>3, <2>1, <2>2
<1>17. QED
  BY <1>8, <1>9, <1>10, <1>11, <1>12, <1>13, <1>14, <1>15, <1>16 DEF Formations

-----------------------------------------------------------------------------
(* The invariant holds *)

LEMMA PlatoonAtFirst ==
  ASSUME NEW p \in Platoons
  PROVE  /\ p \in Formation /\ p # <<>> /\ Distinct(p) /\ p[1] \in Leaders
         /\ \A x : Occurs(x, p) => (CHOOSE q \in Platoons : x \in ToSet(q)) = p
         /\ \A i \in 2 .. Len(p) : p[i] \in Registered /\ p[i] \notin Leaders
<1>1. p \in Formation /\ p # <<>> /\ IsInjective(p)
  <2>1. p \in Seq(Vehicle) /\ Len(p) > 0 /\ IsInjective(p)
    BY PlatoonsAssumption
  <2>2. QED
    BY <2>1 DEF Formation
<1>2. Distinct(p) /\ Head(p) = p[1] /\ Len(p) \in Nat \ {0}
  BY <1>1, OccursToSet DEF Formation
<1>3. \A x : Occurs(x, p) <=> x \in ToSet(p)
  BY <1>1, OccursToSet
<1>4. p[1] \in Leaders
  BY <1>2 DEF Leaders
<1>5. ASSUME NEW x, Occurs(x, p), NEW q \in Platoons, x \in ToSet(q)
      PROVE  q = p
  BY <1>3, <1>5, PlatoonsAssumption
<1>6. ASSUME NEW x, Occurs(x, p)
      PROVE  (CHOOSE q \in Platoons : x \in ToSet(q)) = p
  <2>1. \E q \in Platoons : x \in ToSet(q)
    BY <1>3, <1>6
  <2> DEFINE c == CHOOSE q \in Platoons : x \in ToSet(q)
  <2>2. c \in Platoons /\ x \in ToSet(c)
    BY <2>1
  <2> HIDE DEF c
  <2>3. c = p
    BY <1>5, <1>6, <2>2
  <2>4. QED
    BY <2>3 DEF c
<1>7. ASSUME NEW i \in 2 .. Len(p)
      PROVE  p[i] \in Registered /\ p[i] \notin Leaders
  <2>1. i \in 1 .. Len(p) /\ 1 \in 1 .. Len(p) /\ i # 1
    BY <1>2
  <2>2. Occurs(p[i], p)
    BY <2>1 DEF Occurs
  <2>3. p[i] \in Registered
    BY <1>3, <2>2 DEF Registered
  <2>4. ASSUME p[i] \in Leaders
        PROVE  FALSE
    <3>1. Head(CHOOSE q \in Platoons : p[i] \in ToSet(q)) = p[i]
      BY <2>4, OwnPlatoon
    <3>2. p[1] = p[i]
      BY <1>2, <1>6, <2>2, <3>1
    <3>3. QED
      BY <1>2, <2>1, <3>2 DEF Distinct
  <2>5. QED
    BY <2>3, <2>4
<1>8. QED
  BY <1>1, <1>2, <1>4, <1>6, <1>7

LEMMA FormationsInit ==
  ASSUME Init, Inv
  PROVE  Formations
<1>1. PICK stray \in [Joiner -> {<<w>> : w \in Vehicle}] :
        formation = [v \in Vehicle |-> IF v \in Registered
                                       THEN CHOOSE p \in Platoons : v \in ToSet(p)
                                       ELSE stray[v]]
  BY DEF Init
<1>2. /\ Leaders \subseteq Registered /\ Registered \subseteq Vehicle /\ Leaders \subseteq Vehicle
      /\ Followers = Registered \ Leaders
  <2>1. Leaders \subseteq Registered /\ Registered \subseteq Vehicle
    BY Constants, VehicleAssumption
  <2>2. role = [v \in Vehicle |-> IF v \in Leaders THEN "LEADER"
                                  ELSE IF v \in Registered THEN "FOLLOWER" ELSE "NONE"]
    BY DEF Init
  <2>3. Followers = Registered \ Leaders
    BY <2>1, <2>2 DEF Followers
  <2>4. QED
    BY <2>1, <2>3
<1>3. /\ \A v \in Vehicle : role[v] # "JOINER" /\ ~checkDistance[v]
      /\ \A l \in Vehicle, m \in Maneuver : state[l][m] = "IDLE"
      /\ \A a, b \in Vehicle : channel[a][b] = <<>>
  BY DEF Init
<1>4. ASSUME NEW x \in Registered
      PROVE  formation[x] \in Platoons /\ Occurs(x, formation[x])
  <2>1. formation[x] = CHOOSE p \in Platoons : x \in ToSet(p)
    BY <1>1, <1>2
  <2>2. \E p \in Platoons : x \in ToSet(p)
    BY DEF Registered
  <2>3. formation[x] \in Platoons /\ x \in ToSet(formation[x])
    BY <2>1, <2>2
  <2>4. QED
    BY <2>3, PlatoonAtFirst, OccursToSet
<1>5. ASSUME NEW p \in Platoons, NEW x \in Registered, Occurs(x, p)
      PROVE  formation[x] = p
  BY <1>1, <1>2, <1>5, PlatoonAtFirst
<1>6. ASSUME NEW l \in Leaders
      PROVE  Known(l) = formation[l] /\ formation[l][1] = l /\ formation[l] \in Platoons
  <2>1. \A m \in Maneuver, w \in Followers : ~ServesIn(l, m, w, "L_WAIT_JOINER_TO_JOIN")
    BY <1>2, <1>3 DEF ServesIn
  <2>2. Known(l) = formation[l]
    BY <1>2, <2>1 DEF Known, Admitting
  <2>3. formation[l] \in Platoons /\ l \notin Followers /\ l \in Vehicle
    BY <1>2, <1>4
  <2>4. formation[l][1] = l
    <3>1. role[l] = "LEADER"
      BY <1>2, <2>3 DEF Init
    <3>2. LeaderId(l) = l
      BY <2>3, <3>1, InvFacts, LocalOfState, Kinds DEF Inv
    <3>3. QED
      BY <2>3, <3>2, PlatoonAtFirst, OccursToSet DEF LeaderId
  <2>5. QED
    BY <2>2, <2>3, <2>4
<1>7. ASSUME NEW p \in Platoons
      PROVE  Good(p)
  <2>1. /\ p \in Formation /\ p # <<>> /\ Distinct(p) /\ p[1] \in Leaders
        /\ \A i \in 2 .. Len(p) : p[i] \in Registered /\ p[i] \notin Leaders
    BY PlatoonAtFirst
  <2>2. Shape(p, Followers, Trains)
    BY <1>2, <2>1 DEF Shape
  <2>3. Occurs(p[1], p)
    BY <2>1, OccursToSet DEF Occurs
  <2>4. Known(p[1]) = p
    BY <1>2, <1>5, <1>6, <2>1, <2>3
  <2>5. Begins(p, KnownLines[p[1]])
    BY <2>1, <2>4, BeginsRefl DEF KnownLines
  <2>6. QED
    BY <2>2, <2>5 DEF Good, Sound
<1>8. FollowersGood
  <2> SUFFICES ASSUME NEW x \in Followers
               PROVE  Good(formation[x]) /\ Follows(x, formation[x])
    BY DEF FollowersGood
  <2>1. x \in Registered /\ x \notin Leaders
    BY <1>2
  <2>2. formation[x] \in Platoons /\ Occurs(x, formation[x])
    BY <1>4, <2>1
  <2>3. Good(formation[x]) /\ formation[x][1] \in Leaders
    BY <1>7, <2>2, PlatoonAtFirst
  <2>4. QED
    BY <2>1, <2>2, <2>3, SoundMembers DEF Good
<1>9. LeadersGood
  BY <1>6, <1>7 DEF LeadersGood
<1>10. MergedGood /\ ChecksFollow
  BY <1>2, <1>3 DEF MergedGood, ChecksFollow
<1>11. Apart
  <2> SUFFICES ASSUME NEW a \in Leaders, NEW b \in Leaders, a # b, NEW x \in Vehicle,
                      Occurs(x, Known(a)), Occurs(x, Known(b))
               PROVE  FALSE
    BY DEF Apart
  <2>1. /\ Known(a) \in Platoons /\ Known(b) \in Platoons /\ Known(a)[1] = a /\ Known(b)[1] = b
    BY <1>6
  <2>2. Known(a) = Known(b)
    BY <2>1, PlatoonAtFirst
  <2>3. QED
    BY <2>1, <2>2
<1>12. OldFormations /\ OffersStand
  BY <1>2, <1>3 DEF OldFormations, OffersStand, ServesIn
<1>13. UpdatesGood /\ UpdatesGrow
  <2>1. DOMAIN (<<>>) = {}
    OBVIOUS
  <2>2. \A a, b \in Vehicle : Updates(channel[a][b]) = {} /\ DOMAIN channel[a][b] = {}
    BY <1>3, <2>1 DEF Updates, ToSet
  <2>3. QED
    BY <2>2 DEF UpdatesGood, UpdatesGrow, Growing
<1>14. QED
  BY <1>8, <1>9, <1>10, <1>11, <1>12, <1>13 DEF Formations

LEMMA FormationsNext ==
  ASSUME Inv, Inv', Formations, [Next]_vars
  PROVE  Formations'
<1>1. CASE Start
  <2>1. "join" \in Maneuver /\ "merge" \in Maneuver /\ "merge" # "join"
    BY Kinds
  <2>2. ASSUME NEW v \in Joiner, NEW leader \in Target, StartManeuver("join", v, leader)
        PROVE  Formations'
    <3>1. v \in Vehicle
      BY Constants
    <3>2. QED
      BY <2>1, <2>2, <3>1, FormationsStart
  <2>3. ASSUME NEW v \in Merger, NEW leader \in Target, StartManeuver("merge", v, leader)
        PROVE  Formations'
    <3>1. v \in Vehicle /\ v \in Leaders
      BY Constants
    <3>2. QED
      BY <2>1, <2>3, <3>1, FormationsStart
  <2>4. QED
    BY <1>1, <2>2, <2>3 DEF Start
<1>2. ASSUME NEW u \in Vehicle, NEW v \in Vehicle, OnManeuverMessage(u, v)
      PROVE  Formations'
  <2>1. ASSUME NEW m \in Maneuver, HandleRequest(m, u, v)
        PROVE  Formations'
    BY <2>1, FormationsRequest
  <2>2. ASSUME NEW m \in Maneuver, HandleJoinPlatoonResponse(m, u, v)
        PROVE  Formations'
    BY <2>2, FormationsResponse
  <2>3. ASSUME NEW m \in Maneuver, HandleMoveToPosition(m, u, v)
        PROVE  Formations'
    BY <2>3, FormationsInformation
  <2>4. ASSUME NEW m \in Maneuver, HandleMoveToPositionAck(m, u, v)
        PROVE  Formations'
    BY <2>4, FormationsPositionAck
  <2>5. ASSUME NEW m \in Maneuver, HandleJoinFormation(m, u, v)
        PROVE  Formations'
    BY <2>5, JoinStep, FormationsJoin
  <2>6. ASSUME NEW m \in Maneuver, HandleJoinFormationAck(m, u, v)
        PROVE  Formations'
    BY <2>6, FormationsJoined
  <2>7. CASE HandleUpdatePlatoonFormation(u, v) \/ HandleUpdatePlatoonData(u, v)
    BY <2>7, FormationsFollower
  <2>8. CASE Disregard(u, v)
    BY <2>8, FormationsDisregard
  <2>9. QED
    BY <1>2, <2>1, <2>2, <2>3, <2>4, <2>5, <2>6, <2>7, <2>8 DEF OnManeuverMessage
<1>3. CASE UNCHANGED vars \/ \E u, v \in Vehicle : OnFailedTransmissionAttempt(u, v)
  <2>1. UNCHANGED <<appVars, helperVars, maneuverVars, mergeVars, channel>>
    BY <1>3 DEF vars, OnFailedTransmissionAttempt
  <2>2. /\ UNCHANGED <<appVars, helperVars, maneuverVars, old>>
        /\ checkDistance' = checkDistance /\ channel' = channel
    BY <2>1 DEF mergeVars
  <2>3. NoNews(channel')
    BY <2>2 DEF NoNews, Formations, UpdatesGrow
  <2>4. QED
    BY <2>2, <2>3, FormationsUnread
<1>4. ASSUME NEW v \in Vehicle, CheckDistance(v)
      PROVE  Formations'
  BY <1>4, FormationsCheckDistance
<1>5. ASSUME NEW v \in Vehicle, NEW m \in Maneuver, OnPlatoonBeacon(m, v)
      PROVE  Formations'
  BY <1>5, FormationsInPosition
<1>6. QED
  BY <1>1, <1>2, <1>3, <1>4, <1>5 DEF Next

PInv == Inv /\ Formations

LEMMA PInvInit == Init => PInv
BY InvInit, FormationsInit DEF PInv

LEMMA PInvNext == PInv /\ [Next]_vars => PInv'
BY InvNext, FormationsNext DEF PInv

-----------------------------------------------------------------------------
(* What follows for the formations the vehicles hold *)

LEMMA FollowerInFormation ==
  ASSUME PInv, NEW v \in Followers
  PROVE  /\ formation[v] \in Formation /\ formation[v] # <<>> /\ Distinct(formation[v])
         /\ LeaderId(v) = formation[v][1] /\ LeaderId(v) \in Leaders /\ LeaderId(v) # v
         /\ Occurs(v, formation[v]) /\ Begins(formation[v], Known(LeaderId(v)))
<1>1. Good(formation[v]) /\ Follows(v, formation[v])
  BY DEF PInv, Formations, FollowersGood
<1>2. /\ formation[v] \in Formation /\ formation[v] # <<>> /\ Distinct(formation[v])
      /\ formation[v][1] \in Leaders /\ Begins(formation[v], Known(formation[v][1]))
  BY <1>1 DEF Good, Sound, Shape, KnownLines
<1>3. LeaderId(v) = formation[v][1]
  BY <1>2, OccursToSet DEF LeaderId
<1>4. Occurs(v, formation[v]) /\ v # formation[v][1]
  BY <1>1, FollowersOfSound DEF Good
<1>5. QED
  BY <1>2, <1>3, <1>4

(* Whom a leader knows of, it has in its formation, or in the one that it  *)
(* takes over with the acknowledgement on its way.                         *)
LEMMA KnownToLeader ==
  ASSUME PInv, NEW l \in Leaders, NEW v, Occurs(v, Known(l))
  PROVE  \/ v \in ToSet(formation[l])
         \/ \E u \in Vehicle, m \in Maneuver :
              InTransit("JoinFormationAck", u, l) /\ v \in ToSet(joiner[l][m].newFormation)
<1>1. l \in Vehicle /\ Inv /\ Formations
  BY Constants DEF PInv
<1>2. formation[l] \in Formation
  BY <1>1 DEF Inv, Typed, TypeOK
<1>3. CASE l \in Followers
  <2>1. Good(formation[l]) /\ Follows(l, formation[l])
    BY <1>1, <1>3 DEF Formations, FollowersGood
  <2>2. Trains[l] \in Formation /\ Known(l) = Trains[l]
    BY <1>1, <1>3, LineTypes DEF Known, Trains, Lines, Inv
  <2>3. Occurs(v, formation[l])
    BY <2>1, <2>2, TrainsOfSound DEF Good
  <2>4. QED
    BY <1>2, <2>3, OccursToSet
<1>4. CASE l \notin Followers /\ Admitting(l)
  <2>1. PICK m \in Maneuver, u \in Followers : ServesIn(l, m, u, "L_WAIT_JOINER_TO_JOIN")
    BY <1>4 DEF Admitting
  <2>2. u \in Vehicle /\ role[u] = "FOLLOWER" /\ "L_WAIT_JOINER_TO_JOIN" \in LState
    BY DEF Followers, LState
  <2>3. Joined(u, l, m)
    BY <1>1, <2>1, <2>2, ServedBy
  <2>4. Thanks(l, m) \in Asks(u, l) /\ Thanks(l, m).kind = "JoinFormationAck"
    <3>1. Asks(u, l) = {Thanks(l, m)}
      BY <2>3 DEF Joined
    <3>2. Thanks(l, m).kind = "JoinFormationAck"
      BY DEF Thanks, Msg
    <3>3. QED
      BY <3>1, <3>2
  <2>5. InTransit("JoinFormationAck", u, l)
    <3>1. \E i \in DOMAIN channel[u][l] : channel[u][l][i] = Thanks(l, m)
      BY <2>4 DEF Asks, Ask, ToSet
    <3>2. QED
      BY <2>4, <3>1 DEF InTransit
  <2>6. Known(l) = joiner[l][m].newFormation /\ joiner[l][m].newFormation \in Formation
    <3>1. active[l] = m
      BY <2>1 DEF ServesIn
    <3>2. QED
      BY <1>1, <1>4, <3>1 DEF Known, Offer, Inv, Typed, TypeOK
  <2>7. v \in ToSet(joiner[l][m].newFormation)
    BY <2>6, OccursToSet
  <2>8. QED
    BY <2>2, <2>5, <2>7
<1>5. CASE l \notin Followers /\ ~Admitting(l)
  <2>1. Known(l) = formation[l]
    BY <1>5 DEF Known
  <2>2. QED
    BY <1>2, <2>1, OccursToSet
<1>6. QED
  BY <1>3, <1>4, <1>5

LEMMA PInvMembers ==
  ASSUME PInv
  PROVE  MembersInFormation
<1> SUFFICES ASSUME NEW v \in Vehicle, role[v] \in {"LEADER", "FOLLOWER"}
             PROVE  /\ v \in ToSet(formation[v]) /\ IsInjective(formation[v])
                    /\ role[v] = "LEADER" <=> LeaderId(v) = v
                    /\ \/ v \in ToSet(formation[LeaderId(v)])
                       \/ \E u \in Vehicle, m \in Maneuver :
                            /\ InTransit("JoinFormationAck", u, LeaderId(v))
                            /\ v \in ToSet(joiner[LeaderId(v)][m].newFormation)
  BY DEF MembersInFormation
<1>1. CASE role[v] = "LEADER"
  <2>1. v \in Leaders /\ v \notin Followers /\ LeaderId(v) = v
    BY <1>1, InvFacts, LocalOfState, Kinds DEF PInv, Inv, Followers
  <2>2. formation[v] \in Formation /\ formation[v] # <<>> /\ formation[v][1] = v /\ Distinct(formation[v])
    BY <2>1, LeaderLines DEF PInv, Good, Sound, Shape
  <2>3. v \in ToSet(formation[v]) /\ IsInjective(formation[v])
    <3>1. Occurs(v, formation[v])
      BY <2>2 DEF Occurs, Formation
    <3>2. QED
      BY <2>2, <3>1, OccursToSet
  <2>4. QED
    BY <1>1, <2>1, <2>3
<1>2. CASE role[v] = "FOLLOWER"
  <2>1. v \in Followers
    BY <1>2 DEF Followers
  <2>2. /\ formation[v] \in Formation /\ Distinct(formation[v]) /\ Occurs(v, formation[v])
        /\ LeaderId(v) \in Leaders /\ LeaderId(v) # v
        /\ Begins(formation[v], Known(LeaderId(v)))
    BY <2>1, FollowerInFormation
  <2>3. v \in ToSet(formation[v]) /\ IsInjective(formation[v])
    BY <2>2, OccursToSet
  <2>4. Known(LeaderId(v)) \in Formation
    BY <2>2, LineTypes DEF PInv, Inv
  <2>5. Occurs(v, Known(LeaderId(v)))
    BY <2>2, <2>4, OccursInBeginning
  <2>6. QED
    BY <1>2, <2>2, <2>3, <2>5, KnownToLeader
<1>3. QED
  BY <1>1, <1>2

(* Every member finds itself once in the formation it holds, a leader and  *)
(* nobody else in front, and its leader knows it or is about to: so        *)
(* setVariablesAfterFormationChange never indexes outside a formation.     *)
THEOREM EveryMemberInFormation == Spec => []MembersInFormation
BY PInvInit, PInvNext, PInvMembers, PTL DEF Spec

-----------------------------------------------------------------------------
(* What a step does to the formations *)

LEMMA FormationChange ==
  ASSUME Inv, [Next]_vars, NEW v \in Vehicle
  PROVE  \/ formation'[v] = formation[v]
         \/ \E u \in Vehicle :
              \/ \E m \in Maneuver : HandleJoinFormation(m, u, v) \/ HandleJoinFormationAck(m, u, v)
              \/ HandleUpdatePlatoonFormation(u, v) \/ HandleUpdatePlatoonData(u, v)
<1> DEFINE Kept == formation'[v] = formation[v]
           Changed == \E u \in Vehicle :
              \/ \E m \in Maneuver : HandleJoinFormation(m, u, v) \/ HandleJoinFormationAck(m, u, v)
              \/ HandleUpdatePlatoonFormation(u, v) \/ HandleUpdatePlatoonData(u, v)
<1> HIDE DEF Changed
<1>1. ASSUME NEW m, NEW w, NEW l, StartManeuver(m, w, l)
      PROVE  Kept
  BY <1>1 DEF StartManeuver, helperVars
<1>2. ASSUME NEW u \in Vehicle, NEW w \in Vehicle, NEW m \in Maneuver,
             \/ HandleRequest(m, u, w) \/ HandleJoinPlatoonResponse(m, u, w)
             \/ HandleMoveToPosition(m, u, w) \/ HandleMoveToPositionAck(m, u, w)
      PROVE  Kept
  <2>1. UNCHANGED helperVars
    BY <1>2 DEF HandleRequest, HandleJoinPlatoonResponse, HandleMoveToPosition, HandleMoveToPositionAck
  <2>2. QED
    BY <2>1 DEF helperVars
<1>3. ASSUME NEW u \in Vehicle, NEW w \in Vehicle,
             \/ \E m \in Maneuver : HandleJoinFormation(m, u, w) \/ HandleJoinFormationAck(m, u, w)
             \/ HandleUpdatePlatoonFormation(u, w) \/ HandleUpdatePlatoonData(u, w)
      PROVE  Kept \/ Changed
  <2>1. CASE w = v
    BY <1>3, <2>1 DEF Changed
  <2>2. CASE w # v
    <3>1. \E f : formation' = [formation EXCEPT ![w] = f]
      BY <1>3 DEF HandleJoinFormation, HandleJoinFormationAck, HandleUpdatePlatoonFormation,
                  HandleUpdatePlatoonData, SetFormation
    <3>2. QED
      BY <2>2, <3>1 DEF Inv, Typed, TypeOK
  <2>3. QED
    BY <2>1, <2>2
<1>4. ASSUME NEW u, NEW w, Disregard(u, w) \/ OnFailedTransmissionAttempt(u, w) \/ CheckDistance(w)
      PROVE  Kept
  BY <1>4 DEF Disregard, OnFailedTransmissionAttempt, CheckDistance, helperVars
<1>5. ASSUME NEW w, NEW m, OnPlatoonBeacon(m, w)
      PROVE  Kept
  BY <1>5 DEF OnPlatoonBeacon, helperVars
<1>6. CASE UNCHANGED vars
  BY <1>6 DEF vars, helperVars
<1>7. ASSUME NEW u \in Vehicle, NEW w \in Vehicle, OnManeuverMessage(u, w)
      PROVE  Kept \/ Changed
  BY <1>2, <1>3, <1>4, <1>7 DEF OnManeuverMessage
<1> HIDE DEF Kept
<1>8. ASSUME Start
      PROVE  Kept
  BY <1>1, <1>8 DEF Start
<1>9. ASSUME Next
      PROVE  Kept \/ Changed
  BY <1>4, <1>5, <1>7, <1>8, <1>9 DEF Next
<1>10. QED
  BY <1>6, <1>9 DEF Kept, Changed

LEMMA RegisteredFormation ==
  ASSUME PInv, NEW v \in Registered
  PROVE  /\ v \in Vehicle /\ formation[v] \in Formation /\ formation[v] # <<>>
         /\ v \notin Followers => v \in Leaders
<1>1. v \in Vehicle /\ v \notin Joiner
  BY VehicleAssumption
<1>2. v \notin Followers => v \in Leaders
  BY <1>1, InvFacts DEF PInv, Local, Followers
<1>3. CASE v \in Followers
  BY <1>1, <1>3, FollowerInFormation
<1>4. CASE v \notin Followers
  BY <1>1, <1>2, <1>4, LeaderLines DEF PInv
<1>5. QED
  BY <1>1, <1>2, <1>3, <1>4

LEMMA AtTheBack ==
  ASSUME PInv, [Next]_vars, NEW v \in Registered
  PROVE  /\ role[v] = "LEADER" => Begins(formation[v], formation'[v])
         /\ \E n \in Nat : After(n, formation[v], formation'[v])
<1> DEFINE f == formation[v]
<1>1. /\ v \in Vehicle /\ f \in Formation /\ f # <<>> /\ Inv /\ Formations
      /\ v \notin Joiner
  BY RegisteredFormation, VehicleAssumption DEF PInv
<1>2. ASSUME Begins(f, formation'[v])
      PROVE  After(0, f, formation'[v])
  <2>1. Len(f) \in Nat
    BY <1>1 DEF Formation
  <2>2. QED
    BY <1>2, <2>1 DEF Begins, After
<1>3. CASE formation'[v] = f
  BY <1>1, <1>2, <1>3, BeginsRefl
<1>4. ASSUME NEW u \in Vehicle, NEW m \in Maneuver, HandleJoinFormation(m, u, v)
      PROVE  role[v] # "LEADER" /\ \E n \in Nat : After(n, f, formation'[v])
  <2>1. Joins(m, u, v) /\ Joining(v, u, m) /\ AsJoiner(v, m)
    BY <1>1, <1>4, JoinStep
  <2>2. v \in Leaders
    BY <1>1, <2>1 DEF AsJoiner
  <2>3. Along(v, m) = f /\ Offer(u, m) = formation[u] \o Along(v, m)
    BY <1>1, <2>1, <2>2, AboutToJoin
  <2>4. formation'[v] = formation[u] \o f
    BY <2>1, <2>3 DEF Joins
  <2>5. formation[u] \in Formation /\ Len(formation[u]) \in Nat
    BY <1>1 DEF Inv, Typed, TypeOK, Formation
  <2>6. After(Len(formation[u]), f, formation'[v])
    BY <1>1, <2>4, <2>5, Coupled
  <2>7. QED
    BY <2>1, <2>5, <2>6 DEF AsJoiner
<1>5. ASSUME NEW u \in Vehicle, NEW m \in Maneuver, HandleJoinFormationAck(m, u, v)
      PROVE  Begins(f, formation'[v])
  <2>1. /\ channel[u][v] # <<>> /\ Head(channel[u][v]).kind = "JoinFormationAck"
        /\ FromJoiner(m, u, v) /\ formation' = [formation EXCEPT ![v] = Offer(v, m)]
    BY <1>5 DEF HandleJoinFormationAck, Receives, SetFormation, Offer
  <2>2. /\ active[v] = m /\ role[v] = "LEADER" /\ v \in Leaders /\ Joined(u, v, m)
    BY <1>1, <2>1, Confirmed
  <2>3. v \notin Followers /\ u \in Followers /\ ServesIn(v, m, u, "L_WAIT_JOINER_TO_JOIN")
    BY <1>1, <2>2 DEF Joined, Followers
  <2>4. Known(v) = Offer(v, m)
    BY <2>2, <2>3 DEF Known, Admitting
  <2>5. formation'[v] = Known(v)
    BY <1>1, <2>1, <2>4 DEF Inv, Typed, TypeOK
  <2>6. QED
    BY <1>1, <2>2, <2>3, <2>5, LeaderLines
<1>6. ASSUME NEW u \in Vehicle, HandleUpdatePlatoonFormation(u, v) \/ HandleUpdatePlatoonData(u, v)
      PROVE  role[v] # "LEADER" /\ \E n \in Nat : After(n, f, formation'[v])
  <2> DEFINE h == Head(channel[u][v])
  <2>1. /\ channel[u][v] # <<>> /\ h.kind \in UpdateKind /\ FromLeader(u, v)
        /\ formation' = [formation EXCEPT ![v] = h.formation]
    <3>1. CASE HandleUpdatePlatoonFormation(u, v)
      BY <3>1 DEF HandleUpdatePlatoonFormation, Receives, SetFormation, UpdateKind
    <3>2. CASE HandleUpdatePlatoonData(u, v)
      BY <3>2 DEF HandleUpdatePlatoonData, Receives, SetFormation, UpdateKind
    <3>3. QED
      BY <1>6, <3>1, <3>2
  <2>2. role[v] = "FOLLOWER" /\ u = LeaderId(v) /\ v \in Followers /\ formation'[v] = h.formation
    BY <1>1, <2>1 DEF FromLeader, Followers, Inv, Typed, TypeOK
  <2>3. h \in Updates(channel[u][v])
    BY <1>1, <2>1, GrowingTail, InvFacts DEF Formations, UpdatesGrow, Channels
  <2>4. UpdateGood(u, v, h)
    BY <1>1, <2>3 DEF Formations, UpdatesGood
  <2>5. u \in Leaders /\ f[1] = u /\ Begins(f, Known(u)) /\ Known(u) \in Formation
    BY <1>1, <2>2, FollowerInFormation, LineTypes, SMTT(30) DEF Inv
  <2>6. h.formation \in Formation /\ Begins(h.formation, Known(h.formation[1]))
    BY <2>4 DEF UpdateGood, Good, Sound, Shape, KnownLines
  <2>7. CASE h.kind = "UpdatePlatoonFormation"
    <3>1. h.formation[1] = u
      BY <2>4, <2>7 DEF UpdateGood
    <3>2. Len(f) <= Len(h.formation)
      BY <1>1, <2>2, <2>3, <2>7 DEF Formations, UpdatesGrow
    <3> HIDE DEF f, h
    <3>3. Begins(f, h.formation)
      BY <1>1, <2>5, <2>6, <3>1, <3>2, BeginningsCompare
    <3>4. QED
      BY <1>2, <2>2, <3>3
  <2>8. CASE h.kind = "UpdatePlatoonData"
    <3>1. u \in Followers /\ h.formation = Merged(u)
      BY <2>4, <2>8 DEF UpdateGood
    <3>2. PICK n \in 1 .. Len(Merged(u)) : After(n, old[u].formation, Merged(u))
      BY <1>1, <2>5, <3>1 DEF Formations, MergedGood
    <3>3. n \in Nat /\ old[u].formation = Known(u) /\ Merged(u) \in Formation
      BY <2>6, <3>1 DEF Known
    <3> HIDE DEF f, h
    <3>4. After(n, f, Merged(u))
      BY <1>1, <2>5, <3>2, <3>3, BeginningOfAfter
    <3>5. QED
      BY <2>2, <3>1, <3>3, <3>4
  <2>9. QED
    BY <2>1, <2>7, <2>8 DEF UpdateKind
<1>7. QED
  BY <1>1, <1>2, <1>3, <1>4, <1>5, <1>6, FormationChange

LEMMA PInvBack ==
  ASSUME PInv, PInv', [Next]_vars
  PROVE  \A v \in Registered :
           /\ role[v] = "LEADER" /\ role'[v] = "LEADER" => IsPrefix(formation[v], formation'[v])
           /\ \E i \in 1 .. Len(formation'[v]) :
                IsPrefix(formation[v], SubSeq(formation'[v], i, Len(formation'[v])))
<1> SUFFICES ASSUME NEW v \in Registered
             PROVE  /\ role[v] = "LEADER" => IsPrefix(formation[v], formation'[v])
                    /\ \E i \in 1 .. Len(formation'[v]) :
                         IsPrefix(formation[v], SubSeq(formation'[v], i, Len(formation'[v])))
  OBVIOUS
<1>1. formation[v] \in Formation /\ formation[v] # <<>> /\ v \in Vehicle
  BY RegisteredFormation
<1>2. formation'[v] \in Formation
  BY <1>1 DEF PInv, Inv, Typed, TypeOK
<1>3. PICK n \in Nat : After(n, formation[v], formation'[v])
  BY AtTheBack
<1>4. role[v] = "LEADER" => IsPrefix(formation[v], formation'[v])
  BY <1>1, <1>2, AtTheBack, BeginsIsPrefix
<1>5. QED
  BY <1>1, <1>2, <1>3, <1>4, AfterIsPrefix

(* Platoons grow only at the back, and no formation update drops or        *)
(* reorders vehicles a member knew: so nobody's front vehicle changes.     *)
THEOREM PlatoonsGrowAtTheBack == Spec => JoinAtTheBack
BY PInvInit, PInvNext, PInvBack, PTL DEF Spec, JoinAtTheBack

-----------------------------------------------------------------------------
(* A platoon that vehicles join, but that does not merge, agrees when all  *)
(* is quiet: a follower that does not hold its leader's formation is about *)
(* to get it, or to be acknowledged.                                       *)

NobodyMerges == \A l \in Leaders : role[l] = "LEADER"

(* A leader sends no formation that it does not hold, or has held.         *)
UpdatesOwn ==
  \A u, w \in Vehicle : \A msg \in Updates(channel[u][w]) :
    msg.platoonId = u /\ Len(msg.formation) <= Len(formation[u])

BeingAdmitted(l, x) == \E m \in Maneuver : ServesIn(l, m, x, "L_WAIT_JOINER_TO_JOIN")

UpToDate(l, x) ==
  \/ BeingAdmitted(l, x)
  \/ formation[x] = formation[l]
  \/ \E msg \in Updates(channel[l][x]) : msg.formation = formation[l]

Agreement ==
  /\ NobodyMerges /\ UpdatesOwn
  /\ \A x \in Followers, l \in Leaders : LeaderId(x) = l => platoonId[x] = l /\ UpToDate(l, x)

(* No formation update is sent, and none is taken.                         *)
SameUpdates(ch) == \A a, b \in Vehicle : Updates(ch[a][b]) = Updates(channel[a][b])

LEMMA OtherSent ==
  ASSUME NEW ch \in Channels, SameUpdates(ch), NEW v, NEW w, NEW msg,
         msg.kind \notin UpdateKind
  PROVE  SameUpdates(Send(ch, v, w, msg))
<1> SUFFICES ASSUME NEW a \in Vehicle, NEW b \in Vehicle
             PROVE  Updates(Send(ch, v, w, msg)[a][b]) = Updates(channel[a][b])
  BY DEF SameUpdates
<1> DEFINE q == ch[a][b]
           p == Append(q, msg)
<1>1. q \in Seq(Message) /\ Updates(q) = Updates(channel[a][b])
  BY DEF Channels, SameUpdates
<1>2. /\ Len(q) \in Nat /\ DOMAIN q = 1 .. Len(q) /\ DOMAIN p = 1 .. (Len(q) + 1)
      /\ \A i \in 1 .. Len(q) : p[i] = q[i] /\ i \in 1 .. (Len(q) + 1)
      /\ p[Len(q) + 1] = msg
      /\ \A i \in 1 .. (Len(q) + 1) : i \in 1 .. Len(q) \/ i = Len(q) + 1
  BY <1>1
<1>3. Send(ch, v, w, msg)[a][b] = IF a = v /\ b = w THEN p ELSE q
  BY DEF Send, Channels
<1> HIDE DEF p, q
<1>4. Updates(p) = Updates(q)
  BY <1>2 DEF Updates, ToSet
<1>5. QED
  BY <1>1, <1>3, <1>4

LEMMA OtherTaken ==
  ASSUME Inv, NEW u \in Vehicle, NEW v \in Vehicle, channel[u][v] # <<>>,
         Head(channel[u][v]).kind \notin UpdateKind
  PROVE  Dequeue(u, v) \in Channels /\ SameUpdates(Dequeue(u, v))
<1>1. channel \in Channels
  BY InvFacts
<1>2. /\ Dequeue(u, v) \in Channels
      /\ \A a, b \in Vehicle :
           Dequeue(u, v)[a][b] = IF a = u /\ b = v THEN Tail(channel[u][v]) ELSE channel[a][b]
  BY <1>1, DequeueChannels
<1>3. ToSet(channel[u][v]) = ToSet(Tail(channel[u][v])) \cup {Head(channel[u][v])}
  BY <1>1, TailSet DEF Channels
<1>4. Updates(Tail(channel[u][v])) = Updates(channel[u][v])
  BY <1>3 DEF Updates
<1>5. QED
  BY <1>2, <1>4 DEF SameUpdates

(* A step that leaves the formations, their members and the updates alone. *)
LEMMA AgreementFrame ==
  ASSUME Agreement, Followers' = Followers, formation' = formation, platoonId' = platoonId,
         NobodyMerges', SameUpdates(channel'),
         \A l \in Leaders, x \in Followers : BeingAdmitted(l, x) => BeingAdmitted(l, x)'
  PROVE  Agreement'
<1>1. UpdatesOwn'
  BY DEF Agreement, UpdatesOwn, SameUpdates, Updates
<1>2. ASSUME NEW x \in Followers, NEW l \in Leaders, LeaderId(x)' = l
      PROVE  platoonId'[x] = l /\ UpToDate(l, x)'
  <2>1. LeaderId(x) = l /\ x \in Vehicle /\ l \in Vehicle
    BY <1>2, Constants DEF LeaderId, Followers
  <2>2. platoonId[x] = l /\ UpToDate(l, x)
    BY <2>1 DEF Agreement
  <2>3. Updates(channel'[l][x]) = Updates(channel[l][x])
    BY <2>1 DEF SameUpdates
  <2>4. UpToDate(l, x)'
    BY <2>2, <2>3 DEF UpToDate, Updates
  <2>5. QED
    BY <2>2, <2>4
<1>3. QED
  BY <1>1, <1>2 DEF Agreement

(* A step of one vehicle that is no follower and admits nobody.            *)
LEMMA AgreementQuiet ==
  ASSUME Inv, Inv', Agreement, NEW v \in Vehicle,
         \A w \in Vehicle : w # v => Same(w),
         role[v] # "FOLLOWER", role'[v] # "FOLLOWER", v \in Leaders => role'[v] = "LEADER",
         formation' = formation, platoonId' = platoonId, SameUpdates(channel'),
         \A x \in Followers : ~BeingAdmitted(v, x)
  PROVE  Agreement'
<1>1. Followers' = Followers
  BY DEF Followers, Same
<1>2. NobodyMerges'
  BY Constants DEF Agreement, NobodyMerges, Same
<1>3. ASSUME NEW l \in Leaders, NEW x \in Followers, BeingAdmitted(l, x)
      PROVE  BeingAdmitted(l, x)'
  <2>1. l # v /\ l \in Vehicle
    BY <1>3, Constants
  <2>2. Same(l)
    BY <2>1
  <2>3. QED
    BY <1>3, <2>2 DEF BeingAdmitted, ServesIn, Same
<1>4. QED
  BY <1>1, <1>2, <1>3, AgreementFrame

LEMMA AgreementStart ==
  ASSUME Inv, Inv', Agreement, NEW v \in Joiner, NEW leader \in Target,
         StartManeuver("join", v, leader)
  PROVE  Agreement'
<1>1. v \in Vehicle /\ v \notin Leaders
  BY Constants
<1>2. /\ role[v] = "NONE" /\ role' = [role EXCEPT ![v] = "JOINER"]
      /\ \E f : channel' = Send(channel, v, leader, Msg(Request["join"], leader, f))
      /\ formation' = formation /\ platoonId' = platoonId
  BY DEF StartManeuver, SetRole, helperVars
<1>3. role'[v] = "JOINER" /\ \A w \in Vehicle : w # v => Same(w)
  BY <1>1, <1>2 DEF StartManeuver, SetActive, SetState, helperVars, Inv, Typed, TypeOK, Same
<1>4. SameUpdates(channel')
  <2>1. \A f : Msg(Request["join"], leader, f).kind \notin UpdateKind
    BY Kinds DEF Msg
  <2>2. channel \in Channels /\ SameUpdates(channel)
    BY InvFacts DEF SameUpdates
  <2>3. QED
    BY <1>2, <2>1, <2>2, OtherSent
<1>5. \A x \in Followers : ~BeingAdmitted(v, x)
  BY <1>2 DEF BeingAdmitted, ServesIn
<1>6. QED
  BY <1>1, <1>2, <1>3, <1>4, <1>5, AgreementQuiet

(* The joiner hears whether it may join, and where.                        *)
LEMMA AgreementJoinerReply ==
  ASSUME Inv, Inv', Agreement, NEW m \in Maneuver, NEW u \in Vehicle, NEW v \in Vehicle,
         HandleJoinPlatoonResponse(m, u, v) \/ HandleMoveToPosition(m, u, v)
  PROVE  Agreement'
<1>1. /\ channel[u][v] # <<>> /\ Head(channel[u][v]).kind \notin UpdateKind
      /\ FromTarget(m, u, v) /\ channel' = Dequeue(u, v)
      /\ formation' = formation /\ platoonId' = platoonId
  BY DEF HandleJoinPlatoonResponse, HandleMoveToPosition, Receives, UpdateKind, helperVars
<1>2. role[v] = "JOINER" /\ v \notin Leaders
  BY <1>1 DEF FromTarget, Agreement, NobodyMerges
<1>3. \A w \in Vehicle : w # v => Same(w)
  BY ZenonT(40) DEF HandleJoinPlatoonResponse, HandleMoveToPosition, SetState, SetRole, SetActive, appVars,
     helperVars, Inv, Typed, TypeOK, Same
<1>4. role'[v] # "FOLLOWER"
  BY <1>2 DEF HandleJoinPlatoonResponse, HandleMoveToPosition, SetRole, appVars, Inv, Typed, TypeOK
<1>5. SameUpdates(channel')
  BY <1>1, OtherTaken
<1>6. \A x \in Followers : ~BeingAdmitted(v, x)
  BY <1>2 DEF BeingAdmitted, ServesIn
<1>7. QED
  BY <1>1, <1>2, <1>3, <1>4, <1>5, <1>6, AgreementQuiet

LEMMA AgreementInPosition ==
  ASSUME Inv, Inv', Agreement, NEW m \in Maneuver, NEW v \in Vehicle, OnPlatoonBeacon(m, v)
  PROVE  Agreement'
<1>1. /\ state[v][m] = "J_MOVE_IN_POSITION"
      /\ \E w, id, f : channel' = Send(channel, v, w, Msg("MoveToPositionAck", id, f))
      /\ role' = role /\ formation' = formation /\ platoonId' = platoonId
  BY DEF OnPlatoonBeacon, appVars, helperVars
<1>2. role[v] = "JOINER"
  BY <1>1, InvFacts, LocalOfState DEF JState, AsJoiner, Inv
<1>3. v \notin Leaders
  BY <1>2 DEF Agreement, NobodyMerges
<1>4. \A w \in Vehicle : w # v => Same(w)
  BY DEF OnPlatoonBeacon, SetState, appVars, helperVars, Inv, Typed, TypeOK, Same
<1>5. SameUpdates(channel')
  <2>1. \A id, f : Msg("MoveToPositionAck", id, f).kind \notin UpdateKind
    BY DEF Msg, UpdateKind
  <2>2. channel \in Channels /\ SameUpdates(channel)
    BY InvFacts DEF SameUpdates
  <2>3. QED
    BY <1>1, <2>1, <2>2, OtherSent
<1>6. \A x \in Followers : ~BeingAdmitted(v, x)
  BY <1>2 DEF BeingAdmitted, ServesIn
<1>7. QED
  BY <1>1, <1>2, <1>3, <1>4, <1>5, <1>6, AgreementQuiet

(* The leader answers a request. *)
LEMMA AgreementRequest ==
  ASSUME Inv, Inv', Agreement, NEW m \in Maneuver, NEW u \in Vehicle, NEW v \in Vehicle,
         HandleRequest(m, u, v)
  PROVE  Agreement'
<1> DEFINE h    == Head(channel[u][v])
           d    == Dequeue(u, v)
           next == NewFormation(formation[v], u, h.formation)
<1>1. /\ channel[u][v] # <<>> /\ ForMyPlatoon(m, u, v)
      /\ formation' = formation /\ platoonId' = platoonId /\ target' = target
  BY DEF HandleRequest, Receives, helperVars
<1>2. /\ v \in Leaders /\ role[v] # "FOLLOWER" /\ role[v] # "JOINER" /\ h.platoonId = v
      /\ h.kind \notin UpdateKind
  BY <1>1, Requested, RequestKinds DEF ForMyPlatoon
<1>3. d \in Channels /\ SameUpdates(d)
  BY <1>1, <1>2, OtherTaken
<1>4. \A kind \in {"JoinPlatoonResponse", "MoveToPosition"} : \A id, f :
        Msg(kind, id, f).kind \notin UpdateKind
  BY DEF Msg, UpdateKind
<1>5. /\ Permission(v) \in Message
      /\ Permission(v).kind \notin UpdateKind /\ Denial(v).kind \notin UpdateKind
  BY <1>2, Answers DEF UpdateKind
<1> HIDE DEF d
<1>6. CASE IsJoinAllowed(v)
  <2>1. /\ active[v] = "none" /\ active' = [active EXCEPT ![v] = m]
        /\ role' = [role EXCEPT ![v] = "LEADER"]
        /\ joiner' = [joiner EXCEPT ![v][m] = [id |-> u, newFormation |-> next]]
        /\ state' = [state EXCEPT ![v][m] = "L_WAIT_JOINER_IN_POSITION"]
        /\ channel' = Grant(d, v, u, h.platoonId, next)
    BY <1>6 DEF IsJoinAllowed, HandleRequest, SetActive, SetRole, SetState, d
  <2>2. \A w \in Vehicle : w # v => Same(w)
    BY <1>1, <2>1 DEF Inv, Typed, TypeOK, Same
  <2>3. role'[v] = "LEADER"
    BY <2>1 DEF Inv, Typed, TypeOK
  <2>4. \A x \in Followers : ~BeingAdmitted(v, x)
    <3>1. \A n \in Maneuver : \A w : \A s \in LState : ~ServesIn(v, n, w, s)
      BY <2>1, InvFacts, LocalOfState DEF Inv
    <3>2. QED
      BY <3>1 DEF BeingAdmitted, LState
  <2>5. SameUpdates(channel')
    <3> DEFINE s1 == Send(d, v, u, Permission(v))
    <3>1. Grant(d, v, u, v, next) = Send(s1, v, u, Msg("MoveToPosition", v, next))
      BY DEF Grant, Permission
    <3>2. s1 \in Channels /\ SameUpdates(s1)
      BY <1>3, <1>5, SendChannels, OtherSent
    <3> HIDE DEF s1, next
    <3>3. SameUpdates(Send(s1, v, u, Msg("MoveToPosition", v, next)))
      BY <1>4, <3>2, OtherSent
    <3>4. QED
      BY <1>2, <2>1, <3>1, <3>3
  <2>6. QED
    BY <1>1, <1>2, <2>2, <2>3, <2>4, <2>5, AgreementQuiet
<1>7. CASE ~IsJoinAllowed(v)
  <2>1. channel' = Send(d, v, u, Denial(v)) /\ UNCHANGED <<appVars, joiner, state>>
    BY <1>2, <1>7 DEF HandleRequest, Denial, d
  <2>2. role' = role /\ active' = active /\ joiner' = joiner /\ state' = state
    BY <2>1 DEF appVars
  <2>3. Followers' = Followers /\ NobodyMerges'
    BY <2>2 DEF Followers, NobodyMerges, Agreement
  <2>4. SameUpdates(channel')
    BY <1>3, <1>5, <2>1, OtherSent
  <2>5. \A l \in Leaders, x \in Followers : BeingAdmitted(l, x) => BeingAdmitted(l, x)'
    BY <2>2 DEF BeingAdmitted, ServesIn
  <2>6. QED
    BY <1>1, <2>3, <2>4, <2>5, AgreementFrame
<1>8. QED
  BY <1>6, <1>7

LEMMA AgreementPositionAck ==
  ASSUME Inv, Inv', Agreement, NEW m \in Maneuver, NEW u \in Vehicle, NEW v \in Vehicle,
         HandleMoveToPositionAck(m, u, v)
  PROVE  Agreement'
<1> DEFINE d == Dequeue(u, v)
<1>1. /\ channel[u][v] # <<>> /\ Head(channel[u][v]).kind = "MoveToPositionAck" /\ FromJoiner(m, u, v)
      /\ \E id, f : channel' = Send(d, v, u, Msg("JoinFormation", id, f))
      /\ role' = role /\ formation' = formation /\ platoonId' = platoonId
  BY DEF HandleMoveToPositionAck, Receives, appVars, helperVars
<1>2. role[v] = "LEADER" /\ ServesIn(v, m, u, "L_WAIT_JOINER_IN_POSITION")
  BY <1>1, Confirmed DEF LeaderExpects
<1>3. \A w \in Vehicle : w # v => Same(w)
  BY DEF HandleMoveToPositionAck, SetState, appVars, helperVars, Inv, Typed, TypeOK, Same
<1>4. \A x \in Followers : ~BeingAdmitted(v, x)
  BY <1>2 DEF BeingAdmitted, ServesIn
<1>5. SameUpdates(channel')
  <2>1. \A id, f : Msg("JoinFormation", id, f).kind \notin UpdateKind
    BY DEF Msg, UpdateKind
  <2>2. d \in Channels /\ SameUpdates(d)
    BY <1>1, OtherTaken DEF UpdateKind
  <2> HIDE DEF d
  <2>3. QED
    BY <1>1, <2>1, <2>2, OtherSent
<1>6. QED
  BY <1>1, <1>2, <1>3, <1>4, <1>5, AgreementQuiet

(* The joiner takes its place: it holds what its leader is about to hold.  *)
LEMMA AgreementJoin ==
  ASSUME PInv, PInv', Agreement, NEW m \in Maneuver, NEW u \in Vehicle, NEW v \in Vehicle,
         HandleJoinFormation(m, u, v)
  PROVE  Agreement'
<1> DEFINE h == Head(channel[u][v])
           d == Dequeue(u, v)
<1>1. /\ channel[u][v] # <<>> /\ h.kind = "JoinFormation" /\ FromTarget(m, u, v)
      /\ channel' = Send(d, v, Head(h.formation),
                         Msg("JoinFormationAck", h.platoonId, h.formation))
      /\ platoonId' = [platoonId EXCEPT ![v] = h.platoonId]
      /\ formation' = [formation EXCEPT ![v] = h.formation]
      /\ role' = [role EXCEPT ![v] = "FOLLOWER"]
  BY DEF HandleJoinFormation, Receives, SetFormation, SetRole
<1>2. /\ Inv /\ Formations
      /\ role[v] = "JOINER" /\ Joining(v, u, m) /\ h.platoonId = u
      /\ Head(h.formation) = u
  <2>1. Inv /\ Formations /\ role[v] = "JOINER"
    BY <1>1 DEF PInv, FromTarget
  <2>2. QED
    BY <1>1, <2>1, Welcomed, SMTT(30)
<1>3. v \notin Leaders /\ v \notin Followers
  BY <1>2 DEF Agreement, NobodyMerges, Followers
<1>4. \A w \in Vehicle : w # v => Same(w)
  BY <1>2, JoinStep DEF Joins
<1>5. role'[v] = "FOLLOWER" /\ platoonId'[v] = u /\ Head(formation'[v]) = u
  BY <1>1, <1>2 DEF Inv, Typed, TypeOK
<1>6. SameUpdates(channel')
  <2>1. \A id, f : Msg("JoinFormationAck", id, f).kind \notin UpdateKind
    BY DEF Msg, UpdateKind
  <2>2. d \in Channels /\ SameUpdates(d)
    BY <1>1, <1>2, OtherTaken DEF UpdateKind
  <2> HIDE DEF d
  <2>3. QED
    BY <1>1, <2>1, <2>2, OtherSent
<1>7. NobodyMerges'
  BY <1>3, <1>4, Constants DEF Agreement, NobodyMerges, Same
<1>8. UpdatesOwn'
  <2> SUFFICES ASSUME NEW a \in Vehicle, NEW w \in Vehicle, NEW msg \in Updates(channel'[a][w])
               PROVE  msg.platoonId = a /\ Len(msg.formation) <= Len(formation'[a])
    BY DEF UpdatesOwn, Updates
  <2>1. msg \in Updates(channel[a][w])
    BY <1>6 DEF SameUpdates
  <2>2. msg.platoonId = a /\ Len(msg.formation) <= Len(formation[a]) /\ a \in Leaders
    BY <1>2, <2>1 DEF Agreement, UpdatesOwn, Formations, UpdatesGood, UpdateGood
  <2>3. formation'[a] = formation[a]
    BY <1>3, <1>4, <2>2 DEF Same
  <2>4. QED
    BY <2>2, <2>3
<1>9. ASSUME NEW x \in Followers', NEW l \in Leaders, LeaderId(x)' = l
      PROVE  platoonId'[x] = l /\ UpToDate(l, x)'
  <2>1. l # v /\ l \in Vehicle /\ x \in Vehicle /\ Same(l)
    BY <1>3, <1>4, Constants DEF Followers
  <2>2. \A y : BeingAdmitted(l, y) => BeingAdmitted(l, y)'
    BY <2>1 DEF BeingAdmitted, ServesIn, Same
  <2>3. CASE x = v
    <3>1. l = u
      BY <1>5, <1>9, <2>3 DEF LeaderId
    <3>2. BeingAdmitted(u, v)
      BY <1>2 DEF Joining, BeingAdmitted
    <3>3. BeingAdmitted(u, v)'
      BY <2>2, <3>1, <3>2
    <3>4. QED
      BY <1>5, <2>3, <3>1, <3>3 DEF UpToDate
  <2>4. CASE x # v
    <3>1. Same(x) /\ x \in Followers /\ LeaderId(x) = l
      BY <1>4, <1>9, <2>1, <2>4 DEF Followers, Same, LeaderId
    <3>2. platoonId[x] = l /\ UpToDate(l, x)
      BY <3>1 DEF Agreement
    <3>3. Updates(channel'[l][x]) = Updates(channel[l][x])
      BY <1>6, <2>1 DEF SameUpdates
    <3>4. UpToDate(l, x)'
      BY <2>1, <2>2, <3>1, <3>2, <3>3 DEF UpToDate, Same, Updates
    <3>5. QED
      BY <3>1, <3>2, <3>4 DEF Same
  <2>5. QED
    BY <2>3, <2>4
<1>10. QED
  BY <1>7, <1>8, <1>9 DEF Agreement

(* The leader takes over the new formation and sends it to everyone in it. *)
LEMMA AgreementJoined ==
  ASSUME PInv, PInv', Agreement, NEW m \in Maneuver, NEW u \in Vehicle, NEW v \in Vehicle,
         HandleJoinFormationAck(m, u, v)
  PROVE  Agreement'
<1> DEFINE f   == Offer(v, m)
           d   == Dequeue(u, v)
           upd == Msg("UpdatePlatoonFormation", platoonId[v], f)
<1>1. /\ channel[u][v] # <<>> /\ Head(channel[u][v]).kind = "JoinFormationAck" /\ FromJoiner(m, u, v)
      /\ channel' = SendToFollowers(d, v, f, upd)
      /\ formation' = [formation EXCEPT ![v] = f]
      /\ active' = [active EXCEPT ![v] = "none"]
      /\ \E t : state' = [state EXCEPT ![v][m] = t]
      /\ UNCHANGED <<role, platoonId, target, joiner>>
  BY DEF HandleJoinFormationAck, Receives, SetFormation, SetState, SetActive, Offer
<1>2. /\ Inv /\ Formations
      /\ active[v] = m /\ role[v] = "LEADER" /\ v \in Leaders /\ platoonId[v] = v
      /\ Joined(u, v, m) /\ f \in Formation /\ f # <<>>
  BY <1>1, Confirmed DEF PInv
<1>3. v \notin Followers /\ u \in Followers /\ ServesIn(v, m, u, "L_WAIT_JOINER_TO_JOIN")
  BY <1>2 DEF Followers, Joined
<1>4. Known(v) = f
  <2>1. Admitting(v)
    BY <1>3 DEF Admitting
  <2>2. QED
    BY <1>2, <1>3, <2>1 DEF Known
<1>5. Len(formation[v]) <= Len(f)
  BY <1>2, <1>3, <1>4, LeaderLines DEF Begins
<1> HIDE DEF f
<1>6. upd \in Message /\ upd.kind \in UpdateKind /\ upd.formation = f /\ upd.platoonId = v
  BY <1>2, Constants, Kinds, MsgType
<1>7. d \in Channels /\ SameUpdates(d)
  BY <1>1, <1>2, OtherTaken DEF UpdateKind
<1> HIDE DEF d, upd
<1>8. ASSUME NEW a \in Vehicle, NEW b \in Vehicle
      PROVE  Updates(channel'[a][b]) =
               IF a = v /\ b \in ToSet(Tail(f)) THEN Updates(channel[a][b]) \cup {upd}
               ELSE Updates(channel[a][b])
  <2>1. channel'[a][b] = IF a = v /\ b \in ToSet(Tail(f)) THEN Append(d[a][b], upd) ELSE d[a][b]
    BY <1>1, <1>6, <1>7, SendToFollowersChannels
  <2>2. Updates(d[a][b]) = Updates(channel[a][b]) /\ d[a][b] \in Seq(Message)
    BY <1>7 DEF SameUpdates, Channels
  <2>3. ToSet(Append(d[a][b], upd)) = ToSet(d[a][b]) \cup {upd}
    BY <1>6, <2>2, AppendSet
  <2>4. Updates(Append(d[a][b], upd)) = Updates(d[a][b]) \cup {upd}
    BY <1>6, <2>3 DEF Updates
  <2>5. QED
    BY <2>1, <2>2, <2>4
<1>9. /\ \A w \in Vehicle : w # v => Same(w)
      /\ formation'[v] = f /\ role' = role /\ platoonId' = platoonId
  BY <1>1, <1>2 DEF Inv, Typed, TypeOK, Same
<1>10. Followers' = Followers /\ NobodyMerges'
  BY <1>9 DEF Followers, Agreement, NobodyMerges
<1>11. UpdatesOwn'
  <2> SUFFICES ASSUME NEW a \in Vehicle, NEW w \in Vehicle, NEW msg \in Updates(channel'[a][w])
               PROVE  msg.platoonId = a /\ Len(msg.formation) <= Len(formation'[a])
    BY DEF UpdatesOwn, Updates
  <2>1. CASE msg \in Updates(channel[a][w])
    <3>1. /\ msg.platoonId = a /\ Len(msg.formation) <= Len(formation[a])
          /\ Len(msg.formation) \in Nat /\ Len(formation[a]) \in Nat
      <4>1. UpdateGood(a, w, msg) /\ formation[a] \in Formation
        BY <1>2, <2>1 DEF Formations, UpdatesGood, Inv, Typed, TypeOK
      <4>2. msg.formation \in Formation
        BY <4>1 DEF UpdateGood, Good, Sound, Shape
      <4>3. QED
        BY <2>1, <4>1, <4>2 DEF Agreement, UpdatesOwn, Formation
    <3>2. CASE a = v
      <4>1. Len(f) \in Nat
        BY <1>2 DEF Formation
      <4>2. QED
        BY <1>5, <1>9, <3>1, <3>2, <4>1
    <3>3. CASE a # v
      BY <1>9, <3>1, <3>3 DEF Same
    <3>4. QED
      BY <3>2, <3>3
  <2>2. CASE msg = upd /\ a = v
    <3>1. Len(f) \in Nat
      BY <1>2 DEF Formation
    <3>2. QED
      BY <1>6, <1>9, <2>2, <3>1
  <2>3. QED
    BY <1>8, <2>1, <2>2
<1>12. ASSUME NEW x \in Followers, NEW l \in Leaders, LeaderId(x)' = l
       PROVE  platoonId'[x] = l /\ UpToDate(l, x)'
  <2>1. x \in Vehicle /\ l \in Vehicle /\ x # v /\ formation'[x] = formation[x] /\ LeaderId(x) = l
    BY <1>3, <1>9, <1>12, Constants DEF Followers, Same, LeaderId
  <2>2. platoonId'[x] = l
    BY <1>9, <2>1 DEF Agreement
  <2>3. CASE l = v
    <3>1. /\ formation[x] \in Formation /\ Begins(formation[x], f) /\ Follows(x, formation[x])
      <4>1. formation[x] \in Formation /\ Begins(formation[x], Known(v))
        BY <2>1, <2>3, FollowerInFormation
      <4>2. Follows(x, formation[x])
        BY <1>2 DEF Formations, FollowersGood
      <4>3. QED
        BY <1>4, <4>1, <4>2
    <3>2. Follows(x, f)
      BY <1>2, <3>1 DEF Begins, Follows, Formation
    <3>3. x \in ToSet(Tail(f))
      BY <1>2, <3>2, OccursToSet
    <3>4. upd \in Updates(channel'[l][x])
      BY <1>8, <2>1, <2>3, <3>3
    <3>5. QED
      BY <1>6, <1>9, <2>2, <2>3, <3>4 DEF UpToDate, Updates
  <2>4. CASE l # v
    <3>1. UpToDate(l, x) /\ Same(l)
      BY <1>9, <2>1, <2>4 DEF Agreement
    <3>2. BeingAdmitted(l, x) => BeingAdmitted(l, x)'
      BY <3>1 DEF BeingAdmitted, ServesIn, Same
    <3>3. Updates(channel'[l][x]) = Updates(channel[l][x])
      BY <1>8, <2>1, <2>4
    <3>4. UpToDate(l, x)'
      BY <2>1, <3>1, <3>2, <3>3 DEF UpToDate, Same, Updates
    <3>5. QED
      BY <2>2, <3>4
  <2>5. QED
    BY <2>3, <2>4
<1>13. QED
  BY <1>10, <1>11, <1>12 DEF Agreement

LEMMA SameBeginning ==
  ASSUME NEW f \in Formation, NEW g \in Formation, NEW h, Begins(f, h), Begins(g, h), Len(f) = Len(g)
  PROVE  f = g
BY DEF Begins, Formation

(* A follower takes over the formation of an update from its leader u.     *)
LEMMA AgreementUpdated ==
  ASSUME PInv, PInv', Agreement, NEW u \in Vehicle, NEW v \in Vehicle,
         HandleUpdatePlatoonFormation(u, v)
  PROVE  Agreement'
<1> DEFINE q == channel[u][v]
           h == Head(channel[u][v])
<1>1. /\ q # <<>> /\ h.kind = "UpdatePlatoonFormation" /\ FromLeader(u, v)
      /\ formation' = [formation EXCEPT ![v] = h.formation]
      /\ channel' = Dequeue(u, v) /\ platoonId' = platoonId
      /\ UNCHANGED <<appVars, maneuverVars>>
  BY DEF HandleUpdatePlatoonFormation, Receives, SetFormation
<1>2. Inv /\ Formations /\ h.kind \in UpdateKind
  BY <1>1 DEF PInv, UpdateKind
<1>3. v \in Followers /\ LeaderId(v) = u
  BY <1>1 DEF FromLeader, Followers
<1>4. u \in Leaders /\ u \notin Followers /\ v \notin Leaders
  <2>1. u \in Leaders
    BY <1>3, FollowerInFormation
  <2>2. QED
    BY <1>3, <2>1 DEF Agreement, NobodyMerges, Followers
<1>5. /\ q \in Seq(Message) /\ h \in Updates(q)
      /\ Updates(q) = Updates(Tail(q)) \cup {h}
  <2>1. q \in Seq(Message)
    BY <1>2, InvFacts DEF Channels
  <2>2. ToSet(q) = ToSet(Tail(q)) \cup {h}
    BY <1>1, <2>1, TailSet
  <2>3. QED
    BY <1>2, <2>1, <2>2 DEF Updates
<1>6. /\ channel'[u][v] = Tail(q)
      /\ \A a, b \in Vehicle : a # u \/ b # v => channel'[a][b] = channel[a][b]
  BY <1>1, <1>2, DequeueChannels, InvFacts
<1>7. /\ formation'[v] = h.formation
      /\ \A w \in Vehicle : w # v => formation'[w] = formation[w]
      /\ \A l \in Leaders : formation'[l] = formation[l]
  BY <1>1, <1>2, <1>4, Constants DEF Inv, Typed, TypeOK
<1>8. /\ h.formation \in Formation /\ h.formation[1] = u /\ Head(h.formation) = u
      /\ Begins(h.formation, Known(u))
  <2>1. UpdateGood(u, v, h)
    BY <1>2, <1>5, SMTT(30) DEF Formations, UpdatesGood
  <2>2. h.formation \in Formation /\ h.formation # <<>> /\ h.formation[1] = u
    BY <1>1, <2>1 DEF UpdateGood, Good, Sound, Shape
  <2>3. Begins(h.formation, Known(u))
    BY <1>4, <2>1, <2>2 DEF UpdateGood, Good, Sound, KnownLines
  <2>4. QED
    BY <2>2, <2>3, OccursToSet
<1>9. /\ role' = role /\ Followers' = Followers /\ NobodyMerges'
      /\ \A l, x : BeingAdmitted(l, x) => BeingAdmitted(l, x)'
  BY <1>1 DEF appVars, maneuverVars, Followers, Agreement, NobodyMerges, BeingAdmitted, ServesIn
<1> HIDE DEF q, h
<1>10. \A a, b \in Vehicle : Updates(channel'[a][b]) \subseteq Updates(channel[a][b])
  BY <1>5, <1>6 DEF q
<1>11. UpdatesOwn'
  <2> SUFFICES ASSUME NEW a \in Vehicle, NEW w \in Vehicle, NEW msg \in Updates(channel'[a][w])
               PROVE  msg.platoonId = a /\ Len(msg.formation) <= Len(formation'[a])
    BY DEF UpdatesOwn, Updates
  <2>1. msg \in Updates(channel[a][w])
    BY <1>10
  <2>2. msg.platoonId = a /\ Len(msg.formation) <= Len(formation[a]) /\ a \in Leaders
    BY <1>2, <2>1 DEF Agreement, UpdatesOwn, Formations, UpdatesGood, UpdateGood
  <2>3. QED
    BY <1>7, <2>2
<1>12. ASSUME NEW x \in Followers, NEW l \in Leaders, LeaderId(x)' = l
       PROVE  platoonId'[x] = l /\ UpToDate(l, x)'
  <2>1. l \in Vehicle /\ x \in Vehicle /\ formation'[l] = formation[l] /\ LeaderId(x) = l
    BY <1>3, <1>7, <1>8, <1>12, Constants DEF Followers, LeaderId
  <2>2. platoonId'[x] = l /\ UpToDate(l, x)
    BY <1>1, <2>1 DEF Agreement
  <2>3. CASE BeingAdmitted(l, x)
    BY <1>9, <2>2, <2>3 DEF UpToDate
  <2>4. CASE x # v
    <3>1. formation'[x] = formation[x] /\ Updates(channel'[l][x]) = Updates(channel[l][x])
      BY <1>6, <1>7, <2>1, <2>4
    <3>2. UpToDate(l, x)'
      BY <1>9, <2>1, <2>2, <3>1 DEF UpToDate, Updates
    <3>3. QED
      BY <2>2, <3>2
  <2>5. CASE x = v /\ formation[v] = formation[u]
    <3>1. Len(formation[v]) <= Len(h.formation) /\ Len(h.formation) <= Len(formation[u])
      BY <1>1, <1>2, <1>3, <1>5 DEF Formations, UpdatesGrow, Agreement, UpdatesOwn, q
    <3>2. formation[u] \in Formation /\ Begins(formation[u], Known(u))
      BY <1>2, <1>4, LeaderLines
    <3>3. Len(h.formation) = Len(formation[u])
      BY <1>8, <2>5, <3>1, <3>2 DEF Formation
    <3>4. h.formation = formation[u]
      BY <1>8, <3>2, <3>3, SameBeginning
    <3>5. QED
      BY <1>3, <1>7, <2>1, <2>2, <2>5, <3>4 DEF UpToDate
  <2>6. ASSUME x = v, NEW msg \in Updates(q), msg.formation = formation[u]
        PROVE  platoonId'[x] = l /\ UpToDate(l, x)'
    <3>1. l = u
      BY <1>3, <2>1, <2>6
    <3>2. CASE msg = h
      BY <1>7, <2>1, <2>2, <2>6, <3>1, <3>2 DEF UpToDate
    <3>3. CASE msg # h
      <4>1. msg \in Updates(channel'[u][v])
        BY <1>5, <1>6, <2>6, <3>3
      <4>2. QED
        BY <2>1, <2>2, <2>6, <3>1, <4>1 DEF UpToDate, Updates
    <3>4. QED
      BY <3>2, <3>3
  <2>7. QED
    BY <1>3, <2>1, <2>2, <2>3, <2>4, <2>5, <2>6 DEF UpToDate, q
<1>13. QED
  BY <1>9, <1>11, <1>12 DEF Agreement

(* No formation update is disregarded: it comes from the leader that its   *)
(* receiver follows, and names the platoon both are in.                    *)
LEMMA AgreementDisregard ==
  ASSUME PInv, Agreement, NEW u \in Vehicle, NEW v \in Vehicle, Disregard(u, v)
  PROVE  Agreement'
<1> DEFINE h == Head(channel[u][v])
<1>1. /\ channel[u][v] # <<>> /\ ~Wanted(u, v) /\ channel' = Dequeue(u, v)
      /\ UNCHANGED <<appVars, helperVars, maneuverVars>>
  BY DEF Disregard
<1>2. Inv /\ Formations
  BY DEF PInv
<1>3. h.kind \notin UpdateKind
  <2> SUFFICES ASSUME h.kind \in UpdateKind PROVE FALSE
    OBVIOUS
  <2>1. h \in Updates(channel[u][v])
    BY <1>1, <1>2, InvFacts, TailSet DEF Updates, Channels
  <2>2. UpdateGood(u, v, h) /\ h.platoonId = u
    BY <1>2, <2>1 DEF Formations, UpdatesGood, Agreement, UpdatesOwn
  <2>3. u \in Leaders /\ u \notin Followers /\ h.kind = "UpdatePlatoonFormation"
    BY <2>2 DEF UpdateGood, Agreement, NobodyMerges, Followers, UpdateKind
  <2>4. Good(h.formation) /\ h.formation[1] = u /\ Follows(v, h.formation)
    BY <2>2, <2>3 DEF UpdateGood
  <2>5. v \in Followers /\ Occurs(v, Known(u))
    <3>1. v \in Followers /\ Occurs(v, h.formation)
      BY <2>4, FollowersOfSound, SMTT(30) DEF Good
    <3>2. h.formation \in Formation /\ Begins(h.formation, Known(u)) /\ Known(u) \in Formation
      BY <1>2, <2>3, <2>4, LineTypes DEF Good, Sound, Shape, KnownLines, Inv
    <3>3. QED
      BY <3>1, <3>2, OccursInBeginning
  <2>6. LeaderId(v) = u
    <3>1. /\ LeaderId(v) \in Leaders /\ formation[v] \in Formation
          /\ Occurs(v, formation[v]) /\ Begins(formation[v], Known(LeaderId(v)))
      BY <2>5, FollowerInFormation
    <3>2. LeaderId(v) \notin Followers /\ Known(LeaderId(v)) \in Formation
      BY <1>2, <3>1, LineTypes DEF Agreement, NobodyMerges, Followers, Inv
    <3>3. Occurs(v, Known(LeaderId(v)))
      BY <3>1, <3>2, OccursInBeginning
    <3>4. QED
      BY <1>2, <2>3, <2>5, <3>1, <3>2, <3>3 DEF Formations, Apart
  <2>7. platoonId[v] = u
    BY <2>3, <2>5, <2>6 DEF Agreement
  <2>8. FromLeader(u, v)
    BY <2>2, <2>5, <2>6, <2>7 DEF FromLeader, Followers
  <2>9. QED
    BY <1>1, <2>8 DEF Wanted
<1>4. SameUpdates(channel')
  BY <1>1, <1>2, <1>3, OtherTaken
<1>5. /\ Followers' = Followers /\ NobodyMerges' /\ formation' = formation /\ platoonId' = platoonId
      /\ \A l \in Leaders, x \in Followers : BeingAdmitted(l, x) => BeingAdmitted(l, x)'
  BY <1>1 DEF appVars, helperVars, maneuverVars, Followers, Agreement, NobodyMerges, BeingAdmitted,
     ServesIn
<1>6. QED
  BY <1>4, <1>5, AgreementFrame

LEMMA AgreementInit ==
  ASSUME Init, PInv
  PROVE  Agreement
<1>1. /\ role = [v \in Vehicle |-> IF v \in Leaders THEN "LEADER"
                                   ELSE IF v \in Registered THEN "FOLLOWER" ELSE "NONE"]
      /\ \A u, w \in Vehicle : channel[u][w] = <<>>
      /\ platoonId = [v \in Vehicle |-> IF v \in Registered THEN Head(formation[v]) ELSE None]
      /\ \A v \in Registered : formation[v] = CHOOSE p \in Platoons : v \in ToSet(p)
  BY VehicleAssumption DEF Init
<1>2. NobodyMerges
  BY <1>1, Constants DEF NobodyMerges
<1>3. UpdatesOwn
  BY <1>1 DEF UpdatesOwn, Updates, ToSet
<1>4. ASSUME NEW x \in Followers, NEW l \in Leaders, LeaderId(x) = l
      PROVE  platoonId[x] = l /\ UpToDate(l, x)
  <2>1. x \in Registered /\ x \in Vehicle
    BY <1>1 DEF Followers
  <2>2. platoonId[x] = l
    BY <1>1, <1>4, <2>1 DEF LeaderId
  <2>3. PICK p \in Platoons : x \in ToSet(p)
    BY <2>1 DEF Registered
  <2>4. /\ p \in Formation /\ p # <<>>
        /\ \A y : Occurs(y, p) => (CHOOSE q \in Platoons : y \in ToSet(q)) = p
    BY PlatoonAtFirst
  <2>5. formation[x] = p
    BY <1>1, <2>1, <2>3, <2>4, OccursToSet
  <2>6. Occurs(l, p)
    BY <1>4, <2>4, <2>5, OccursToSet DEF LeaderId, Occurs, Formation
  <2>7. formation[l] = p
    BY <1>1, <2>4, <2>6, Constants
  <2>8. QED
    BY <2>2, <2>5, <2>7 DEF UpToDate
<1>5. QED
  BY <1>2, <1>3, <1>4 DEF Agreement

LEMMA AgreementNext ==
  ASSUME Merger = {}, PInv, PInv', Agreement, [Next]_vars
  PROVE  Agreement'
<1>1. Inv /\ Inv' /\ Formations
  BY DEF PInv
<1>2. ASSUME NEW v \in Joiner, NEW leader \in Target, StartManeuver("join", v, leader)
      PROVE  Agreement'
  BY <1>1, <1>2, AgreementStart
<1>3. ASSUME NEW u \in Vehicle, NEW v \in Vehicle, OnManeuverMessage(u, v)
      PROVE  Agreement'
  <2>1. ASSUME NEW m \in Maneuver, HandleRequest(m, u, v)
        PROVE  Agreement'
    BY <1>1, <2>1, AgreementRequest
  <2>2. ASSUME NEW m \in Maneuver, HandleJoinPlatoonResponse(m, u, v) \/ HandleMoveToPosition(m, u, v)
        PROVE  Agreement'
    BY <1>1, <2>2, AgreementJoinerReply
  <2>3. ASSUME NEW m \in Maneuver, HandleMoveToPositionAck(m, u, v)
        PROVE  Agreement'
    BY <1>1, <2>3, AgreementPositionAck
  <2>4. ASSUME NEW m \in Maneuver, HandleJoinFormation(m, u, v)
        PROVE  Agreement'
    BY <2>4, AgreementJoin
  <2>5. ASSUME NEW m \in Maneuver, HandleJoinFormationAck(m, u, v)
        PROVE  Agreement'
    BY <2>5, AgreementJoined
  <2>6. CASE HandleUpdatePlatoonFormation(u, v)
    BY <2>6, AgreementUpdated
  <2>7. CASE HandleUpdatePlatoonData(u, v)
    <3>1. /\ channel[u][v] # <<>> /\ Head(channel[u][v]).kind = "UpdatePlatoonData"
          /\ FromLeader(u, v)
      BY <2>7 DEF HandleUpdatePlatoonData, Receives
    <3>2. Head(channel[u][v]) \in Updates(channel[u][v])
      BY <1>1, <3>1, InvFacts, TailSet DEF Updates, Channels, UpdateKind
    <3>3. u \in Leaders /\ u \in Followers
      BY <1>1, <3>1, <3>2 DEF Formations, UpdatesGood, UpdateGood
    <3>4. QED
      BY <3>3 DEF Agreement, NobodyMerges, Followers
  <2>8. CASE Disregard(u, v)
    BY <2>8, AgreementDisregard
  <2>9. QED
    BY <1>3, <2>1, <2>2, <2>3, <2>4, <2>5, <2>6, <2>7, <2>8 DEF OnManeuverMessage
<1>4. CASE UNCHANGED vars \/ \E u, v \in Vehicle : OnFailedTransmissionAttempt(u, v)
  <2>1. UNCHANGED <<appVars, helperVars, maneuverVars, channel>>
    BY <1>4 DEF vars, OnFailedTransmissionAttempt
  <2>2. /\ Followers' = Followers /\ NobodyMerges' /\ formation' = formation /\ platoonId' = platoonId
        /\ SameUpdates(channel')
        /\ \A l \in Leaders, x \in Followers : BeingAdmitted(l, x) => BeingAdmitted(l, x)'
    BY <2>1 DEF appVars, helperVars, maneuverVars, Followers, Agreement, NobodyMerges, SameUpdates,
       BeingAdmitted, ServesIn
  <2>3. QED
    BY <2>2, AgreementFrame
<1>5. ASSUME NEW v \in Vehicle, CheckDistance(v)
      PROVE  Agreement'
  <2>1. v \in Leaders /\ v \in Followers
    BY <1>1, <1>5 DEF CheckDistance, Formations, ChecksFollow
  <2>2. QED
    BY <2>1 DEF Agreement, NobodyMerges, Followers
<1>6. ASSUME NEW v \in Vehicle, NEW m \in Maneuver, OnPlatoonBeacon(m, v)
      PROVE  Agreement'
  BY <1>1, <1>6, AgreementInPosition
<1>7. QED
  BY <1>2, <1>3, <1>4, <1>5, <1>6 DEF Next, Start

LEMMA AgreementHolds ==
  ASSUME Merger = {} PROVE Spec => [](PInv /\ Agreement)
<1>1. Init => PInv /\ Agreement
  BY PInvInit, AgreementInit
<1>2. (PInv /\ Agreement) /\ [Next]_vars => (PInv /\ Agreement)'
  BY PInvNext, AgreementNext
<1>3. QED
  BY <1>1, <1>2, PTL DEF Spec

(* When no message is on its way every follower holds what its leader does. *)
LEMMA AgreementQuiescent ==
  ASSUME PInv, Agreement
  PROVE  PlatoonAgrees
<1> SUFFICES ASSUME \A u, v \in Vehicle : channel[u][v] = <<>>,
                    NEW v \in Vehicle, role[v] = "FOLLOWER"
             PROVE  formation[v] = formation[LeaderId(v)] /\ platoonId[v] = platoonId[LeaderId(v)]
  BY DEF PlatoonAgrees
<1>1. v \in Followers /\ Inv
  BY DEF Followers, PInv
<1>2. PICK l \in Leaders : LeaderId(v) = l
  BY <1>1, FollowerInFormation
<1>3. l \in Vehicle /\ role[l] # "FOLLOWER"
  BY Constants DEF Agreement, NobodyMerges
<1>4. platoonId[v] = l /\ UpToDate(l, v)
  BY <1>1, <1>2 DEF Agreement
<1>5. platoonId[l] = l
  BY <1>1, <1>3, InvFacts DEF Local
<1>6. ~BeingAdmitted(l, v)
  <2> SUFFICES ASSUME NEW m \in Maneuver, ServesIn(l, m, v, "L_WAIT_JOINER_TO_JOIN")
               PROVE  FALSE
    BY DEF BeingAdmitted
  <2>1. Joined(v, l, m)
    BY <1>1, <1>3, ServedBy DEF LState
  <2>2. Thanks(l, m) \in ToSet(channel[v][l])
    BY <2>1 DEF Joined, Asks, Ask
  <2>3. QED
    BY <1>3, <2>2 DEF ToSet
<1>7. Updates(channel[l][v]) = {}
  BY <1>3 DEF Updates, ToSet
<1>8. QED
  BY <1>2, <1>4, <1>5, <1>6, <1>7 DEF UpToDate

(* When all is quiet the members of a platoon agree on its id and its      *)
(* formation, as long as platoons are only joined and none merges          *)
(* (JoinAtBack.cc:287-298); a merge may leave them apart for good.         *)
THEOREM JoinedPlatoonsAgree == Merger = {} => (Spec => []PlatoonAgrees)
<1> SUFFICES ASSUME Merger = {} PROVE Spec => []PlatoonAgrees
  OBVIOUS
<1>1. Spec => [](PInv /\ Agreement)
  BY AgreementHolds
<1>2. PInv /\ Agreement => PlatoonAgrees
  BY AgreementQuiescent
<1>3. QED
  BY <1>1, <1>2, PTL

(* As long as none merges, a vehicle that is NONE is nobody's leader, as   *)
(* the comment on NONE says (GeneralPlatooningApp.h:45); only a denied     *)
(* merge makes it wrong.                                                   *)
THEOREM NoneIsAloneWithoutMerging == Merger = {} => (Spec => []NoneMeansAlone)
<1> SUFFICES ASSUME Merger = {} PROVE Spec => []NoneMeansAlone
  OBVIOUS
<1>1. Spec => [](PInv /\ Agreement)
  BY AgreementHolds
<1>2. ASSUME PInv, Agreement
      PROVE  NoneMeansAlone
  <2>1. \A f \in Followers : LeaderId(f) \in Leaders
    BY <1>2, FollowerInFormation
  <2>2. QED
    BY <1>2, <2>1 DEF NoneMeansAlone, Agreement, NobodyMerges, Followers
<1>3. QED
  BY <1>1, <1>2, PTL

=============================================================================
