---------------------------- MODULE TransitProofs ----------------------------
(* Theorems about Transit, for any stations, trains, seats and pedestrians. *)
EXTENDS Transit, Facts

(* A sum of naturals counts the units of all of them: what it is made of is a
   finite set, so that sums are reasoned about as cardinalities. *)
Units(f, T) == {u \in T \X Nat : 1 <= u[2] /\ u[2] <= f[u[1]]}

LEMMA OneMoreUnit ==
  ASSUME NEW f, NEW T, NEW x \in T, f[x] \in Nat, IsFiniteSet(Units(f, T \ {x}))
  PROVE  /\ IsFiniteSet(Units(f, T))
         /\ Cardinality(Units(f, T)) = f[x] + Cardinality(Units(f, T \ {x}))
<1> DEFINE A == Units(f, T \ {x})
           B == {x} \X (1 .. f[x])
<1>1. Units(f, T) = B \cup A
  <2>1. \A u : u \in Units(f, T) => u \in B \cup A
    <3> TAKE u
    <3> HAVE u \in Units(f, T)
    <3>1. u \in T \X Nat /\ 1 <= u[2] /\ u[2] <= f[u[1]]
      BY DEF Units
    <3>2. CASE u[1] = x
      <4>1. u \in B
        BY <3>1, <3>2
      <4> QED BY <4>1
    <3>3. CASE u[1] # x
      <4>1. u \in A
        BY <3>1, <3>3 DEF Units
      <4> QED BY <4>1
    <3> QED BY <3>2, <3>3
  <2>2. \A u : u \in B => u \in Units(f, T)
    BY DEF Units
  <2>3. A \subseteq Units(f, T)
    BY DEF Units
  <2> QED BY <2>1, <2>2, <2>3
<1>2. B \cap A = {}
  BY DEF Units
<1>3. IsFiniteSet(B) /\ Cardinality(B) = f[x]
  <2> DEFINE n == f[x]
  <2>0. n \in Nat
    OBVIOUS
  <2>1. IsFiniteSet(1 .. n) /\ Cardinality(1 .. n) = IF 1 > n THEN 0 ELSE n - 1 + 1
    <3> HIDE DEF n
    <3>1. 1 \in Int /\ n \in Int
      BY <2>0
    <3> QED BY <3>1, FS_Interval
  <2>2. (IF 1 > n THEN 0 ELSE n - 1 + 1) = n /\ n \in Nat
    OBVIOUS
  <2>3. IsFiniteSet({x}) /\ Cardinality({x}) = 1
    BY FS_Singleton
  <2> HIDE DEF n
  <2>4. IsFiniteSet({x} \X (1 .. n)) /\ Cardinality({x} \X (1 .. n)) = 1 * n
    <3> DEFINE V == {x}
               W == 1 .. n
    <3>1. IsFiniteSet(V) /\ Cardinality(V) = 1 /\ IsFiniteSet(W) /\ Cardinality(W) = n
      BY <2>1, <2>2, <2>3
    <3> HIDE DEF V, W
    <3>2. IsFiniteSet(V \X W) /\ Cardinality(V \X W) = Cardinality(V) * Cardinality(W)
      BY <3>1, FS_Product
    <3>3. IsFiniteSet(V \X W) /\ Cardinality(V \X W) = 1 * n
      BY <3>1, <3>2
    <3> QED BY <3>3 DEF V, W
  <2>5. 1 * n = n
    BY <2>2
  <2> QED BY <2>4, <2>5 DEF n
<1> HIDE DEF A, B
<1>4. IsFiniteSet(A)
  BY DEF A
<1>5. /\ IsFiniteSet(B \cup A)
      /\ Cardinality(B \cup A) = Cardinality(B) + Cardinality(A) - Cardinality(B \cap A)
  BY <1>3, <1>4, FS_Union
<1>6. Cardinality(B \cap A) = 0
  BY <1>2, FS_EmptySet
<1>7. Cardinality(A) \in Nat
  BY <1>4, FS_CardinalityType
<1>8. Cardinality(B \cup A) = f[x] + Cardinality(A)
  BY <1>3, <1>5, <1>6, <1>7
<1> QED BY <1>1, <1>5, <1>8 DEF A

LEMMA NoUnit ==
  ASSUME NEW f, NEW T, \A x \in T : f[x] = 0
  PROVE  Units(f, T) = {} /\ IsFiniteSet(Units(f, T)) /\ Cardinality(Units(f, T)) = 0
<1>1. Units(f, T) = {}
  BY DEF Units
<1> QED BY <1>1, FS_EmptySet

LEMMA FiniteUnits ==
  ASSUME NEW S, IsFiniteSet(S), NEW f \in [S -> Nat], NEW U \in SUBSET S
  PROVE  IsFiniteSet(Units(f, U)) /\ Cardinality(Units(f, U)) \in Nat
<1> DEFINE T == {n \in Nat : \A V \in SUBSET S : Cardinality(V) = n => IsFiniteSet(Units(f, V))}
<1>1. \A V \in SUBSET S : IsFiniteSet(V) /\ Cardinality(V) \in Nat
  BY FS_Subset, FS_CardinalityType
<1>2. 0 \in T
  <2> SUFFICES ASSUME NEW V \in SUBSET S, Cardinality(V) = 0 PROVE IsFiniteSet(Units(f, V))
    OBVIOUS
  <2>1. V = {}
    BY <1>1, FS_EmptySet
  <2> QED BY <2>1, NoUnit
<1>3. \A n \in Nat : n \in T => n + 1 \in T
  <2> SUFFICES ASSUME NEW n \in Nat, n \in T, NEW V \in SUBSET S, Cardinality(V) = n + 1
               PROVE  IsFiniteSet(Units(f, V))
    OBVIOUS
  <2>1. PICK x \in V : TRUE
    BY FS_EmptySet
  <2>2. Cardinality(V \ {x}) = n
    <3>1. Cardinality(V \ {x}) = IF x \in V THEN Cardinality(V) - 1 ELSE Cardinality(V)
      BY <1>1, FS_RemoveElement
    <3> QED BY <3>1, <2>1
  <2>3. IsFiniteSet(Units(f, V \ {x}))
    BY <2>2
  <2> HIDE DEF T
  <2>4. f[x] \in Nat
    BY <2>1
  <2> QED BY <2>1, <2>3, <2>4, OneMoreUnit
<1>4. Cardinality(U) \in T
  <2> HIDE DEF T
  <2> QED BY <1>1, <1>2, <1>3, EveryNatural
<1>5. IsFiniteSet(Units(f, U))
  BY <1>4
<1> QED BY <1>5, FS_CardinalityType

(* The fold that SumFunction is, in the order it chooses, counts the units. *)
LEMMA SumCounts ==
  ASSUME NEW S, IsFiniteSet(S), NEW f \in [S -> Nat]
  PROVE  SumFunction(f) = Cardinality(Units(f, S))
<1> DEFINE Some(s) == CHOOSE x \in s : TRUE
           Is(g) == g = [s \in SUBSET S |-> IF s = {} THEN 0 ELSE f[Some(s)] + g[s \ {Some(s)}]]
           iter == CHOOSE g : Is(g)
           units == [s \in SUBSET S |-> Cardinality(Units(f, s))]
           T == {n \in Nat : \A V \in SUBSET S : Cardinality(V) = n => iter[V] = units[V]}
<1>1. DOMAIN f = S
  OBVIOUS
<1>2. SumFunction(f) = iter[S]
  <2>1. SumFunction(f) = (CHOOSE g : g = [s \in SUBSET DOMAIN f |->
                            IF s = {} THEN 0 ELSE f[CHOOSE x \in s : TRUE] + g[s \ {CHOOSE x \in s : TRUE}]])[DOMAIN f]
    BY Zenon DEF SumFunction, SumFunctionOnSet, FoldFunctionOnSet, MapThenFoldSet
  <2> QED BY <1>1, <2>1
<1>3. \A s \in SUBSET S : s # {} => Some(s) \in s
  OBVIOUS
<1>4. units[{}] = 0
  BY NoUnit
<1>5. \A s \in SUBSET S : s # {} => units[s] = f[Some(s)] + units[s \ {Some(s)}]
  <2> TAKE s \in SUBSET S
  <2> HAVE s # {}
  <2> DEFINE x == Some(s)
  <2>1. x \in s /\ s \ {x} \in SUBSET S
    BY <1>3
  <2> HIDE DEF x, Some
  <2>2. f[x] \in Nat
    BY <2>1
  <2>3. IsFiniteSet(Units(f, s \ {x}))
    BY <2>1, FiniteUnits
  <2>4. Cardinality(Units(f, s)) = f[x] + Cardinality(Units(f, s \ {x}))
    BY <2>1, <2>2, <2>3, OneMoreUnit
  <2>5. units[s] = f[x] + units[s \ {x}]
    BY <2>1, <2>4
  <2> QED BY <2>5 DEF x
<1>6. Is(iter)
  <2>1. Is(units)
    <3> HIDE DEF Some
    <3>1. \A s \in SUBSET S : units[s] = IF s = {} THEN 0 ELSE f[Some(s)] + units[s \ {Some(s)}]
      BY <1>4, <1>5
    <3> QED BY <3>1
  <2> QED BY <2>1
<1> HIDE DEF iter, units, Some
<1>7. iter[{}] = 0 /\ \A s \in SUBSET S : s # {} => iter[s] = f[Some(s)] + iter[s \ {Some(s)}]
  <2>1. \A s \in SUBSET S : iter[s] = IF s = {} THEN 0 ELSE f[Some(s)] + iter[s \ {Some(s)}]
    BY <1>6
  <2>2. {} \in SUBSET S
    OBVIOUS
  <2> QED BY <2>1, <2>2
<1>8. \A V \in SUBSET S : IsFiniteSet(V) /\ Cardinality(V) \in Nat
  BY FS_Subset, FS_CardinalityType
<1>9. 0 \in T
  <2>1. \A V \in SUBSET S : Cardinality(V) = 0 => V = {}
    BY <1>8, FS_EmptySet
  <2> QED BY <2>1, <1>4, <1>7
<1>10. \A n \in Nat : n \in T => n + 1 \in T
  <2> SUFFICES ASSUME NEW n \in Nat, n \in T, NEW V \in SUBSET S, Cardinality(V) = n + 1
               PROVE  iter[V] = units[V]
    OBVIOUS
  <2>1. V # {}
    BY FS_EmptySet
  <2>2. Some(V) \in V /\ V \ {Some(V)} \in SUBSET S
    BY <1>3, <2>1
  <2>3. Cardinality(V \ {Some(V)}) = n
    <3>1. \A x : Cardinality(V \ {x}) = IF x \in V THEN Cardinality(V) - 1 ELSE Cardinality(V)
      BY <1>8, FS_RemoveElement
    <3> QED BY <3>1, <2>2
  <2>4. iter[V \ {Some(V)}] = units[V \ {Some(V)}]
    BY <2>2, <2>3
  <2> QED BY <1>5, <1>7, <2>1, <2>4
<1>11. Cardinality(S) \in T
  <2> HIDE DEF T
  <2> QED BY <1>8, <1>9, <1>10, EveryNatural
<1>12. iter[S] = units[S]
  BY <1>11
<1>13. units[S] = Cardinality(Units(f, S))
  BY DEF units
<1> QED BY <1>2, <1>12, <1>13

(* A sum of naturals when one of them changes. *)
LEMMA SumChanges ==
  ASSUME NEW S, IsFiniteSet(S), NEW f \in [S -> Nat], NEW g \in [S -> Nat], NEW x \in S,
         \A y \in S \ {x} : g[y] = f[y]
  PROVE  /\ SumFunction(f) \in Nat /\ SumFunction(g) \in Nat
         /\ SumFunction(g) - g[x] = SumFunction(f) - f[x]
<1>1. Units(f, S \ {x}) = Units(g, S \ {x})
  BY DEF Units
<1>2. \A h \in [S -> Nat] : /\ SumFunction(h) \in Nat
                            /\ SumFunction(h) = h[x] + Cardinality(Units(h, S \ {x}))
                            /\ Cardinality(Units(h, S \ {x})) \in Nat
  <2> TAKE h \in [S -> Nat]
  <2>1. IsFiniteSet(Units(h, S \ {x})) /\ Cardinality(Units(h, S \ {x})) \in Nat
    BY FiniteUnits
  <2>2. h[x] \in Nat
    OBVIOUS
  <2>3. Cardinality(Units(h, S)) = h[x] + Cardinality(Units(h, S \ {x}))
    BY <2>1, <2>2, OneMoreUnit
  <2>4. SumFunction(h) = Cardinality(Units(h, S))
    BY SumCounts
  <2> QED BY <2>1, <2>2, <2>3, <2>4
<1>3. f[x] \in Nat /\ g[x] \in Nat
  OBVIOUS
<1> QED BY <1>1, <1>2, <1>3

LEMMA SumOfNone ==
  ASSUME NEW S, IsFiniteSet(S), NEW f \in [S -> Nat], \A x \in S : f[x] = 0
  PROVE  SumFunction(f) = 0
BY SumCounts, NoUnit

LEMMA SumNatural ==
  ASSUME NEW S, IsFiniteSet(S), NEW f \in [S -> Nat]
  PROVE  SumFunction(f) \in Nat
BY SumCounts, FiniteUnits
-----------------------------------------------------------------------------
(* The invariant, for stations and trains that a handler is at work on, too. *)
SeatNumbers == 0 .. Seats - 1
Stations == [active : BOOLEAN, passengers : Nat, serviced : Numbers \cup {NONE}, waiting : Seq(Person)]
Trains == [tr : Numbers \cup {NONE}, destination : Places \cup {NONE}, onBoard : Nat, passengers : Seq(Person)]

GoodStation(x) ==
  /\ x \in Stations /\ x.passengers >= Len(x.waiting)
  /\ ~x.active => x.waiting = <<>>

GoodTrain(x, i) ==
  /\ x \in Trains /\ x.onBoard = Len(x.passengers)
  /\ x.tr # NONE => Seat(x.tr) = i
  /\ x.destination # NONE => x.tr # NONE

GoodStations(st) == st \in [Places -> Stations] /\ \A s \in Places : GoodStation(st[s])
GoodTrains(ts) == ts \in [SeatNumbers -> Trains] /\ \A i \in SeatNumbers : GoodTrain(ts[i], i)

Routed(ts, rt) ==
  \A i \in SeatNumbers : ts[i].destination # NONE => rt[ts[i].tr] = ts[i].destination

Serviced(st, ts) ==
  \A s \in Places : st[s].serviced # NONE =>
    /\ ts[Seat(st[s].serviced)].tr = st[s].serviced
    /\ ts[Seat(st[s].serviced)].destination = s

Crowd(st) == SumFunction([s \in Places |-> Len(st[s].waiting)])
Aboard(ts) == SumFunction([i \in SeatNumbers |-> Len(ts[i].passengers)])
Active(st) == {s \in Places : st[s].active}

Sound(st, ts, rt) ==
  /\ GoodStations(st) /\ GoodTrains(ts) /\ rt \in [Numbers -> Places \cup {NONE}]
  /\ Routed(ts, rt) /\ Serviced(st, ts)

Held ==
  /\ Sound(stations, trains, route) /\ count = Cardinality(Active(stations))
  /\ free \in Int /\ people \in Int /\ 0 <= people /\ people <= free
  /\ free + Crowd(stations) + Aboard(trains) = MaxPeople

TransitInv == Held /\ fuel \in 0 .. Requests

LEMMA SeatInRange ==
  ASSUME NEW tr \in Numbers
  PROVE  Seat(tr) \in SeatNumbers
<1>1. tr \in Nat /\ Seats \in Nat \ {0}
  BY TransitAssumption
<1>2. tr % Seats \in 0 .. Seats - 1
  BY <1>1
<1> QED BY <1>2 DEF Seat, SeatNumbers

LEMMA NotNone == /\ NONE \notin Places /\ NONE \notin Numbers /\ MaxPeople \in Nat
                 /\ IsFiniteSet(Places) /\ IsFiniteSet(SeatNumbers)
<1>1. Seats - 1 \in Int
  BY TransitAssumption
<1>2. IsFiniteSet(SeatNumbers)
  BY <1>1, FS_Interval DEF SeatNumbers
<1> QED BY <1>2, TransitAssumption

LEMMA ReverseIs ==
  ASSUME NEW S, NEW s \in Seq(S)
  PROVE  Reverse(s) \in Seq(S) /\ Len(Reverse(s)) = Len(s) /\ Len(s) \in Nat
<1> DEFINE n == Len(s)
           r == [i \in 1 .. n |-> s[(n - i) + 1]]
<1>1. n \in Nat /\ DOMAIN s = 1 .. n /\ \A i \in 1 .. n : s[i] \in S
  BY LenProperties, ElementOfSeq
<1> HIDE DEF n
<1>2. r \in [1 .. n -> S]
  BY <1>1
<1>3. r \in Seq(S) /\ Len(r) = n
  <2> HIDE DEF r
  <2> QED BY <1>1, <1>2, IsASeq, LenProperties
<1>4. Reverse(s) = r
  BY DEF Reverse, n
<1> QED BY <1>1, <1>3, <1>4 DEF n

(* Everybody who waits boards. *)
LEMMA BoardedIs ==
  ASSUME NEW train \in Trains, NEW station \in Stations, train.onBoard = Len(train.passengers)
  PROVE  /\ Boarded(train, station) \in Trains
         /\ Boarded(train, station).tr = train.tr
         /\ Boarded(train, station).destination = train.destination
         /\ Boarded(train, station).onBoard = Len(Boarded(train, station).passengers)
         /\ Len(Boarded(train, station).passengers) = Len(train.passengers) + Len(station.waiting)
<1> DEFINE r == Reverse(station.waiting)
           p == train.passengers
           n == Len(station.waiting)
           b == [train EXCEPT !.passengers = r \o p, !.onBoard = @ + n]
<1>1. station.waiting \in Seq(Person) /\ p \in Seq(Person)
  BY DEF Stations, Trains
<1>2. r \in Seq(Person) /\ Len(r) = n /\ n \in Nat
  BY <1>1, ReverseIs
<1>3. Len(p) \in Nat
  BY <1>1, LenProperties
<1> DEFINE q == r \o p
<1>4. q \in Seq(Person) /\ Len(q) = Len(p) + n
  <2> HIDE DEF r, p, n
  <2>1. r \o p \in Seq(Person) /\ Len(r \o p) = Len(r) + Len(p)
    BY <1>1, <1>2, ConcatProperties
  <2> QED BY <1>2, <1>3, <2>1
<1> HIDE DEF n, q
<1>5. train.onBoard + n = Len(p) + n /\ train.onBoard + n \in Nat
  <2>1. train.onBoard = Len(p)
    OBVIOUS
  <2> HIDE DEF p
  <2> QED BY <1>2, <1>3, <2>1
<1>6. b = [train EXCEPT !.passengers = q, !.onBoard = @ + n]
  BY DEF q
<1>7. b \in Trains /\ b.tr = train.tr /\ b.destination = train.destination
      /\ b.onBoard = train.onBoard + n /\ b.passengers = q
  <2> HIDE DEF b, r, p
  <2> QED BY <1>4, <1>5, <1>6 DEF Trains
<1>8. Boarded(train, station) = b
  BY DEF Boarded, n
<1> HIDE DEF b
<1> QED BY <1>4, <1>5, <1>7, <1>8 DEF n

LEMMA EmptiedIs ==
  ASSUME NEW x, GoodStation(x)
  PROVE  /\ GoodStation(Emptied(x)) /\ Emptied(x).active = x.active
         /\ Emptied(x).serviced = x.serviced /\ Emptied(x).waiting = <<>> /\ Len(Emptied(x).waiting) = 0
<1>1. <<>> \in Seq(Person) /\ Len(<<>>) = 0
  BY EmptySeq
<1>2. /\ Emptied(x) \in Stations /\ Emptied(x).active = x.active /\ Emptied(x).passengers = 0
      /\ Emptied(x).serviced = x.serviced /\ Emptied(x).waiting = <<>>
  BY <1>1 DEF Emptied, GoodStation, Stations
<1> QED BY <1>1, <1>2 DEF GoodStation

(* One station, or one train, is another: what all of them hold changes by what
   it holds. *)
LEMMA CrowdChanges ==
  ASSUME NEW st \in [Places -> Stations], NEW s \in Places, NEW x \in Stations
  PROVE  /\ Crowd(st) \in Nat /\ Crowd([st EXCEPT ![s] = x]) \in Nat
         /\ Crowd([st EXCEPT ![s] = x]) - Len(x.waiting) = Crowd(st) - Len(st[s].waiting)
<1> DEFINE su == [st EXCEPT ![s] = x]
           f == [p \in Places |-> Len(st[p].waiting)]
           g == [p \in Places |-> Len(su[p].waiting)]
<1>1. \A y \in Stations : Len(y.waiting) \in Nat
  BY LenProperties DEF Stations
<1>2. su \in [Places -> Stations] /\ su[s] = x /\ \A p \in Places \ {s} : su[p] = st[p]
  OBVIOUS
<1> HIDE DEF su
<1>3. f \in [Places -> Nat] /\ g \in [Places -> Nat] /\ f[s] = Len(st[s].waiting) /\ g[s] = Len(x.waiting)
  BY <1>1, <1>2
<1>4. \A p \in Places \ {s} : g[p] = f[p]
  BY <1>2
<1> HIDE DEF f, g
<1>5. SumFunction(f) \in Nat /\ SumFunction(g) \in Nat /\ SumFunction(g) - g[s] = SumFunction(f) - f[s]
  <2>1. IsFiniteSet(Places) /\ f \in [Places -> Nat] /\ g \in [Places -> Nat]
    BY <1>3, NotNone
  <2> QED BY <2>1, <1>4, SumChanges
<1>6. Crowd(st) = SumFunction(f) /\ Crowd(su) = SumFunction(g)
  BY DEF Crowd, f, g
<1> QED BY <1>3, <1>5, <1>6 DEF su

LEMMA AboardChanges ==
  ASSUME NEW ts \in [SeatNumbers -> Trains], NEW i \in SeatNumbers, NEW x \in Trains
  PROVE  /\ Aboard(ts) \in Nat /\ Aboard([ts EXCEPT ![i] = x]) \in Nat
         /\ Aboard([ts EXCEPT ![i] = x]) - Len(x.passengers) = Aboard(ts) - Len(ts[i].passengers)
<1> DEFINE tt == [ts EXCEPT ![i] = x]
           f == [p \in SeatNumbers |-> Len(ts[p].passengers)]
           g == [p \in SeatNumbers |-> Len(tt[p].passengers)]
<1>1. \A y \in Trains : Len(y.passengers) \in Nat
  BY LenProperties DEF Trains
<1>2. tt \in [SeatNumbers -> Trains] /\ tt[i] = x /\ \A p \in SeatNumbers \ {i} : tt[p] = ts[p]
  OBVIOUS
<1> HIDE DEF tt
<1>3. f \in [SeatNumbers -> Nat] /\ g \in [SeatNumbers -> Nat] /\ f[i] = Len(ts[i].passengers)
      /\ g[i] = Len(x.passengers)
  BY <1>1, <1>2
<1>4. \A p \in SeatNumbers \ {i} : g[p] = f[p]
  BY <1>2
<1> HIDE DEF f, g
<1>5. SumFunction(f) \in Nat /\ SumFunction(g) \in Nat /\ SumFunction(g) - g[i] = SumFunction(f) - f[i]
  <2>1. IsFiniteSet(SeatNumbers) /\ f \in [SeatNumbers -> Nat] /\ g \in [SeatNumbers -> Nat]
    BY <1>3, NotNone
  <2> QED BY <2>1, <1>4, SumChanges
<1>6. Aboard(ts) = SumFunction(f) /\ Aboard(tt) = SumFunction(g)
  BY DEF Aboard, f, g
<1> QED BY <1>3, <1>5, <1>6 DEF tt
-----------------------------------------------------------------------------
(* Those who get off and those who ride on are all there were. *)
LEMMA RidesIs ==
  ASSUME NEW train \in Trains, NEW s
  PROVE  /\ Rides(train, s) \in Seq(Person) /\ Len(Rides(train, s)) \in Nat
         /\ IsFiniteSet(GetsOff(train, s)) /\ Cardinality(GetsOff(train, s)) \in Nat
         /\ Len(Rides(train, s)) + Cardinality(GetsOff(train, s)) = Len(train.passengers)
<1> DEFINE q == train.passengers
           n == Len(q)
           Off(k) == {j \in 1 .. k : q[j].destination = s}
           P == {y \in Seq(Person) \X Nat : Len(y[1]) + Cardinality(Off(y[2])) = y[2]}
           ask == [k \in DOMAIN q |-> [on \in Seq(Person) |->
                    IF k \in GetsOff(train, s) THEN on
                    ELSE <<[q[k] EXCEPT !.weight = @ + 1]>> \o on]]
<1>1. q \in Seq(Person) /\ n \in Nat /\ DOMAIN q = 1 .. n /\ \A k \in 1 .. n : q[k] \in Person
  BY LenProperties, ElementOfSeq DEF Trains
<1>2. \A k \in Nat : IsFiniteSet(Off(k)) /\ Cardinality(Off(k)) \in Nat
  <2> TAKE k \in Nat
  <2>1. IsFiniteSet(1 .. k)
    BY FS_Interval
  <2>2. Off(k) \subseteq 1 .. k
    OBVIOUS
  <2> HIDE DEF Off
  <2> QED BY <2>1, <2>2, FS_Subset, FS_CardinalityType
<1>3. <<(<<>>), 0>> \in P
  <2>1. Off(0) = {}
    OBVIOUS
  <2>2. Cardinality(Off(0)) = 0
    BY <2>1, FS_EmptySet
  <2>3. <<>> \in Seq(Person) /\ Len(<<>>) = 0
    BY EmptySeq
  <2> HIDE DEF Off
  <2> DEFINE e == <<>>
  <2> HIDE DEF e
  <2>4. <<e, 0>> \in P
    <3>1. e \in Seq(Person) /\ Len(e) = 0
      BY <2>3 DEF e
    <3>2. \A k \in Nat : Len(e) + Cardinality(Off(k)) = k => <<e, k>> \in P
      BY <3>1
    <3>3. Len(e) + Cardinality(Off(0)) = 0
      BY <2>2, <3>1
    <3> HIDE DEF P
    <3> QED BY <3>2, <3>3
  <2> QED BY <2>4 DEF e
<1> HIDE DEF P, ask
<1>4. \A k \in 1 .. n : \A x : <<x, k - 1>> \in P => <<ask[k][x], k>> \in P
  <2> TAKE k \in 1 .. n
  <2> TAKE x
  <2> HAVE <<x, k - 1>> \in P
  <2>1. k \in Nat /\ k - 1 \in Nat /\ k \in DOMAIN q
    BY <1>1
  <2>2. x \in Seq(Person) /\ Len(x) + Cardinality(Off(k - 1)) = k - 1
    <3> HIDE DEF Off
    <3> QED BY DEF P
  <2>3. Len(x) \in Nat /\ Cardinality(Off(k - 1)) \in Nat /\ IsFiniteSet(Off(k - 1))
    BY <1>2, <2>1, <2>2, LenProperties
  <2>4. k \in GetsOff(train, s) <=> q[k].destination = s
    BY <2>1 DEF GetsOff
  <2>5. ask[k][x] = IF k \in GetsOff(train, s) THEN x ELSE <<[q[k] EXCEPT !.weight = @ + 1]>> \o x
    <3> HIDE DEF n, q
    <3> QED BY <2>1, <2>2 DEF ask
  <2> DEFINE y == ask[k][x]
  <2>6. CASE q[k].destination = s
    <3>1. Off(k) = Off(k - 1) \cup {k} /\ k \notin Off(k - 1)
      BY <2>1, <2>6
    <3>2. Cardinality(Off(k - 1) \cup {k}) = Cardinality(Off(k - 1)) + 1
      <4> DEFINE O == Off(k - 1)
      <4>1. IsFiniteSet(O) /\ k \notin O /\ Cardinality(O) \in Nat
        BY <2>3, <3>1
      <4> HIDE DEF O
      <4> QED BY <4>1, FS_AddElement DEF O
    <3>3. y = x
      BY <2>4, <2>5, <2>6
    <3> HIDE DEF y, Off
    <3>4. Len(y) + Cardinality(Off(k)) = k
      BY <2>1, <2>2, <2>3, <3>1, <3>2, <3>3
    <3>5. <<y, k>> \in Seq(Person) \X Nat
      BY <2>1, <2>2, <3>3
    <3> QED BY <3>4, <3>5 DEF y, P
  <2>7. CASE q[k].destination # s
    <3>1. Off(k) = Off(k - 1)
      BY <2>1, <2>7
    <3> DEFINE e == [q[k] EXCEPT !.weight = @ + 1]
    <3>2. e \in Person
      <4> DEFINE p == q[k]
      <4>1. p \in Person
        BY <1>1
      <4> HIDE DEF p
      <4>2. [p EXCEPT !.weight = @ + 1] \in Person
        BY <4>1 DEF Person
      <4> QED BY <4>2 DEF p
    <3>3. y = <<e>> \o x
      BY <2>4, <2>5, <2>7
    <3> HIDE DEF y, Off, e
    <3>4. y \in Seq(Person) /\ Len(y) = 1 + Len(x)
      <4>1. <<e>> \in Seq(Person) /\ Len(<<e>>) = 1
        BY <3>2
      <4>2. <<e>> \o x \in Seq(Person) /\ Len(<<e>> \o x) = Len(<<e>>) + Len(x)
        BY <2>2, <4>1, ConcatProperties
      <4> QED BY <3>3, <4>1, <4>2
    <3>5. Len(y) + Cardinality(Off(k)) = k
      BY <2>1, <2>2, <2>3, <3>1, <3>4
    <3>6. <<y, k>> \in Seq(Person) \X Nat
      BY <2>1, <3>4
    <3> QED BY <3>5, <3>6 DEF y, P
  <2> QED BY <2>6, <2>7
<1>5. Rides(train, s) = Loop(ask, <<>>, n)
  BY DEF Rides, ask
<1>6. <<Rides(train, s), n>> \in P
  <2> HIDE DEF n, q
  <2>1. <<Loop(ask, <<>>, n), n>> \in P
    BY <1>1, <1>3, <1>4, LoopInvariant
  <2> QED BY <1>5, <2>1
<1>7. Rides(train, s) \in Seq(Person) /\ Len(Rides(train, s)) + Cardinality(Off(n)) = n
  <2> HIDE DEF Off, n, q
  <2> QED BY <1>6 DEF P
<1>8. GetsOff(train, s) = Off(n)
  BY <1>1 DEF GetsOff
<1>9. IsFiniteSet(Off(n)) /\ Cardinality(Off(n)) \in Nat
  BY <1>1, <1>2
<1>10. Len(Rides(train, s)) \in Nat
  BY <1>7, LenProperties
<1> QED BY <1>7, <1>8, <1>9, <1>10

(* Where a train is sent next is a place, or nowhere. *)
LEMMA HeaviestIs ==
  ASSUME NEW st, NEW q \in Seq(Person)
  PROVE  Heaviest(st, q) \in Places \cup {NONE}
<1> DEFINE add == [k \in DOMAIN q |-> [sum \in Sums |->
             LET p == q[k]
                 w == [sum.weights EXCEPT ![p.destination] = @ + p.weight]
             IN IF st[p.destination].serviced # NONE THEN sum
                ELSE [weights |-> w,
                      best |-> IF sum.best = NONE \/ w[p.destination] > w[sum.best]
                               THEN p.destination ELSE sum.best]]]
           n == Len(q)
           start == [weights |-> [s \in Places |-> 0], best |-> NONE]
<1>1. n \in Nat /\ DOMAIN q = 1 .. n /\ \A k \in 1 .. n : q[k] \in Person
  BY LenProperties, ElementOfSeq
<1>2. start \in Sums
  BY DEF Sums
<1>3. \A k \in 1 .. n : \A x \in Sums : add[k][x] \in Sums
  <2> TAKE k \in 1 .. n
  <2> TAKE x \in Sums
  <2> DEFINE p == q[k]
             w == [x.weights EXCEPT ![p.destination] = @ + p.weight]
             b == IF x.best = NONE \/ w[p.destination] > w[x.best] THEN p.destination ELSE x.best
  <2>1. p.destination \in Places /\ p.weight \in Nat
    BY <1>1 DEF Person
  <2>2. x.weights \in [Places -> Nat] /\ x.best \in Places \cup {NONE}
    BY DEF Sums
  <2>3. add[k][x] = IF st[p.destination].serviced # NONE THEN x ELSE [weights |-> w, best |-> b]
    <3>1. k \in DOMAIN q
      BY <1>1
    <3> HIDE DEF n
    <3> QED BY <3>1
  <2> HIDE DEF p, add
  <2>4. w \in [Places -> Nat]
    BY <2>1, <2>2
  <2>5. b \in Places \cup {NONE}
    BY <2>1, <2>2
  <2> HIDE DEF w, b
  <2>6. [weights |-> w, best |-> b] \in Sums
    BY <2>4, <2>5 DEF Sums
  <2> QED BY <2>3, <2>6
<1>4. Heaviest(st, q) = Loop(add, start, n).best
  BY DEF Heaviest
<1> HIDE DEF add, start, n
<1>5. Loop(add, start, n) \in Sums
  BY <1>1, <1>2, <1>3, LoopStays
<1> QED BY <1>4, <1>5 DEF Sums

LEMMA LeastOf ==
  ASSUME NEW T \in SUBSET Nat, T # {}
  PROVE  Min(T) \in T /\ \A m \in T : Min(T) <= m
<1>1. \E n \in T : \A m \in T : n <= m
  BY LeastNatural
<1> QED BY <1>1 DEF Min

LEMMA OptimalIs ==
  ASSUME NEW st, NEW q \in Seq(Person)
  PROVE  Optimal(st, q) \in Places \cup {NONE}
<1>1. Busiest(st) \in Places \cup {NONE}
  <2> DEFINE waits == {s \in Places : /\ st[s].active /\ st[s].waiting # <<>>
                                      /\ st[s].serviced = NONE}
             most  == {s \in waits : \A u \in waits : st[u].passengers <= st[s].passengers}
  <2>1. Busiest(st) = IF most = {} THEN NONE ELSE Min(most)
    BY DEF Busiest
  <2>2. most \subseteq Places
    OBVIOUS
  <2> HIDE DEF most
  <2>3. most # {} => Min(most) \in most
    BY <2>2, TransitAssumption, LeastOf
  <2> QED BY <2>1, <2>2, <2>3
<1>2. Heaviest(st, q) \in Places \cup {NONE}
  BY HeaviestIs
<1> QED BY <1>1, <1>2 DEF Optimal

-----------------------------------------------------------------------------
(* The handlers. *)
LEMMA CountsAreNatural ==
  ASSUME NEW st, GoodStations(st), NEW ts, GoodTrains(ts)
  PROVE  Crowd(st) \in Nat /\ Aboard(ts) \in Nat
<1>1. \A y \in Stations : Len(y.waiting) \in Nat
  BY LenProperties DEF Stations
<1>2. \A y \in Trains : Len(y.passengers) \in Nat
  BY LenProperties DEF Trains
<1> DEFINE f == [p \in Places |-> Len(st[p].waiting)]
           g == [p \in SeatNumbers |-> Len(ts[p].passengers)]
<1>3. f \in [Places -> Nat]
  BY <1>1 DEF GoodStations
<1>4. g \in [SeatNumbers -> Nat]
  BY <1>2 DEF GoodTrains
<1> HIDE DEF f, g
<1>5. IsFiniteSet(Places) /\ IsFiniteSet(SeatNumbers)
  BY NotNone
<1>6. SumFunction(f) \in Nat
  BY <1>3, <1>5, SumNatural
<1>7. SumFunction(g) \in Nat
  BY <1>4, <1>5, SumNatural
<1> QED BY <1>6, <1>7 DEF Crowd, Aboard, f, g

LEMMA SendKeeps ==
  ASSUME NEW st, NEW s \in Places, Sound(st, trains, route), Send(st, s)
  PROVE  /\ Sound(stations', trains', route') /\ Active(stations') = Active(st)
         /\ Crowd(stations') \in Nat /\ Aboard(trains') \in Nat
         /\ Crowd(stations') + Aboard(trains') = Crowd(st) + Aboard(trains)
<1>1. CASE Resting = {}
  <2>1. stations' = st /\ trains' = trains /\ route' = route
    BY <1>1 DEF Send
  <2>2. Sound(stations', trains', route') /\ Active(stations') = Active(st)
    BY <2>1
  <2>3. Crowd(st) \in Nat /\ Aboard(trains) \in Nat
    BY CountsAreNatural DEF Sound
  <2> QED BY <2>1, <2>2, <2>3
<1>2. CASE Resting # {}
  <2> DEFINE i == Min(Resting)
             x == [Boarded(trains[i], st[s]) EXCEPT !.destination = s]
             e == Emptied(st[s])
  <2>1. GoodStations(st) /\ GoodTrains(trains) /\ route \in [Numbers -> Places \cup {NONE}]
        /\ Routed(trains, route) /\ Serviced(st, trains)
    BY DEF Sound
  <2>2. st \in [Places -> Stations] /\ trains \in [SeatNumbers -> Trains]
    BY <2>1 DEF GoodStations, GoodTrains
  <2>3. i \in SeatNumbers /\ trains[i].tr # NONE /\ trains[i].destination = NONE
    <3>1. Resting \in SUBSET SeatNumbers /\ SeatNumbers \in SUBSET Nat
      BY <2>2 DEF Resting, SeatNumbers
    <3>2. Min(Resting) \in Resting
      BY <1>2, <3>1, LeastOf
    <3> QED BY <3>1, <3>2 DEF Resting
  <2>4. /\ trains' = [trains EXCEPT ![i] = x] /\ stations' = [st EXCEPT ![s] = e]
        /\ route' = [route EXCEPT ![trains[i].tr] = s]
    BY <1>2 DEF Send
  <2> HIDE DEF i
  <2>5. GoodTrain(trains[i], i) /\ GoodStation(st[s])
    BY <2>1, <2>3 DEF GoodTrains, GoodStations
  <2>6. /\ x \in Trains /\ x.tr = trains[i].tr /\ x.destination = s /\ x.onBoard = Len(x.passengers)
        /\ Len(x.passengers) = Len(trains[i].passengers) + Len(st[s].waiting)
    <3> DEFINE b == Boarded(trains[i], st[s])
    <3>1. /\ b \in Trains /\ b.tr = trains[i].tr /\ b.onBoard = Len(b.passengers)
          /\ Len(b.passengers) = Len(trains[i].passengers) + Len(st[s].waiting)
      BY <2>5, BoardedIs DEF GoodTrain, GoodStation
    <3> HIDE DEF b
    <3>2. /\ [b EXCEPT !.destination = s] \in Trains
          /\ [b EXCEPT !.destination = s].tr = b.tr /\ [b EXCEPT !.destination = s].destination = s
          /\ [b EXCEPT !.destination = s].onBoard = b.onBoard
          /\ [b EXCEPT !.destination = s].passengers = b.passengers
      BY <3>1 DEF Trains
    <3> QED BY <3>1, <3>2 DEF b
  <2>7. /\ GoodStation(e) /\ e.active = st[s].active /\ e.serviced = st[s].serviced /\ Len(e.waiting) = 0
    BY <2>5, EmptiedIs
  <2> HIDE DEF x, e
  <2>8. x.tr \in Numbers /\ Seat(x.tr) = i
    BY <2>3, <2>5, <2>6 DEF GoodTrain, Trains
  <2>9. GoodStations(stations')
    <3>1. e \in Stations
      BY <2>7 DEF GoodStation
    <3> QED BY <2>1, <2>2, <2>4, <2>7, <3>1 DEF GoodStations
  <2>10. GoodTrains(trains')
    <3>1. GoodTrain(x, i)
      BY <2>6, <2>8, NotNone DEF GoodTrain
    <3>2. \A j \in SeatNumbers : GoodTrain(trains'[j], j)
      BY <2>1, <2>2, <2>4, <3>1 DEF GoodTrains
    <3> QED BY <2>2, <2>4, <2>6, <3>2 DEF GoodTrains
  <2>11. route' \in [Numbers -> Places \cup {NONE}] /\ route'[x.tr] = s
         /\ \A tr \in Numbers \ {x.tr} : route'[tr] = route[tr]
    BY <2>1, <2>4, <2>6, <2>8
  <2>12. Routed(trains', route')
    <3> SUFFICES ASSUME NEW j \in SeatNumbers, trains'[j].destination # NONE
                 PROVE  route'[trains'[j].tr] = trains'[j].destination
      BY DEF Routed
    <3>1. CASE j = i
      BY <2>2, <2>4, <2>6, <2>11, <3>1
    <3>2. CASE j # i
      <4>1. trains'[j] = trains[j]
        BY <2>2, <2>4, <3>2
      <4>2. trains[j].tr \in Numbers /\ Seat(trains[j].tr) = j
        BY <2>1, <4>1 DEF GoodTrains, GoodTrain, Trains
      <4>3. trains[j].tr # x.tr
        BY <2>8, <3>2, <4>2
      <4>4. route[trains[j].tr] = trains[j].destination
        BY <2>1, <4>1 DEF Routed
      <4> QED BY <2>11, <4>1, <4>2, <4>3, <4>4
    <3> QED BY <3>1, <3>2
  <2>13. \A p \in Places : stations'[p].serviced = st[p].serviced /\ stations'[p].active = st[p].active
    BY <2>2, <2>4, <2>7
  <2>14. Serviced(stations', trains')
    <3> SUFFICES ASSUME NEW p \in Places, stations'[p].serviced # NONE
                 PROVE  /\ trains'[Seat(stations'[p].serviced)].tr = stations'[p].serviced
                        /\ trains'[Seat(stations'[p].serviced)].destination = p
      BY DEF Serviced
    <3> DEFINE u == st[p].serviced
    <3>1. stations'[p].serviced = u /\ u # NONE /\ trains[Seat(u)].tr = u /\ trains[Seat(u)].destination = p
      BY <2>1, <2>13 DEF Serviced
    <3>2. u \in Numbers
      BY <2>2, <3>1 DEF Stations
    <3> HIDE DEF u
    <3>3. Seat(u) \in SeatNumbers
      BY <3>2, SeatInRange
    <3>4. Seat(u) # i
      BY <2>3, <3>1, NotNone
    <3>5. trains'[Seat(u)] = trains[Seat(u)]
      BY <2>2, <2>4, <3>3, <3>4
    <3> QED BY <3>1, <3>5
  <2>15. Sound(stations', trains', route')
    BY <2>9, <2>10, <2>11, <2>12, <2>14 DEF Sound
  <2>16. Active(stations') = Active(st)
    BY <2>13 DEF Active
  <2>17. Crowd(st) \in Nat /\ Crowd(stations') \in Nat
         /\ Crowd(stations') - Len(e.waiting) = Crowd(st) - Len(st[s].waiting)
    <3>1. e \in Stations
      BY <2>7 DEF GoodStation
    <3> QED BY <2>2, <2>4, <3>1, CrowdChanges
  <2>18. Aboard(trains) \in Nat /\ Aboard(trains') \in Nat
         /\ Aboard(trains') - Len(x.passengers) = Aboard(trains) - Len(trains[i].passengers)
    BY <2>2, <2>3, <2>4, <2>6, AboardChanges
  <2>19. Len(st[s].waiting) \in Nat /\ Len(trains[i].passengers) \in Nat
    BY <2>2, <2>3, LenProperties DEF Stations, Trains
  <2>20. Crowd(stations') + Aboard(trains') = Crowd(st) + Aboard(trains)
    <3>1. Len(e.waiting) = 0 /\ Len(x.passengers) = Len(trains[i].passengers) + Len(st[s].waiting)
      BY <2>6, <2>7
    <3> DEFINE a == Len(trains[i].passengers)
               b == Len(st[s].waiting)
    <3>2. /\ a \in Nat /\ b \in Nat /\ Crowd(stations') = Crowd(st) - b
          /\ Aboard(trains') = Aboard(trains) + b
      <4>1. Crowd(stations') - 0 = Crowd(st) - b /\ Aboard(trains') - (a + b) = Aboard(trains) - a
        BY <2>17, <2>18, <3>1
      <4>2. a \in Nat /\ b \in Nat
        BY <2>19
      <4>3. Crowd(st) \in Nat /\ Crowd(stations') \in Nat /\ Aboard(trains) \in Nat /\ Aboard(trains') \in Nat
        BY <2>17, <2>18
      <4> HIDE DEF a, b
      <4>4. Crowd(stations') = Crowd(st) - b
        BY <4>1, <4>2, <4>3
      <4>5. Aboard(trains') = Aboard(trains) + b
        BY <4>1, <4>2, <4>3
      <4> QED BY <4>2, <4>4, <4>5
    <3>3. Crowd(st) \in Nat /\ Aboard(trains) \in Nat
      BY <2>17, <2>18
    <3> HIDE DEF a, b
    <3> QED BY <3>2, <3>3
  <2> QED BY <2>15, <2>16, <2>17, <2>18, <2>20
<1> QED BY <1>1, <1>2


(* What a handler leaves: everybody is counted, and no more may be taken than
   there are. *)
Counted(all) ==
  /\ free' \in Int /\ people' \in Int /\ 0 <= people' /\ people' <= free'
  /\ free' + Crowd(stations') + Aboard(trains') = all

LEMMA NewStation ==
  ASSUME NEW st, GoodStations(st), NEW s \in Places, NEW x, GoodStation(x),
         x.serviced = st[s].serviced, NEW ts, GoodTrains(ts), Serviced(st, ts)
  PROVE  /\ GoodStations([st EXCEPT ![s] = x]) /\ Serviced([st EXCEPT ![s] = x], ts)
         /\ Crowd([st EXCEPT ![s] = x]) - Len(x.waiting) = Crowd(st) - Len(st[s].waiting)
         /\ Crowd([st EXCEPT ![s] = x]) \in Nat /\ Crowd(st) \in Nat
         /\ Len(x.waiting) \in Nat /\ Len(st[s].waiting) \in Nat
<1> DEFINE su == [st EXCEPT ![s] = x]
<1>1. st \in [Places -> Stations] /\ x \in Stations /\ st[s] \in Stations
  BY DEF GoodStations, GoodStation
<1>2. Len(x.waiting) \in Nat /\ Len(st[s].waiting) \in Nat
  BY <1>1, LenProperties DEF Stations
<1>3. Crowd(su) - Len(x.waiting) = Crowd(st) - Len(st[s].waiting) /\ Crowd(su) \in Nat /\ Crowd(st) \in Nat
  BY <1>1, CrowdChanges
<1>4. GoodStations(su)
  BY <1>1 DEF GoodStations
<1>5. \A p \in Places : su[p].serviced = st[p].serviced
  BY <1>1
<1> HIDE DEF su
<1>6. Serviced(su, ts)
  BY <1>5 DEF Serviced
<1> QED BY <1>2, <1>3, <1>4, <1>6 DEF su

LEMMA GenerateKeeps ==
  ASSUME NEW st, NEW s \in Places, Sound(st, trains, route), st[s].active,
         people \in Int, free \in Int, 0 <= people, people <= free,
         NEW k \in Nat, k <= people, Generate(st, s, k)
  PROVE  /\ Sound(stations', trains', route') /\ Active(stations') = Active(st)
         /\ Counted(free + Crowd(st) + Aboard(trains))
<1>1. GoodStations(st) /\ GoodTrains(trains) /\ route \in [Numbers -> Places \cup {NONE}]
      /\ Routed(trains, route) /\ Serviced(st, trains) /\ GoodStation(st[s])
  BY DEF Sound, GoodStations
<1>2. Crowd(st) \in Nat /\ Aboard(trains) \in Nat
  BY <1>1, CountsAreNatural
<1>3. ASSUME NEW x, GoodStation(x), x.serviced = st[s].serviced, x.active = st[s].active,
             Send([st EXCEPT ![s] = x], s), NEW n \in Nat, Len(x.waiting) = Len(st[s].waiting) + n,
             NEW m \in Nat, n <= m, m <= people, people' = people - m, free' = free - n
      PROVE  /\ Sound(stations', trains', route') /\ Active(stations') = Active(st)
             /\ Counted(free + Crowd(st) + Aboard(trains))
  <2> DEFINE su == [st EXCEPT ![s] = x]
             w == Len(st[s].waiting)
  <2>1. /\ GoodStations(su) /\ Serviced(su, trains)
        /\ Crowd(su) - Len(x.waiting) = Crowd(st) - w
        /\ Crowd(su) \in Nat /\ Len(x.waiting) \in Nat /\ w \in Nat
    BY <1>1, <1>3, NewStation
  <2>2. Active(su) = Active(st)
    BY <1>1, <1>3 DEF Active, GoodStations
  <2> HIDE DEF su, w
  <2>3. Sound(su, trains, route)
    BY <1>1, <2>1 DEF Sound
  <2>4. Send(su, s)
    BY <1>3 DEF su
  <2>5. /\ Sound(stations', trains', route') /\ Active(stations') = Active(su)
        /\ Crowd(stations') \in Nat /\ Aboard(trains') \in Nat
        /\ Crowd(stations') + Aboard(trains') = Crowd(su) + Aboard(trains)
    BY <2>3, <2>4, SendKeeps
  <2>6. Crowd(su) = Crowd(st) + n
    <3>1. Len(x.waiting) = w + n
      BY <1>3 DEF w
    <3>2. Crowd(su) - (w + n) = Crowd(st) - w
      BY <2>1, <3>1
    <3>3. Crowd(su) \in Nat /\ w \in Nat
      BY <2>1
    <3>4. Crowd(st) \in Nat
      BY <1>2
    <3> QED BY <3>2, <3>3, <3>4
  <2>7. free' \in Int /\ people' \in Int /\ 0 <= people' /\ people' <= free'
    BY <1>3
  <2>8. free' + Crowd(stations') + Aboard(trains') = free + Crowd(st) + Aboard(trains)
    <3>1. Crowd(stations') + Aboard(trains') = Crowd(st) + n + Aboard(trains)
      BY <2>5, <2>6
    <3>2. free' = free - n
      BY <1>3
    <3>3. Crowd(stations') \in Nat /\ Aboard(trains') \in Nat
      BY <2>5
    <3> QED BY <1>2, <3>1, <3>2, <3>3
  <2> QED BY <2>2, <2>5, <2>7, <2>8 DEF Counted
<1>4. CASE k = 0 \/ Open(st) # {}
  <2>1. PICK to \in [1 .. k -> Open(st)] :
          LET new == [i \in 1 .. k |-> [destination |-> to[i], weight |-> 1]] IN
          /\ Send([st EXCEPT ![s].waiting = new \o @, ![s].passengers = @ + k], s)
          /\ people' = people - k /\ free' = free - k
    BY <1>4 DEF Generate
  <2> DEFINE new == [i \in 1 .. k |-> [destination |-> to[i], weight |-> 1]]
             old == st[s].waiting
             both == new \o old
             x == [st[s] EXCEPT !.waiting = both, !.passengers = @ + k]
  <2>2. Send([st EXCEPT ![s].waiting = both, ![s].passengers = @ + k], s)
        /\ people' = people - k /\ free' = free - k
    BY <2>1
  <2>3. new \in [1 .. k -> Person]
    <3>1. \A i \in 1 .. k : to[i] \in Places
      BY DEF Open
    <3>2. \A p \in Places : [destination |-> p, weight |-> 1] \in Person
      BY DEF Person
    <3> QED BY <3>1, <3>2
  <2>4. old \in Seq(Person) /\ Len(old) \in Nat
    BY <1>1, LenProperties DEF GoodStation, Stations
  <2>5. new \in Seq(Person) /\ Len(new) = k
    <3> HIDE DEF new
    <3> QED BY <2>3, IsASeq, LenProperties
  <2>6. both \in Seq(Person) /\ Len(both) = k + Len(old)
    <3> HIDE DEF new, old
    <3>1. new \o old \in Seq(Person) /\ Len(new \o old) = Len(new) + Len(old)
      BY <2>4, <2>5, ConcatProperties
    <3> QED BY <2>5, <3>1
  <2>7. [st EXCEPT ![s].waiting = both, ![s].passengers = @ + k] = [st EXCEPT ![s] = x]
    <3> HIDE DEF both
    <3> QED BY <1>1 DEF GoodStations, Stations
  <2> HIDE DEF both, new
  <2>8. x \in Stations /\ x.waiting = both /\ x.passengers = st[s].passengers + k
        /\ x.serviced = st[s].serviced /\ x.active = st[s].active
    <3> DEFINE y == st[s]
    <3>1. y \in Stations
      BY <1>1 DEF GoodStation
    <3>2. x = [y EXCEPT !.waiting = both, !.passengers = @ + k]
      OBVIOUS
    <3> HIDE DEF x, y
    <3>3. both \in Seq(Person) /\ y.passengers + k \in Nat
      BY <2>6, <3>1 DEF Stations
    <3>4. x.waiting = both /\ x.passengers = y.passengers + k
          /\ x.serviced = y.serviced /\ x.active = y.active
      BY <3>1, <3>2 DEF Stations
    <3>5. x \in Stations
      BY <3>1, <3>2, <3>3 DEF Stations
    <3> QED BY <3>4, <3>5 DEF y
  <2> HIDE DEF x
  <2>9. GoodStation(x)
    <3>1. x.passengers >= Len(x.waiting)
      <4>1. st[s].passengers >= Len(old) /\ st[s].passengers \in Nat
        BY <1>1 DEF GoodStation, Stations
      <4> HIDE DEF old
      <4> QED BY <2>4, <2>6, <2>8, <4>1
    <3> QED BY <2>8, <3>1 DEF GoodStation
  <2>10. Len(x.waiting) = Len(st[s].waiting) + k
    <3> HIDE DEF old
    <3>1. Len(x.waiting) = Len(old) + k
      BY <2>4, <2>6, <2>8
    <3> QED BY <3>1 DEF old
  <2>11. Send([st EXCEPT ![s] = x], s)
    BY <2>2, <2>7
  <2>12. people' = people - k /\ free' = free - k /\ k <= k
    BY <2>2
  <2>13. x.serviced = st[s].serviced /\ x.active = st[s].active
    BY <2>8
  <2> QED BY <1>3, <2>9, <2>10, <2>11, <2>12, <2>13
<1>5. CASE ~(k = 0 \/ Open(st) # {})
  <2> DEFINE x == [st[s] EXCEPT !.passengers = @ + 1]
  <2>1. Send([st EXCEPT ![s].passengers = @ + 1], s) /\ people' = people - 1 /\ free' = free
    BY <1>5 DEF Generate
  <2>2. [st EXCEPT ![s].passengers = @ + 1] = [st EXCEPT ![s] = x]
    OBVIOUS
  <2>3. x \in Stations /\ x.waiting = st[s].waiting /\ x.passengers = st[s].passengers + 1
        /\ x.serviced = st[s].serviced /\ x.active = st[s].active
    <3> DEFINE y == st[s]
    <3>1. y \in Stations
      BY <1>1 DEF GoodStation
    <3>2. x = [y EXCEPT !.passengers = @ + 1]
      OBVIOUS
    <3> HIDE DEF x, y
    <3>3. x \in Stations /\ x.waiting = y.waiting /\ x.passengers = y.passengers + 1
          /\ x.serviced = y.serviced /\ x.active = y.active
      BY <3>1, <3>2 DEF Stations
    <3> QED BY <3>3 DEF y
  <2>4. Len(st[s].waiting) \in Nat /\ st[s].passengers \in Nat /\ st[s].passengers >= Len(st[s].waiting)
    BY <1>1, LenProperties DEF GoodStation, Stations
  <2> HIDE DEF x
  <2>5. GoodStation(x)
    <3>1. x.passengers >= Len(x.waiting)
      BY <2>3, <2>4
    <3> QED BY <2>3, <3>1 DEF GoodStation
  <2>6. Len(x.waiting) = Len(st[s].waiting) + 0 /\ free' = free - 0 /\ 0 <= 1 /\ 1 <= people
    BY <1>5, <2>1, <2>3, <2>4
  <2>7. Send([st EXCEPT ![s] = x], s)
    BY <2>1, <2>2
  <2> QED BY <1>3, <2>1, <2>3, <2>5, <2>6, <2>7
<1> QED BY <1>4, <1>5


LEMMA HeldAgain ==
  ASSUME Sound(stations', trains', route'), Counted(MaxPeople), count' = Cardinality(Active(stations'))
  PROVE  Held'
BY DEF Held, Counted

LEMMA LeftIs ==
  ASSUME people \in Int, 0 <= people, NEW k \in Nat
  PROVE  Left(k) \in Nat /\ Left(k) <= people
<1>1. Min({people, k}) = IF people <= k THEN people ELSE k
  BY DEF Min
<1> QED BY <1>1 DEF Left

LEMMA ActiveFinite == ASSUME NEW st PROVE IsFiniteSet(Active(st)) /\ Cardinality(Active(st)) \in Nat
<1>1. Active(st) \subseteq Places
  BY DEF Active
<1> QED BY <1>1, NotNone, FS_Subset, FS_CardinalityType

LEMMA SpawnHeld ==
  ASSUME Held, NEW s \in Places, NEW k \in Groups, Spawn(s, k)
  PROVE  Held'
<1> DEFINE x == [stations[s] EXCEPT !.active = TRUE]
           st == [stations EXCEPT ![s] = x]
<1>1. /\ GoodStations(stations) /\ GoodTrains(trains) /\ route \in [Numbers -> Places \cup {NONE}]
      /\ Routed(trains, route) /\ Serviced(stations, trains) /\ GoodStation(stations[s])
  BY DEF Held, Sound, GoodStations
<1>2. x.active = TRUE /\ x.serviced = stations[s].serviced /\ x.waiting = stations[s].waiting /\ GoodStation(x)
  <2> DEFINE y == stations[s]
  <2>1. GoodStation(y) /\ x = [y EXCEPT !.active = TRUE]
    BY <1>1
  <2> HIDE DEF x, y
  <2>2. x.active = TRUE /\ x.serviced = y.serviced /\ x.waiting = y.waiting /\ x.passengers = y.passengers
    BY <2>1 DEF GoodStation, Stations
  <2>3. x \in Stations
    BY <2>1 DEF GoodStation, Stations
  <2> QED BY <2>1, <2>2, <2>3 DEF GoodStation, y
<1>3. [stations EXCEPT ![s].active = TRUE] = st
  OBVIOUS
<1> HIDE DEF x
<1>4. GoodStations(st) /\ Serviced(st, trains) /\ Crowd(st) = Crowd(stations)
  <2>1. /\ GoodStations(st) /\ Serviced(st, trains)
        /\ Crowd(st) - Len(x.waiting) = Crowd(stations) - Len(stations[s].waiting)
        /\ Crowd(st) \in Nat /\ Crowd(stations) \in Nat /\ Len(x.waiting) \in Nat
    BY <1>1, <1>2, NewStation
  <2> HIDE DEF st
  <2> DEFINE w == Len(x.waiting)
  <2>2. Crowd(st) - w = Crowd(stations) - w /\ Crowd(st) \in Nat /\ Crowd(stations) \in Nat /\ w \in Nat
    BY <1>2, <2>1
  <2> HIDE DEF w
  <2>3. Crowd(st) = Crowd(stations)
    BY <2>2
  <2> QED BY <2>1, <2>3
<1>5. st[s].active /\ s \notin Active(stations) /\ Active(st) = Active(stations) \cup {s}
  BY <1>1, <1>2 DEF GoodStations, Active, Spawn
<1> HIDE DEF st
<1>6. Sound(st, trains, route)
  BY <1>1, <1>4 DEF Sound
<1>7. count' = Cardinality(Active(st))
  <2>1. count' = Cardinality(Active(stations)) + 1
    BY DEF Spawn, Held
  <2>2. Cardinality(Active(stations) \cup {s}) = Cardinality(Active(stations)) + 1
    BY <1>5, ActiveFinite, FS_AddElement
  <2> QED BY <1>5, <2>1, <2>2
<1>8. people \in Int /\ free \in Int /\ 0 <= people /\ people <= free /\ k \in Nat
      /\ free + Crowd(st) + Aboard(trains) = MaxPeople
  BY <1>4, TransitAssumption DEF Held
<1>9. CASE count = 0
  <2>1. Send(st, s) /\ people' = people /\ free' = free
    BY <1>3, <1>9 DEF Spawn
  <2>2. /\ Sound(stations', trains', route') /\ Active(stations') = Active(st)
        /\ Crowd(stations') \in Nat /\ Aboard(trains') \in Nat
        /\ Crowd(stations') + Aboard(trains') = Crowd(st) + Aboard(trains)
    BY <1>6, <2>1, SendKeeps
  <2>3. Counted(MaxPeople)
    <3>1. Crowd(st) \in Nat /\ Aboard(trains) \in Nat
      BY <1>1, <1>4, CountsAreNatural
    <3>2. free + Crowd(stations') + Aboard(trains') = MaxPeople
      BY <1>8, <2>2, <3>1
    <3> QED BY <1>8, <2>1, <3>2 DEF Counted
  <2> QED BY <1>7, <2>2, <2>3, HeldAgain
<1>10. CASE count # 0
  <2>1. Generate(st, s, Left(k))
    BY <1>3, <1>10 DEF Spawn
  <2>2. Left(k) \in Nat /\ Left(k) <= people
    BY <1>8, LeftIs
  <2>3. /\ Sound(stations', trains', route') /\ Active(stations') = Active(st)
        /\ Counted(free + Crowd(st) + Aboard(trains))
    BY <1>5, <1>6, <1>8, <2>1, <2>2, GenerateKeeps
  <2> QED BY <1>7, <1>8, <2>3, HeldAgain
<1> QED BY <1>9, <1>10

LEMMA AddPassengersHeld ==
  ASSUME Held, NEW s \in Places, NEW k \in Groups, AddPassengers(s, k)
  PROVE  Held'
<1>1. Sound(stations, trains, route) /\ stations[s].active /\ Generate(stations, s, Left(k)) /\ count' = count
  BY DEF Held, AddPassengers
<1>2. people \in Int /\ free \in Int /\ 0 <= people /\ people <= free /\ k \in Nat
      /\ free + Crowd(stations) + Aboard(trains) = MaxPeople /\ count = Cardinality(Active(stations))
  BY TransitAssumption DEF Held
<1>3. Left(k) \in Nat /\ Left(k) <= people
  BY <1>2, LeftIs
<1>4. /\ Sound(stations', trains', route') /\ Active(stations') = Active(stations)
      /\ Counted(free + Crowd(stations) + Aboard(trains))
  BY <1>1, <1>2, <1>3, GenerateKeeps
<1> QED BY <1>1, <1>2, <1>4, HeldAgain

LEMMA RemoveStationHeld ==
  ASSUME Held, NEW s \in Places, RemoveStation(s)
  PROVE  Held'
<1> DEFINE e == Emptied(stations[s])
           x == [e EXCEPT !.active = FALSE]
           w == Len(stations[s].waiting)
<1>1. /\ GoodStations(stations) /\ GoodTrains(trains) /\ route \in [Numbers -> Places \cup {NONE}]
      /\ Routed(trains, route) /\ Serviced(stations, trains) /\ GoodStation(stations[s])
  BY DEF Held, Sound, GoodStations
<1>2. x.active = FALSE /\ x.serviced = stations[s].serviced /\ Len(x.waiting) = 0 /\ GoodStation(x)
  <2>1. GoodStation(e) /\ e.serviced = stations[s].serviced /\ e.waiting = <<>> /\ Len(e.waiting) = 0
    BY <1>1, EmptiedIs
  <2> HIDE DEF e
  <2>2. x.active = FALSE /\ x.serviced = e.serviced /\ x.waiting = e.waiting /\ x.passengers = e.passengers
        /\ x \in Stations
    BY <2>1 DEF GoodStation, Stations
  <2> HIDE DEF x
  <2> QED BY <2>1, <2>2 DEF GoodStation
<1>3. /\ stations' = [stations EXCEPT ![s] = x] /\ free' = free + w /\ people' = people + w
      /\ count' = count - 1 /\ trains' = trains /\ route' = route
  BY DEF RemoveStation
<1> HIDE DEF x
<1>4. /\ GoodStations(stations') /\ Serviced(stations', trains)
      /\ Crowd(stations') - Len(x.waiting) = Crowd(stations) - w
      /\ Crowd(stations') \in Nat /\ Crowd(stations) \in Nat /\ w \in Nat
  BY <1>1, <1>2, <1>3, NewStation
<1>5. s \in Active(stations) /\ Active(stations') = Active(stations) \ {s}
  BY <1>1, <1>2, <1>3 DEF GoodStations, Active, RemoveStation
<1>6. Sound(stations', trains', route')
  BY <1>1, <1>3, <1>4 DEF Sound
<1>7. count' = Cardinality(Active(stations'))
  <2>1. Cardinality(Active(stations) \ {s}) =
          IF s \in Active(stations) THEN Cardinality(Active(stations)) - 1 ELSE Cardinality(Active(stations))
    BY ActiveFinite, FS_RemoveElement
  <2>2. count = Cardinality(Active(stations))
    BY DEF Held
  <2> QED BY <1>3, <1>5, <2>1, <2>2
<1>8. Counted(MaxPeople)
  <2> HIDE DEF w
  <2>1. people \in Int /\ free \in Int /\ 0 <= people /\ people <= free /\ Aboard(trains) \in Nat
        /\ free + Crowd(stations) + Aboard(trains) = MaxPeople
    BY <1>1, CountsAreNatural DEF Held
  <2>2. Crowd(stations') = Crowd(stations) - w
    BY <1>2, <1>4
  <2>3. free' \in Int /\ people' \in Int /\ 0 <= people' /\ people' <= free'
    BY <1>3, <1>4, <2>1
  <2>4. free' + Crowd(stations') + Aboard(trains') = MaxPeople
    BY <1>3, <1>4, <2>1, <2>2
  <2> QED BY <2>3, <2>4 DEF Counted
<1> QED BY <1>6, <1>7, <1>8, HeldAgain


(* Without stations and trains. *)
LEMMA NothingIs ==
  ASSUME NEW rt \in [Numbers -> Places \cup {NONE}]
  PROVE  LET st == [s \in Places |-> NoStation]
             ts == [i \in SeatNumbers |-> NoTrain]
         IN  Sound(st, ts, rt) /\ Crowd(st) = 0 /\ Aboard(ts) = 0 /\ Cardinality(Active(st)) = 0
<1> DEFINE st == [s \in Places |-> NoStation]
           ts == [i \in SeatNumbers |-> NoTrain]
           f == [s \in Places |-> Len(st[s].waiting)]
           g == [i \in SeatNumbers |-> Len(ts[i].passengers)]
<1>1. <<>> \in Seq(Person) /\ Len(<<>>) = 0
  BY EmptySeq
<1>2. NoStation \in Stations /\ GoodStation(NoStation) /\ NoStation.serviced = NONE /\ ~NoStation.active
      /\ Len(NoStation.waiting) = 0
  BY <1>1 DEF NoStation, GoodStation, Stations
<1>3. \A i : NoTrain \in Trains /\ GoodTrain(NoTrain, i) /\ NoTrain.destination = NONE /\ Len(NoTrain.passengers) = 0
  BY <1>1 DEF NoTrain, GoodTrain, Trains
<1>4. st \in [Places -> Stations] /\ \A s \in Places : st[s] = NoStation
  BY <1>2
<1>5. ts \in [SeatNumbers -> Trains] /\ \A i \in SeatNumbers : ts[i] = NoTrain
  BY <1>3
<1> HIDE DEF st, ts
<1>6. GoodStations(st) /\ Serviced(st, ts)
  BY <1>2, <1>4 DEF GoodStations, Serviced
<1>7. GoodTrains(ts) /\ Routed(ts, rt)
  BY <1>3, <1>5 DEF GoodTrains, Routed
<1>8. Crowd(st) = 0
  <2>1. f \in [Places -> Nat] /\ \A s \in Places : f[s] = 0
    BY <1>2, <1>4
  <2> HIDE DEF f
  <2>2. IsFiniteSet(Places)
    BY NotNone
  <2>3. SumFunction(f) = 0
    BY <2>1, <2>2, SumOfNone
  <2> QED BY <2>3 DEF Crowd, f
<1>9. Aboard(ts) = 0
  <2>1. g \in [SeatNumbers -> Nat] /\ \A i \in SeatNumbers : g[i] = 0
    BY <1>3, <1>5
  <2> HIDE DEF g
  <2>2. IsFiniteSet(SeatNumbers)
    BY NotNone
  <2>3. SumFunction(g) = 0
    BY <2>1, <2>2, SumOfNone
  <2> QED BY <2>3 DEF Aboard, g
<1>10. Active(st) = {}
  BY <1>2, <1>4 DEF Active
<1>11. Cardinality(Active(st)) = 0
  BY <1>10, FS_EmptySet
<1> QED BY <1>6, <1>7, <1>8, <1>9, <1>11 DEF Sound, st, ts

LEMMA InitHolds == Init => TransitInv
<1> SUFFICES ASSUME Init PROVE TransitInv
  OBVIOUS
<1> DEFINE st == [s \in Places |-> NoStation]
           ts == [i \in SeatNumbers |-> NoTrain]
           rt == [tr \in Numbers |-> NONE]
<1>1. stations = st /\ trains = ts /\ route = rt
  BY DEF Init, SeatNumbers
<1>2. rt \in [Numbers -> Places \cup {NONE}]
  OBVIOUS
<1>3. Sound(st, ts, rt) /\ Crowd(st) = 0 /\ Aboard(ts) = 0 /\ Cardinality(Active(st)) = 0
  BY <1>2, NothingIs
<1> HIDE DEF st, ts, rt
<1>4. count = 0 /\ free = MaxPeople /\ people = MaxPeople /\ fuel = Requests
      /\ MaxPeople \in Nat /\ Requests \in Nat
  BY TransitAssumption DEF Init
<1>5. free + Crowd(stations) + Aboard(trains) = MaxPeople
  <2>1. free + 0 + 0 = MaxPeople
    BY <1>4
  <2> QED BY <1>1, <1>3, <2>1
<1>6. Sound(stations, trains, route) /\ count = Cardinality(Active(stations))
  BY <1>1, <1>3, <1>4
<1>7. free \in Int /\ people \in Int /\ 0 <= people /\ people <= free /\ fuel \in 0 .. Requests
  BY <1>4
<1> QED BY <1>5, <1>6, <1>7 DEF TransitInv, Held

LEMMA ShutdownHeld == ASSUME Held, Shutdown PROVE Held'
<1> DEFINE st == [s \in Places |-> NoStation]
           ts == [i \in SeatNumbers |-> NoTrain]
<1>1. GoodTrains(trains) /\ GoodStations(stations) /\ route \in [Numbers -> Places \cup {NONE}]
  BY DEF Held, Sound
<1>2. DOMAIN trains = SeatNumbers
  BY <1>1 DEF GoodTrains
<1>3. stations' = st /\ trains' = ts /\ free' = MaxPeople /\ count' = 0 /\ people' = people /\ route' = route
  BY <1>2 DEF Shutdown
<1>4. Sound(st, ts, route) /\ Crowd(st) = 0 /\ Aboard(ts) = 0 /\ Cardinality(Active(st)) = 0
  BY <1>1, NothingIs
<1> HIDE DEF st, ts
<1>5. Sound(stations', trains', route') /\ count' = Cardinality(Active(stations'))
  BY <1>3, <1>4
<1>6. Counted(MaxPeople)
  <2>1. Crowd(stations) \in Nat /\ Aboard(trains) \in Nat
    BY <1>1, CountsAreNatural
  <2>2. people \in Int /\ free \in Int /\ 0 <= people /\ people <= free /\ MaxPeople \in Nat
        /\ free + Crowd(stations) + Aboard(trains) = MaxPeople
    BY NotNone DEF Held
  <2>3. people <= MaxPeople
    BY <2>1, <2>2
  <2>4. free' + 0 + 0 = MaxPeople
    BY <1>3, <2>2
  <2>5. free' + Crowd(stations') + Aboard(trains') = MaxPeople
    BY <1>3, <1>4, <2>4
  <2> QED BY <1>3, <2>2, <2>3, <2>5 DEF Counted
<1> QED BY <1>5, <1>6, HeldAgain

LEMMA GotoHeld ==
  ASSUME Held, NEW tr \in Numbers, NEW s \in Places \cup {NONE},
         route[tr] = NONE \/ trains[Seat(tr)].tr # tr,
         route' = [route EXCEPT ![tr] = s], UNCHANGED system
  PROVE  Held'
<1>1. /\ GoodStations(stations) /\ GoodTrains(trains) /\ route \in [Numbers -> Places \cup {NONE}]
      /\ Routed(trains, route) /\ Serviced(stations, trains)
  BY DEF Held, Sound
<1>2. stations' = stations /\ trains' = trains /\ count' = count /\ free' = free /\ people' = people
  BY DEF system
<1>3. Routed(trains, route')
  <2> SUFFICES ASSUME NEW i \in SeatNumbers, trains[i].destination # NONE
               PROVE  route'[trains[i].tr] = trains[i].destination
    BY DEF Routed
  <2>1. trains[i].tr \in Numbers /\ Seat(trains[i].tr) = i
    BY <1>1 DEF GoodTrains, GoodTrain, Trains
  <2>2. route[trains[i].tr] = trains[i].destination
    BY <1>1 DEF Routed
  <2>3. trains[i].tr # tr
    BY <2>1, <2>2
  <2> QED BY <1>1, <2>1, <2>2, <2>3
<1>4. route' \in [Numbers -> Places \cup {NONE}]
  BY <1>1
<1>5. Sound(stations', trains', route')
  BY <1>1, <1>2, <1>3, <1>4 DEF Sound
<1> QED BY <1>2, <1>5 DEF Held


(* A train that comes to s, where it was sent if anybody sent it. *)
LEMMA ArriveHeld ==
  ASSUME Held, NEW tr \in Numbers, NEW s \in Places, route[tr] \in {s, NONE},
         trains[Seat(tr)].tr \in {tr, NONE},
         Arrive(tr, s, [stations EXCEPT ![s].serviced = NONE]),
         people' = people, count' = count
  PROVE  Held'
<1> DEFINE st    == [stations EXCEPT ![s].serviced = NONE]
           i     == Seat(tr)
           seat  == trains[i]
           off   == IF stations[s].active THEN Cardinality(GetsOff(seat, s)) ELSE 0
           rides == IF stations[s].active THEN Rides(seat, s) ELSE seat.passengers
           back  == [seat EXCEPT !.tr = tr, !.passengers = rides, !.onBoard = @ - off]
           train == Boarded(back, st[s])
           next  == Optimal([st EXCEPT ![s] = Emptied(@)], train.passengers)
           x     == [train EXCEPT !.destination = next]
           w     == Len(stations[s].waiting)
<1>1. /\ GoodStations(stations) /\ GoodTrains(trains) /\ route \in [Numbers -> Places \cup {NONE}]
      /\ Routed(trains, route) /\ Serviced(stations, trains) /\ GoodStation(stations[s])
      /\ stations \in [Places -> Stations] /\ trains \in [SeatNumbers -> Trains]
  BY DEF Held, Sound, GoodStations, GoodTrains
<1>2. i \in SeatNumbers
  BY SeatInRange
<1>3. /\ trains' = [trains EXCEPT ![i] = x]
      /\ stations' = [p \in Places |->
           [(IF p = s THEN Emptied(st[p]) ELSE st[p]) EXCEPT !.serviced = IF p = next THEN tr ELSE @]]
      /\ free' = free + off
      /\ route' = [route EXCEPT ![tr] = next]
  BY DEF Arrive
<1>4. GoodTrain(seat, i)
  BY <1>1, <1>2 DEF GoodTrains
<1>5. /\ rides \in Seq(Person) /\ Len(rides) \in Nat /\ off \in Nat
      /\ Len(rides) + off = Len(seat.passengers)
  <2>1. seat \in Trains
    BY <1>4 DEF GoodTrain
  <2>2. CASE stations[s].active
    <3>1. rides = Rides(seat, s) /\ off = Cardinality(GetsOff(seat, s))
      BY <2>2
    <3> HIDE DEF rides, off, seat
    <3> QED BY <2>1, <3>1, RidesIs
  <2>3. CASE ~stations[s].active
    <3>1. rides = seat.passengers /\ off = 0
      BY <2>3
    <3> HIDE DEF rides, off, seat
    <3>2. seat.passengers \in Seq(Person) /\ Len(seat.passengers) \in Nat
      BY <2>1, LenProperties DEF Trains
    <3> QED BY <3>1, <3>2
  <2> QED BY <2>2, <2>3
<1> HIDE DEF rides, off
<1>6. back \in Trains /\ back.tr = tr /\ back.onBoard = Len(back.passengers) /\ back.passengers = rides
  <2>1. seat \in Trains /\ seat.onBoard - off = Len(rides)
    <3>1. seat \in Trains /\ seat.onBoard = Len(seat.passengers)
      BY <1>4 DEF GoodTrain
    <3> HIDE DEF seat
    <3> QED BY <1>5, <3>1
  <2> HIDE DEF seat
  <2>2. back.tr = tr /\ back.passengers = rides /\ back.onBoard = seat.onBoard - off
    BY <2>1 DEF Trains
  <2>3. back \in Trains
    BY <1>5, <2>1 DEF Trains
  <2> QED BY <2>1, <2>2, <2>3
<1> DEFINE old == stations[s]
           e == Emptied(st[s])
<1>7. /\ st[s] \in Stations /\ st[s].waiting = old.waiting /\ st[s].active = old.active
      /\ st[s].serviced = NONE /\ st[s].passengers = old.passengers /\ GoodStation(st[s])
      /\ \A p \in Places \ {s} : st[p] = stations[p]
  <2> DEFINE y == [old EXCEPT !.serviced = NONE]
  <2>1. st[s] = y /\ \A p \in Places \ {s} : st[p] = stations[p]
    BY <1>1
  <2>2. GoodStation(old)
    BY <1>1
  <2> HIDE DEF old, st
  <2>3. /\ y \in Stations /\ y.waiting = old.waiting /\ y.active = old.active
        /\ y.serviced = NONE /\ y.passengers = old.passengers
    BY <2>2 DEF GoodStation, Stations
  <2>4. GoodStation(y)
    BY <2>2, <2>3 DEF GoodStation
  <2> QED BY <2>1, <2>3, <2>4
<1> HIDE DEF st, back, old
<1>8. /\ train \in Trains /\ train.tr = tr /\ train.onBoard = Len(train.passengers)
      /\ Len(train.passengers) = Len(rides) + w
  <2>1. /\ train \in Trains /\ train.tr = back.tr /\ train.onBoard = Len(train.passengers)
        /\ Len(train.passengers) = Len(back.passengers) + Len(st[s].waiting)
    BY <1>6, <1>7, BoardedIs
  <2> QED BY <1>6, <1>7, <2>1 DEF old
<1> HIDE DEF train
<1>9. next \in Places \cup {NONE}
  BY <1>8, OptimalIs DEF Trains
<1> HIDE DEF next
<1>10. /\ x \in Trains /\ x.tr = tr /\ x.onBoard = Len(x.passengers) /\ x.destination = next
       /\ x.passengers = train.passengers
  BY <1>8, <1>9 DEF Trains
<1> HIDE DEF x
<1>11. /\ GoodStation(e) /\ e.active = old.active /\ e.serviced = NONE /\ e.waiting = <<>> /\ Len(e.waiting) = 0
  BY <1>7, EmptiedIs
<1> HIDE DEF e
<1>12. \A p \in Places :
         /\ stations'[p] = [(IF p = s THEN e ELSE stations[p]) EXCEPT !.serviced = IF p = next THEN tr ELSE @]
         /\ GoodStation(IF p = s THEN e ELSE stations[p])
  BY <1>1, <1>3, <1>7, <1>11 DEF GoodStations, e
<1>13. \A p \in Places :
         /\ GoodStation(stations'[p])
         /\ stations'[p].serviced = IF p = next THEN tr ELSE IF p = s THEN NONE ELSE stations[p].serviced
         /\ stations'[p].active = stations[p].active
         /\ Len(stations'[p].waiting) = IF p = s THEN 0 ELSE Len(stations[p].waiting)
  <2> TAKE p \in Places
  <2> DEFINE y == IF p = s THEN e ELSE stations[p]
             z == [y EXCEPT !.serviced = IF p = next THEN tr ELSE @]
  <2>1. stations'[p] = z /\ GoodStation(y)
    BY <1>12
  <2>2. /\ y.serviced = IF p = s THEN NONE ELSE stations[p].serviced
        /\ y.active = stations[p].active
        /\ Len(y.waiting) = IF p = s THEN 0 ELSE Len(stations[p].waiting)
    BY <1>11 DEF old
  <2> HIDE DEF y
  <2>3. /\ z \in Stations /\ z.active = y.active /\ z.waiting = y.waiting /\ z.passengers = y.passengers
        /\ z.serviced = IF p = next THEN tr ELSE y.serviced
    BY <2>1 DEF GoodStation, Stations
  <2> HIDE DEF z
  <2>4. GoodStation(z)
    BY <2>1, <2>3 DEF GoodStation
  <2> QED BY <2>1, <2>2, <2>3, <2>4
<1>14. GoodStations(stations')
  <2>1. \A p \in Places : stations'[p] \in Stations
    BY <1>13 DEF GoodStation
  <2>2. stations' \in [Places -> Stations]
    BY <1>3, <2>1
  <2> QED BY <1>13, <2>2 DEF GoodStations
<1>15. GoodTrains(trains')
  <2>1. GoodTrain(x, i)
    BY <1>10, NotNone DEF GoodTrain
  <2> HIDE DEF i
  <2> QED BY <1>1, <1>2, <1>3, <1>10, <2>1 DEF GoodTrains
<1>16. /\ route' \in [Numbers -> Places \cup {NONE}] /\ route'[tr] = next
       /\ \A u \in Numbers \ {tr} : route'[u] = route[u]
  BY <1>1, <1>3, <1>9
<1>17. trains'[i] = x /\ \A j \in SeatNumbers \ {i} : trains'[j] = trains[j]
  BY <1>1, <1>2, <1>3
<1>18. Routed(trains', route')
  <2> SUFFICES ASSUME NEW j \in SeatNumbers, trains'[j].destination # NONE
               PROVE  route'[trains'[j].tr] = trains'[j].destination
    BY DEF Routed
  <2>1. CASE j = i
    BY <1>10, <1>16, <1>17, <2>1
  <2>2. CASE j # i
    <3>1. trains'[j] = trains[j]
      BY <1>17, <2>2
    <3>2. trains[j].tr \in Numbers /\ Seat(trains[j].tr) = j
      BY <1>1, <3>1 DEF GoodTrains, GoodTrain, Trains
    <3>3. trains[j].tr # tr
      BY <2>2, <3>2
    <3>4. route[trains[j].tr] = trains[j].destination
      BY <1>1, <3>1 DEF Routed
    <3> QED BY <1>16, <3>1, <3>2, <3>3, <3>4
  <2> QED BY <2>1, <2>2
<1>19. Serviced(stations', trains')
  <2> SUFFICES ASSUME NEW p \in Places, stations'[p].serviced # NONE
               PROVE  /\ trains'[Seat(stations'[p].serviced)].tr = stations'[p].serviced
                      /\ trains'[Seat(stations'[p].serviced)].destination = p
    BY DEF Serviced
  <2>1. CASE p = next
    <3>1. stations'[p].serviced = tr
      BY <1>13, <2>1
    <3> QED BY <1>10, <1>17, <2>1, <3>1
  <2>2. CASE p # next
    <3> DEFINE u == stations[p].serviced
    <3>1. stations'[p].serviced = u /\ u # NONE /\ p # s
      BY <1>13, <2>2
    <3>2. trains[Seat(u)].tr = u /\ trains[Seat(u)].destination = p /\ u \in Numbers
      BY <1>1, <3>1 DEF Serviced, Stations
    <3> HIDE DEF u
    <3>3. Seat(u) \in SeatNumbers
      BY <3>2, SeatInRange
    <3>4. route[u] = p
      BY <1>1, <3>2, <3>3, NotNone DEF Routed
    <3>5. Seat(u) # i
      <4> SUFFICES ASSUME Seat(u) = i PROVE FALSE
        OBVIOUS
      <4>1. u = tr
        BY <3>1, <3>2
      <4> QED BY <3>1, <3>4, <4>1, NotNone
    <3>6. trains'[Seat(u)] = trains[Seat(u)]
      BY <1>17, <3>3, <3>5
    <3> QED BY <3>1, <3>2, <3>6
  <2> QED BY <2>1, <2>2
<1>20. Sound(stations', trains', route')
  BY <1>14, <1>15, <1>16, <1>18, <1>19 DEF Sound
<1>21. count' = Cardinality(Active(stations'))
  <2>1. Active(stations') = Active(stations)
    BY <1>13 DEF Active
  <2> QED BY <2>1 DEF Held
<1>22. Counted(MaxPeople)
  <2> DEFINE su == [stations EXCEPT ![s] = e]
  <2>1. Crowd(stations') = Crowd(su)
    <3>1. \A p \in Places : Len(su[p].waiting) = Len(stations'[p].waiting)
      BY <1>1, <1>11, <1>13
    <3> HIDE DEF su
    <3>2. [p \in Places |-> Len(su[p].waiting)] = [p \in Places |-> Len(stations'[p].waiting)]
      BY <3>1
    <3> QED BY <3>2 DEF Crowd
  <2>2. Crowd(su) - 0 = Crowd(stations) - w /\ Crowd(su) \in Nat /\ Crowd(stations) \in Nat
    <3>1. e \in Stations
      BY <1>11 DEF GoodStation
    <3> HIDE DEF w
    <3>2. Crowd(su) - Len(e.waiting) = Crowd(stations) - Len(stations[s].waiting)
          /\ Crowd(su) \in Nat /\ Crowd(stations) \in Nat
      BY <1>1, <3>1, CrowdChanges
    <3> QED BY <1>11, <3>2 DEF w
  <2>3. Aboard(trains') - (Len(rides) + w) = Aboard(trains) - (Len(rides) + off)
        /\ Aboard(trains') \in Nat /\ Aboard(trains) \in Nat
    <3>1. Aboard(trains') - Len(x.passengers) = Aboard(trains) - Len(trains[i].passengers)
          /\ Aboard(trains') \in Nat /\ Aboard(trains) \in Nat
      BY <1>1, <1>2, <1>3, <1>10, AboardChanges
    <3> QED BY <1>5, <1>8, <1>10, <3>1
  <2>4. w \in Nat
    BY <1>1, LenProperties DEF Stations
  <2>5. people \in Int /\ free \in Int /\ 0 <= people /\ people <= free
        /\ free + Crowd(stations) + Aboard(trains) = MaxPeople
    BY DEF Held
  <2> HIDE DEF w, su
  <2> DEFINE r == Len(rides)
  <2>6. r \in Nat /\ off \in Nat
    BY <1>5
  <2>11. Aboard(trains') - (r + w) = Aboard(trains) - (r + off)
    BY <2>3
  <2>12. Aboard(trains') \in Nat /\ Aboard(trains) \in Nat
    BY <2>3
  <2> HIDE DEF r
  <2>7. Aboard(trains') = Aboard(trains) - off + w
    BY <2>4, <2>6, <2>11, <2>12
  <2>8. Crowd(stations') = Crowd(stations) - w
    BY <2>1, <2>2, <2>4
  <2>9. free' + Crowd(stations') + Aboard(trains') = MaxPeople
    BY <1>3, <2>2, <2>4, <2>5, <2>6, <2>7, <2>8, <2>12
  <2>10. free' \in Int /\ people' \in Int /\ 0 <= people' /\ people' <= free'
    BY <1>3, <2>5, <2>6
  <2> QED BY <2>9, <2>10 DEF Counted
<1> QED BY <1>20, <1>21, <1>22, HeldAgain

LEMMA ArrivalHeld ==
  ASSUME Held, NEW tr \in Numbers, NEW s \in Places, route[tr] \in {s, NONE},
         Arrival(tr, s), UNCHANGED <<people, count>>
  PROVE  Held'
<1>1. CASE trains[Seat(tr)].tr \in {tr, NONE}
  <2>1. Arrive(tr, s, [stations EXCEPT ![s].serviced = NONE])
    BY <1>1 DEF Arrival
  <2> QED BY <1>1, <2>1, ArriveHeld
<1>2. CASE trains[Seat(tr)].tr \notin {tr, NONE}
  <2>1. route' = [route EXCEPT ![tr] = NONE] /\ UNCHANGED <<trains, stations, free>>
    BY <1>2 DEF Arrival
  <2>2. UNCHANGED system
    BY <2>1 DEF system
  <2> QED BY <1>2, <2>1, <2>2, GotoHeld
<1> QED BY <1>1, <1>2
-----------------------------------------------------------------------------
LEMMA NextHolds == TransitInv /\ [Next]_vars => TransitInv'
<1> SUFFICES ASSUME TransitInv, [Next]_vars PROVE TransitInv'
  OBVIOUS
<1>1. Held /\ fuel \in 0 .. Requests /\ Requests \in Nat
  BY TransitAssumption DEF TransitInv
<1>2. CASE Request
  <2>1. fuel' \in 0 .. Requests
    BY <1>1, <1>2 DEF Request
  <2>2. ASSUME NEW s \in Places, NEW k \in Groups, Spawn(s, k) PROVE Held'
    BY <1>1, <2>2, SpawnHeld
  <2>3. ASSUME NEW s \in Places, NEW k \in Groups, AddPassengers(s, k) PROVE Held'
    BY <1>1, <2>3, AddPassengersHeld
  <2>4. ASSUME NEW s \in Places, RemoveStation(s) PROVE Held'
    BY <1>1, <2>4, RemoveStationHeld
  <2>5. Shutdown => Held'
    BY <1>1, ShutdownHeld
  <2>6. ASSUME NEW tr \in Numbers, NEW s \in Places, Broadcast(tr, s) PROVE Held'
    BY <1>1, <2>6, ArrivalHeld DEF Broadcast
  <2>7. ASSUME NEW tr \in Numbers, NEW s \in Places, Goto(tr, s) PROVE Held'
    BY <1>1, <2>7, GotoHeld DEF Goto
  <2>8. Held'
    BY <1>2, <2>2, <2>3, <2>4, <2>5, <2>6, <2>7 DEF Request
  <2> QED BY <2>1, <2>8 DEF TransitInv
<1>3. CASE (\E tr \in Numbers : Comes(tr)) /\ UNCHANGED fuel
  <2>1. PICK tr \in Numbers : Comes(tr)
    BY <1>3
  <2>2. route[tr] \in Places /\ route[tr] # NONE
    BY <1>1, <2>1 DEF Comes, Held, Sound
  <2>3. Held'
    <3> DEFINE s == route[tr]
    <3>1. s \in Places /\ Arrival(tr, s) /\ UNCHANGED <<people, count>> /\ route[tr] \in {s, NONE}
      BY <2>1, <2>2 DEF Comes
    <3> HIDE DEF s
    <3> QED BY <1>1, <3>1, ArrivalHeld
  <2> QED BY <1>1, <1>3, <2>3 DEF TransitInv
<1>4. CASE UNCHANGED vars
  <2>1. /\ stations' = stations /\ count' = count /\ trains' = trains /\ free' = free /\ people' = people
        /\ route' = route /\ fuel' = fuel
    BY <1>4 DEF vars, system
  <2>2. Sound(stations', trains', route') /\ Crowd(stations') = Crowd(stations)
        /\ Aboard(trains') = Aboard(trains) /\ Active(stations') = Active(stations)
    BY <1>1, <2>1 DEF Held
  <2>3. Held'
    BY <1>1, <2>1, <2>2 DEF Held
  <2> QED BY <1>1, <2>1, <2>3 DEF TransitInv
<1> QED BY <1>2, <1>3, <1>4 DEF Next

LEMMA TransitInvariant == Spec => []TransitInv
<1> QED BY InitHolds, NextHolds, PTL DEF Spec

(* Stations, seats and routes keep their types, a train is in its own seat, and
   every pedestrian is in one list, where the code counts it: in the list of those
   not in use, on a platform or on board. *)
THEOREM TransitCorrect == Spec => []TransitOK
<1>1. TransitInv => TransitOK
  <2> SUFFICES ASSUME TransitInv PROVE TransitOK
    OBVIOUS
  <2>1. /\ GoodStations(stations) /\ GoodTrains(trains) /\ route \in [Numbers -> Places \cup {NONE}]
        /\ fuel \in 0 .. Requests /\ count = Cardinality(Active(stations))
    BY DEF TransitInv, Held, Sound
  <2>2. DOMAIN trains = SeatNumbers
    BY <2>1 DEF GoodTrains
  <2>3. \A s \in Places :
          /\ stations[s].active \in BOOLEAN /\ stations[s].serviced \in Numbers \cup {NONE}
          /\ stations[s].passengers >= Len(stations[s].waiting)
          /\ ~stations[s].active => stations[s].waiting = <<>>
    BY <2>1 DEF GoodStations, GoodStation, Stations
  <2>4. \A i \in DOMAIN trains :
          /\ trains[i].tr \in {tr \in Numbers : Seat(tr) = i} \cup {NONE}
          /\ trains[i].destination \in Places \cup {NONE}
          /\ trains[i].onBoard = Len(trains[i].passengers)
          /\ \A k \in DOMAIN trains[i].passengers : trains[i].passengers[k].weight > 0
    <3> TAKE i \in DOMAIN trains
    <3> DEFINE t == trains[i]
    <3>1. GoodTrain(t, i) /\ t \in Trains
      BY <2>1, <2>2 DEF GoodTrains, GoodTrain
    <3> HIDE DEF t
    <3>2. \A k \in DOMAIN t.passengers : t.passengers[k].weight > 0
      <4>1. t.passengers \in Seq(Person)
        BY <3>1 DEF Trains
      <4>2. \A k \in DOMAIN t.passengers : t.passengers[k] \in Person
        BY <4>1, LenProperties, ElementOfSeq
      <4> QED BY <4>2 DEF Person
    <3>3. t.tr \in {tr \in Numbers : Seat(tr) = i} \cup {NONE} /\ t.destination \in Places \cup {NONE}
          /\ t.onBoard = Len(t.passengers)
      BY <3>1 DEF GoodTrain, Trains
    <3> QED BY <3>2, <3>3 DEF t
  <2>5. free + Everybody = MaxPeople
    <3>1. Everybody = Crowd(stations) + Aboard(trains)
      BY <2>2 DEF Everybody, Crowd, Aboard
    <3>2. free \in Int /\ Crowd(stations) \in Nat /\ Aboard(trains) \in Nat
          /\ free + Crowd(stations) + Aboard(trains) = MaxPeople
      BY <2>1, CountsAreNatural DEF TransitInv, Held
    <3> QED BY <3>1, <3>2
  <2> QED BY <2>1, <2>3, <2>4, <2>5 DEF TransitOK, Active
<1> QED BY <1>1, TransitInvariant, PTL

(* The list of pedestrians never runs out under a request that takes some, however
   stations are removed and shut down and trains come and go. *)
THEOREM EnoughPeopleCorrect == Spec => []EnoughPeople
<1>1. TransitInv => EnoughPeople
  BY DEF TransitInv, Held, EnoughPeople
<1> QED BY <1>1, TransitInvariant, PTL

(* A train with a destination is on its way there, and a station that is marked
   serviced is the destination of the train it is marked with, also when trains
   share a seat or the user sends one where it likes. *)
THEOREM BusyTrainsComeCorrect == Spec => []BusyTrainsCome
<1>1. TransitInv => BusyTrainsCome
  <2> SUFFICES ASSUME TransitInv PROVE BusyTrainsCome
    OBVIOUS
  <2>1. DOMAIN trains = SeatNumbers /\ Routed(trains, route) /\ Serviced(stations, trains)
    BY DEF TransitInv, Held, Sound, GoodTrains
  <2> QED BY <2>1 DEF BusyTrainsCome, Routed, Serviced
<1> QED BY <1>1, TransitInvariant, PTL

=============================================================================
