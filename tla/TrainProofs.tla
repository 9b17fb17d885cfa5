----------------------------- MODULE TrainProofs -----------------------------
(* Theorems about TrainTask, for every track, number of trains and couriers, and
   whatever track a train asks for. *)
EXTENDS TrainTask, Facts

(* The greatest and the least of a set, as the community modules choose them. *)
LEMMA MaxIs ==
  ASSUME NEW T \in SUBSET Nat, T # {}, NEW b \in Nat, \A m \in T : m <= b
  PROVE  Max(T) \in T /\ \A m \in T : m <= Max(T)
<1>1. PICK n \in T : \A m \in T : m <= n
  BY GreatestNatural
<1>2. n \in T /\ \A m \in T : n >= m
  BY <1>1
<1>3. Max(T) \in T /\ \A m \in T : Max(T) >= m
  BY <1>2 DEF Max
<1> QED BY <1>3

LEMMA MinIs ==
  ASSUME NEW T \in SUBSET Nat, T # {}
  PROVE  Min(T) \in T /\ \A m \in T : Min(T) <= m
<1>1. \E n \in T : \A m \in T : n <= m
  BY LeastNatural
<1> QED BY <1>1 DEF Min

(* The lesser and the greater of two. *)
LEMMA OfTwo ==
  ASSUME NEW a \in Int, NEW b \in Int
  PROVE  /\ Max({a, b}) = IF a >= b THEN a ELSE b
         /\ Min({a, b}) = IF a <= b THEN a ELSE b
BY DEF Max, Min

LEMMA FirstInRow ==
  ASSUME NEW S, NEW row \in Seq(S), NEW set
  PROVE  /\ FirstIn(row, set) \in 0 .. Len(row) /\ Len(row) \in Nat
         /\ FirstIn(row, set) # 0 => row[FirstIn(row, set)] \in set
         /\ \A i \in 1 .. Len(row) : row[i] \in set => FirstIn(row, set) # 0 /\ FirstIn(row, set) <= i
<1> DEFINE I == {i \in 1 .. Len(row) : row[i] \in set}
           First(i) == i \in DOMAIN row /\ row[i] \in set /\ \A j \in 1 .. i - 1 : row[j] \notin set
<1>1. Len(row) \in Nat /\ DOMAIN row = 1 .. Len(row) /\ I \in SUBSET Nat
  BY LenProperties
<1>2. CASE I # {}
  <2>1. PICK n \in I : \A m \in I : n <= m
    <3> HIDE DEF I
    <3> QED BY <1>1, <1>2, LeastNatural
  <2>2. First(n)
    BY <1>1, <2>1
  <2>3. FirstIn(row, set) = CHOOSE i \in DOMAIN row :
                              row[i] \in set /\ \A j \in 1 .. i - 1 : row[j] \notin set
    BY <1>1, <1>2 DEF FirstIn
  <2>4. First(FirstIn(row, set))
    BY <2>2, <2>3
  <2> QED BY <1>1, <2>4
<1>3. CASE I = {}
  <2>1. FirstIn(row, set) = 0
    BY <1>1, <1>3 DEF FirstIn
  <2> QED BY <1>1, <1>3, <2>1
<1> QED BY <1>2, <1>3
-----------------------------------------------------------------------------
(* The track. *)
LEMMA NextIsAhead ==
  ASSUME NEW n \in Nodes
  PROVE  /\ NextNode(n) \in Nodes \cup {NULL}
         /\ NextNode(n) # NULL => NextNode(n) \in Ahead(n) /\ NextEdge(n) \in Edges
BY TrackAssumption DEF NextNode, Ahead, NextEdge, Edges, Branches

LEMMA AlongRow ==
  ASSUME NEW n \in Nodes, NEW k \in Nat
  PROVE  /\ Along(n, k) \in Seq(Nodes) /\ Along(n, k) # <<>> /\ Along(n, k)[1] = n
         /\ \A i \in 1 .. Len(Along(n, k)) - 1 : <<Along(n, k)[i], Along(n, k)[i + 1]>> \in Edges
<1> DEFINE R == {row \in Seq(Nodes) : /\ row # <<>> /\ row[1] = n
                                      /\ \A i \in 1 .. Len(row) - 1 : <<row[i], row[i + 1]>> \in Edges}
           extend == [i \in 1 .. k |-> [row \in Seq(Nodes) |->
             IF NextNode(Last(row)) = NULL THEN row ELSE Append(row, NextNode(Last(row)))]]
<1>1. <<n>> \in R
  OBVIOUS
<1>2. ASSUME NEW i \in 1 .. k, NEW row \in R PROVE extend[i][row] \in R
  <2>1. row \in Seq(Nodes) /\ Len(row) \in Nat \ {0} /\ DOMAIN row = 1 .. Len(row) /\ Last(row) \in Nodes
    BY EmptySeq, LenProperties, ElementOfSeq DEF Last
  <2> DEFINE m == NextNode(Last(row))
  <2>2. CASE m = NULL
    BY <2>1, <2>2
  <2>3. CASE m # NULL
    <3>1. m \in Nodes /\ <<Last(row), m>> \in Edges
      BY <2>1, <2>3, NextIsAhead DEF NextEdge
    <3>2. extend[i][row] = Append(row, m)
      BY <2>1, <2>3
    <3> HIDE DEF m, extend
    <3>3. /\ Append(row, m) \in Seq(Nodes) /\ Len(Append(row, m)) = Len(row) + 1
          /\ \A j \in 1 .. Len(row) : Append(row, m)[j] = row[j]
          /\ Append(row, m)[Len(row) + 1] = m
      BY <2>1, <3>1, AppendProperties
    <3>4. \A j \in 1 .. Len(row) : <<Append(row, m)[j], Append(row, m)[j + 1]>> \in Edges
      <4> TAKE j \in 1 .. Len(row)
      <4>1. CASE j = Len(row)
        BY <2>1, <3>1, <3>3, <4>1 DEF Last
      <4>2. CASE j \in 1 .. Len(row) - 1
        <5>1. j + 1 \in 1 .. Len(row) /\ <<row[j], row[j + 1]>> \in Edges
          BY <2>1, <4>2
        <5> QED BY <3>3, <5>1
      <4>3. j = Len(row) \/ j \in 1 .. Len(row) - 1
        <5> HIDE DEF R
        <5>1. Len(row) \in Nat
          BY <2>1
        <5> QED BY <5>1
      <4> QED BY <4>1, <4>2, <4>3
    <3>5. Append(row, m) # <<>> /\ Append(row, m)[1] = n
      BY <2>1, <3>3
    <3>6. Append(row, m) \in R
      <4>1. Len(Append(row, m)) - 1 = Len(row)
        BY <2>1, <3>3
      <4> QED BY <3>3, <3>4, <3>5, <4>1
    <3> QED BY <3>2, <3>6
  <2> QED BY <2>2, <2>3
<1>3. Along(n, k) = Loop(extend, <<n>>, k)
  BY DEF Along
<1>4. Loop(extend, <<n>>, k) \in R
  <2> HIDE DEF extend, R
  <2> QED BY <1>1, <1>2, LoopStays
<1> QED BY <1>3, <1>4
-----------------------------------------------------------------------------
(* findPath: whatever the heap does with the nodes, it answers a row of nodes. *)
LEMMA Exchanged ==
  ASSUME NEW h \in Seq(Nodes), NEW i \in 1 .. Len(h), NEW j \in 1 .. Len(h)
  PROVE  Exchange(h, i, j) \in Seq(Nodes) /\ Len(Exchange(h, i, j)) = Len(h)
<1>1. Len(h) \in Nat /\ h \in [1 .. Len(h) -> Nodes] /\ h[i] \in Nodes /\ h[j] \in Nodes
  BY LenProperties, ElementOfSeq
<1>2. Exchange(h, i, j) \in [1 .. Len(h) -> Nodes]
  BY <1>1 DEF Exchange
<1>3. Exchange(h, i, j) \in Seq(Nodes)
  BY <1>1, <1>2, SeqDef
<1> QED BY <1>1, <1>2, <1>3, LenProperties

LEMMA HeapifyUpRow ==
  ASSUME NEW heap \in Seq(Nodes), NEW d, NEW at \in 1 .. Len(heap)
  PROVE  HeapifyUp(heap, d, at) \in Seq(Nodes)
<1> DEFINE P == {s \in Spots : s.at \in 1 .. Len(s.heap)}
           start == [heap |-> heap, at |-> at]
           up == [k \in 1 .. at |-> [s \in Spots |->
             LET parent == s.at \div 2 IN
             IF s.at = 1 \/ d[s.heap[parent]] <= d[s.heap[s.at]] THEN s
             ELSE [heap |-> Exchange(s.heap, s.at, parent), at |-> parent]]]
<1>1. Len(heap) \in Nat /\ at \in Nat
  BY LenProperties
<1>2. start \in P
  BY <1>1 DEF Spots
<1>3. ASSUME NEW k \in 1 .. at, NEW s \in P PROVE up[k][s] \in P
  <2>1. s \in Spots /\ s.heap \in Seq(Nodes) /\ Len(s.heap) \in Nat /\ s.at \in 1 .. Len(s.heap)
    BY LenProperties DEF Spots
  <2>2. s.at # 1 => s.at \div 2 \in 1 .. Len(s.heap)
    BY <2>1
  <2> DEFINE t == [heap |-> Exchange(s.heap, s.at, s.at \div 2), at |-> s.at \div 2]
  <2>3. s.at # 1 => t \in P
    <3> SUFFICES ASSUME s.at # 1 PROVE t \in P
      OBVIOUS
    <3>1. /\ Exchange(s.heap, s.at, s.at \div 2) \in Seq(Nodes)
          /\ Len(Exchange(s.heap, s.at, s.at \div 2)) = Len(s.heap)
      BY <2>1, <2>2, Exchanged
    <3> QED BY <2>1, <2>2, <3>1 DEF Spots
  <2>4. up[k][s] = IF s.at = 1 \/ d[s.heap[s.at \div 2]] <= d[s.heap[s.at]] THEN s ELSE t
    BY <2>1
  <2> HIDE DEF up, t, P
  <2> QED BY <2>3, <2>4
<1>4. HeapifyUp(heap, d, at) = Loop(up, start, at).heap
  BY DEF HeapifyUp
<1>5. Loop(up, start, at) \in P
  <2> HIDE DEF up, P, start
  <2> QED BY <1>1, <1>2, <1>3, LoopStays
<1> QED BY <1>4, <1>5 DEF Spots

LEMMA HeapPopRow ==
  ASSUME NEW heap \in Seq(Nodes), heap # <<>>, NEW d
  PROVE  HeapPop(heap, d) \in Seq(Nodes)
<1> DEFINE h == SubSeq(Exchange(heap, 1, Len(heap)), 1, Len(heap) - 1)
           P == {s \in Spots : s.at \in 1 .. Len(s.heap)}
           start == [heap |-> h, at |-> 1]
           down == [k \in DOMAIN h |-> [s \in Spots |->
             LET child == Lesser(s.heap, d, s.at) IN
             IF child = s.at THEN s ELSE [heap |-> Exchange(s.heap, s.at, child), at |-> child]]]
<1>1. h \in Seq(Nodes)
  <2>1. Len(heap) \in Nat \ {0}
    BY EmptySeq, LenProperties
  <2>2. Exchange(heap, 1, Len(heap)) \in Seq(Nodes) /\ Len(Exchange(heap, 1, Len(heap))) = Len(heap)
    BY <2>1, Exchanged
  <2> QED BY <2>1, <2>2, SubSeqProperties
<1> HIDE DEF h
<1>2. CASE h = <<>>
  <2>1. Len(h) = 0 /\ HeapPop(heap, d) = Loop(down, start, Len(h)).heap
    BY <1>2 DEF HeapPop, Heapify, h
  <2>2. Loop(down, start, 0) \in {start}
    <3> DEFINE S == {start}
    <3> HIDE DEF down, start
    <3>1. start \in S /\ 0 \in Nat /\ \A k \in 1 .. 0 : \A x \in S : down[k][x] \in S
      OBVIOUS
    <3> HIDE DEF S
    <3>2. Loop(down, start, 0) \in S
      BY <3>1, LoopStays
    <3> QED BY <3>2 DEF S
  <2>3. Loop(down, start, 0).heap = h
    BY <2>2
  <2> HIDE DEF down, start
  <2> QED BY <1>1, <2>1, <2>3
<1>3. CASE h # <<>>
  <2>1. Len(h) \in Nat \ {0} /\ DOMAIN h = 1 .. Len(h)
    BY <1>1, <1>3, EmptySeq, LenProperties
  <2>2. start \in P
    BY <1>1, <2>1 DEF Spots
  <2>3. ASSUME NEW k \in 1 .. Len(h), NEW s \in P PROVE down[k][s] \in P
    <3>1. s \in Spots /\ s.heap \in Seq(Nodes) /\ Len(s.heap) \in Nat /\ s.at \in 1 .. Len(s.heap)
      BY LenProperties DEF Spots
    <3> DEFINE child == Lesser(s.heap, d, s.at)
               t == [heap |-> Exchange(s.heap, s.at, child), at |-> child]
    <3>2. child \in 1 .. Len(s.heap)
      <4> DEFINE i == s.at
                 left == IF 2 * i <= Len(s.heap) /\ d[s.heap[2 * i]] < d[s.heap[i]] THEN 2 * i ELSE i
      <4>1. left \in 1 .. Len(s.heap) /\ (2 * i + 1 <= Len(s.heap) => 2 * i + 1 \in 1 .. Len(s.heap))
        BY <3>1
      <4>2. child \in {left, 2 * i + 1} /\ (child # left => 2 * i + 1 <= Len(s.heap))
        BY DEF Lesser
      <4> HIDE DEF left, child
      <4> QED BY <4>1, <4>2
    <3>3. t \in P
      <4> HIDE DEF child
      <4>1. /\ Exchange(s.heap, s.at, child) \in Seq(Nodes)
            /\ Len(Exchange(s.heap, s.at, child)) = Len(s.heap)
        BY <3>1, <3>2, Exchanged
      <4> QED BY <3>1, <3>2, <4>1 DEF Spots
    <3>4. down[k][s] = IF child = s.at THEN s ELSE t
      BY <2>1, <3>1
    <3> HIDE DEF down, t, P, child
    <3> QED BY <3>3, <3>4
  <2>4. HeapPop(heap, d) = Loop(down, start, Len(h)).heap
    BY <1>3 DEF HeapPop, Heapify, h
  <2>5. Loop(down, start, Len(h)) \in P
    <3> HIDE DEF down, P, start
    <3> QED BY <2>1, <2>2, <2>3, LoopStays
  <2> QED BY <2>4, <2>5 DEF Spots
<1> QED BY <1>2, <1>3

LEMMA AddNodeKept ==
  ASSUME NEW s \in Searches, NEW m \in Nodes, NEW n \in Nodes \cup {NULL}
  PROVE  AddNode(s, m, n) \in Searches
<1> SUFFICES ASSUME n \in Nodes PROVE AddNode(s, m, n) \in Searches
  BY DEF AddNode
<1> DEFINE d == [s.dist EXCEPT ![n] = s.dist[m] + Cost(m, n)]
           h == IF n \in ToSet(s.heap) THEN s.heap ELSE Append(s.heap, n)
           p == [s.pred EXCEPT ![n] = m]
<1>1. d \in [Nodes -> Nat] /\ p \in [Nodes -> Nodes \cup {NULL}]
  BY TurnAssumption DEF Searches, Cost
<1>2. h \in Seq(Nodes) /\ FirstIn(h, {n}) \in 1 .. Len(h)
  <2>1. s.heap \in Seq(Nodes)
    BY DEF Searches
  <2>2. h \in Seq(Nodes) /\ \E i \in 1 .. Len(h) : h[i] \in {n}
    <3>1. CASE n \in ToSet(s.heap)
      BY <2>1, <3>1, LenProperties DEF ToSet
    <3>2. CASE n \notin ToSet(s.heap)
      <4>1. /\ Append(s.heap, n) \in Seq(Nodes) /\ Len(Append(s.heap, n)) = Len(s.heap) + 1
            /\ Append(s.heap, n)[Len(s.heap) + 1] = n /\ Len(s.heap) \in Nat
        BY <2>1, AppendProperties, LenProperties
      <4>2. Len(s.heap) + 1 \in 1 .. Len(Append(s.heap, n))
        BY <4>1
      <4> QED BY <3>2, <4>1, <4>2
    <3> QED BY <3>1, <3>2
  <2> HIDE DEF h
  <2> QED BY <2>2, FirstInRow
<1> HIDE DEF d, h, p
<1>3. HeapifyUp(h, d, FirstIn(h, {n})) \in Seq(Nodes)
  BY <1>2, HeapifyUpRow
<1>4. [dist |-> d, pred |-> p, heap |-> HeapifyUp(h, d, FirstIn(h, {n}))] \in Searches
  BY <1>1, <1>3 DEF Searches
<1>5. AddNode(s, m, n) \in {s, [dist |-> d, pred |-> p, heap |-> HeapifyUp(h, d, FirstIn(h, {n}))]}
  BY DEF AddNode, d, h, p
<1> QED BY <1>4, <1>5

LEMMA ExpandKept ==
  ASSUME NEW s \in Searches, s.heap # <<>>, NEW tr, NEW m \in Nodes
  PROVE  Expand(s, tr, m) \in Searches
<1> DEFINE t == [s EXCEPT !.heap = HeapPop(@, s.dist)]
<1>1. t \in Searches
  <2>1. HeapPop(s.heap, s.dist) \in Seq(Nodes)
    BY HeapPopRow DEF Searches
  <2> QED BY <2>1 DEF Searches
<1> HIDE DEF t
<1>2. Curved[m] \in Nodes \cup {NULL} /\ Twin[m] \in Nodes /\ Straight[m] \in Nodes \cup {NULL}
  BY TrackAssumption
<1>3. AddNode(t, m, Curved[m]) \in Searches
  BY <1>1, <1>2, AddNodeKept
<1>4. AddNode(AddNode(t, m, Curved[m]), m, Twin[m]) \in Searches
  BY <1>2, <1>3, AddNodeKept
<1>5. AddNode(AddNode(AddNode(t, m, Curved[m]), m, Twin[m]), m, Straight[m]) \in Searches
  BY <1>2, <1>4, AddNodeKept
<1> QED BY <1>1, <1>5 DEF Expand, t

LEMMA SearchKept ==
  ASSUME NEW tr, NEW e \in Edges, NEW end
  PROVE  Search(tr, e, end) \in Searches
<1> DEFINE first == [dist |-> [n \in Nodes |-> IF n \in Starts(e) THEN 0 ELSE Far],
                     pred |-> [n \in Nodes |-> NULL], heap |-> <<Twin[Src(e)], Dest(e)>>]
           round == [k \in Nat |-> [s \in Searches |->
             IF s.heap = <<>> \/ Head(s.heap) = end THEN s ELSE Expand(s, tr, Head(s.heap))]]
<1>1. Cardinality(Nodes) \in Nat
  BY TrackAssumption, FS_CardinalityType
<1>2. first \in Searches
  <2>1. Src(e) \in Nodes /\ Dest(e) \in Nodes /\ Twin[Src(e)] \in Nodes
    BY TrackAssumption DEF Edges, Src, Dest
  <2>2. Far \in Nat
    BY <1>1, TurnAssumption DEF Far
  <2>3. <<Twin[Src(e)], Dest(e)>> \in Seq(Nodes)
    BY <2>1
  <2> QED BY <2>2, <2>3 DEF Searches
<1>3. ASSUME NEW k \in 1 .. Cardinality(Nodes), NEW s \in Searches PROVE round[k][s] \in Searches
  <2>1. s.heap # <<>> => Head(s.heap) \in Nodes
    <3>1. s.heap \in Seq(Nodes)
      BY DEF Searches
    <3> QED BY <3>1, HeadTailProperties
  <2>2. round[k][s] = IF s.heap = <<>> \/ Head(s.heap) = end THEN s ELSE Expand(s, tr, Head(s.heap))
    BY <1>1
  <2> QED BY <2>1, <2>2, ExpandKept
<1>4. Search(tr, e, end) = Loop(round, first, Cardinality(Nodes))
  BY DEF Search
<1> HIDE DEF first, round
<1> QED BY <1>1, <1>2, <1>3, <1>4, LoopStays

LEMMA FindPathRow ==
  ASSUME NEW tr, NEW e \in Edges, NEW end \in Nodes
  PROVE  FindPath(tr, e, end) \in Seq(Nodes)
<1> DEFINE s == Search(tr, e, end)
           back == [k \in Nat |-> [path \in Seq(Nodes) |->
             LET before == s.pred[Head(path)] IN IF before = NULL THEN path ELSE <<before>> \o path]]
           R == {path \in Seq(Nodes) : path # <<>>}
<1>1. s \in Searches
  BY SearchKept
<1> HIDE DEF s
<1>2. Cardinality(Nodes) \in Nat
  BY TrackAssumption, FS_CardinalityType
<1>3. ASSUME NEW k \in 1 .. Cardinality(Nodes), NEW path \in R PROVE back[k][path] \in R
  <2> DEFINE before == s.pred[Head(path)]
  <2>1. Head(path) \in Nodes /\ path \in Seq(Nodes)
    BY HeadTailProperties
  <2>2. before \in Nodes \cup {NULL}
    BY <1>1, <2>1 DEF Searches
  <2>3. back[k][path] = IF before = NULL THEN path ELSE <<before>> \o path
    BY <1>2, <2>1
  <2> HIDE DEF before, back
  <2>4. CASE before # NULL
    <3>1. <<before>> \in Seq(Nodes) /\ Len(<<before>>) = 1
      BY <2>2, <2>4
    <3>2. <<before>> \o path \in Seq(Nodes) /\ Len(<<before>> \o path) = 1 + Len(path)
      BY <2>1, <3>1, ConcatProperties
    <3>3. Len(path) \in Nat
      BY <2>1, LenProperties
    <3>4. <<before>> \o path # <<>>
      BY <3>2, <3>3
    <3> QED BY <2>3, <2>4, <3>2, <3>4
  <2> QED BY <2>3, <2>4
<1>4. <<end>> \in R
  OBVIOUS
<1>5. Loop(back, <<end>>, Cardinality(Nodes)) \in R
  <2> HIDE DEF back, R
  <2> QED BY <1>2, <1>3, <1>4, LoopStays
<1>6. FindPath(tr, e, end) \in {<<>>, Loop(back, <<end>>, Cardinality(Nodes))}
  BY DEF FindPath, s
<1> HIDE DEF back
<1> QED BY <1>5, <1>6, EmptySeq
-----------------------------------------------------------------------------
(* The inductive invariant.  Types, of what the handlers read as well; a train
   that has missed too many sensors does not ask its timer for another answer. *)
TrainRecords ==
  [edge : Edges, next : Sensors \cup {NULL}, ring : Seq(Nodes),
   motion : {"STOP", "CONST_SP", "ACCEL", "DECEL"}, speed : 0 .. TopSpeed + 1,
   path : Rings, result : Results]

Ats == {"gone", "idle", "waiting", "tripped", "asking", "detour", "found", "granted", "refused", "turning",
        "turned", "moving", "still", "located", "replying", "panic", "hung", "corrupt"}
Bys == {"none", "courier", "missed", "timer", "done", "speed", "goto", "short"}
PlaceRecords ==
  [at : Ats, by : Bys, arg : 0 .. TopSpeed + 1, want : Nat, last : Nodes \cup {NULL},
   way : Seq(Nodes)]

CourierRecords == [tid : Couriers, at : {"handed", "waiting", "heard"}, sensor : Sensors]

TrackInv == SwitchesOK /\ OwnerOK /\ PairsAgree

CourierInv ==
  /\ ServerOK
  /\ courier \in CourierRecords \cup {NoCourier}
  /\ elsewhere \in [Foreign -> SensorIds \cup {NOTASK}]

RestInv ==
  /\ blocked \in BOOLEAN /\ timer \in BOOLEAN
  /\ shortMove \subseteq {"stop", "done"}
  /\ reverser \in [at : {"none", "stop", "dir", "go"}, speed : 0 .. TopSpeed + 1]
  /\ conductor \in {"none", "awake", "waiting"}

MissedInTime ==
  /\ missed \in 0 .. Missable + 1
  /\ \/ missed <= Missable
     \/ ~timer /\ pc.by \notin {"timer", "missed"}
     \/ pc.at = "replying" /\ train.result = "GOTO_LOST"
  /\ pc.at = "replying" => pc.by \in {"timer", "missed"}

TaskInv ==
  /\ TrackInv /\ RestInv /\ MissedInTime
  /\ train \in TrainRecords /\ pc \in PlaceRecords

TrainInv == TaskInv /\ CourierInv

(* Nothing reserved is forgotten, in the middle of a handler either; trainDir
   reserves the end of the edge a step before it is in the ring. *)
Lost == {"panic", "hung", "corrupt"}
Remembered ==
  /\ pc.at \notin Lost =>
       \A n \in Nodes : owner[n] = Me =>
         \/ n \in Places(ToSet(train.ring))
         \/ pc.at = "turned" /\ n \in Places({Dest(train.edge)})
  /\ pc.at = "gone" => train.ring = <<>>

(* Who waits for a sensor: the couriers' tasks are told apart, and who has an
   answer waits no longer. *)
SlotsInv ==
  /\ anyone = <<>>
  /\ SlotsAreLive
  /\ WaitersKeepTheirPlace
  /\ \A s \in SensorIds : waiter[s] \in Foreign => elsewhere[waiter[s]] = s
  /\ \A s \in SensorIds : waiter[s] # NOTASK => answer[waiter[s]] = NONE
  /\ \A c \in Couriers : courier.at # "waiting" \/ courier.tid # c => answer[c] = NONE
  /\ \A c \in Foreign : elsewhere[c] = NOTASK => answer[c] = NONE
-----------------------------------------------------------------------------
(* Rows of nodes: their ends, their parts, and what is in them. *)
LEMMA RowOf ==
  ASSUME NEW row \in Seq(Nodes)
  PROVE  /\ Len(row) \in Nat /\ DOMAIN row = 1 .. Len(row)
         /\ \A i \in 1 .. Len(row) : row[i] \in Nodes
         /\ ToSet(row) \subseteq Nodes
         /\ \A n : n \in ToSet(row) <=> \E i \in 1 .. Len(row) : row[i] = n
<1>1. Len(row) \in Nat /\ DOMAIN row = 1 .. Len(row) /\ \A i \in 1 .. Len(row) : row[i] \in Nodes
  BY LenProperties, ElementOfSeq
<1> QED BY <1>1 DEF ToSet

LEMMA EndsOf ==
  ASSUME NEW row \in Seq(Nodes), row # <<>>
  PROVE  /\ Len(row) \in Nat \ {0}
         /\ Head(row) \in Nodes /\ Head(row) = row[1] /\ Head(row) \in ToSet(row)
         /\ Last(row) \in Nodes /\ Last(row) = row[Len(row)] /\ Last(row) \in ToSet(row)
         /\ Tail(row) \in Seq(Nodes) /\ Len(Tail(row)) = Len(row) - 1
         /\ \A n : n \in ToSet(row) => n = Head(row) \/ n \in ToSet(Tail(row))
<1>1. Len(row) \in Nat \ {0} /\ 1 \in 1 .. Len(row) /\ Len(row) \in 1 .. Len(row)
  BY EmptySeq, LenProperties
<1>2. Head(row) = row[1] /\ Last(row) = row[Len(row)]
  BY <1>1 DEF Last
<1>3. /\ Tail(row) \in Seq(Nodes) /\ Len(Tail(row)) = Len(row) - 1
      /\ \A i \in 1 .. Len(Tail(row)) : Tail(row)[i] = row[i + 1]
  BY HeadTailProperties
<1>4. ASSUME NEW n \in ToSet(row), n # Head(row) PROVE n \in ToSet(Tail(row))
  <2>1. PICK i \in 1 .. Len(row) : row[i] = n
    BY RowOf
  <2>2. i # 1
    BY <1>2, <1>4, <2>1
  <2>3. i - 1 \in 1 .. Len(Tail(row)) /\ (i - 1) + 1 = i
    BY <1>1, <1>3, <2>2
  <2>4. Tail(row)[i - 1] = n
    BY <1>3, <2>1, <2>3
  <2> QED BY <1>3, <2>3, <2>4, RowOf
<1> QED BY <1>1, <1>2, <1>3, <1>4, RowOf

LEMMA PartOf ==
  ASSUME NEW row \in Seq(Nodes), NEW m \in 1 .. Len(row) + 1, NEW n \in 0 .. Len(row)
  PROVE  /\ SubSeq(row, m, n) \in Seq(Nodes)
         /\ \A x : x \in ToSet(SubSeq(row, m, n)) <=> \E i \in m .. n : row[i] = x
<1>1. Len(row) \in Nat
  BY RowOf
<1>2. /\ SubSeq(row, m, n) \in Seq(Nodes)
      /\ Len(SubSeq(row, m, n)) = IF m <= n THEN n - m + 1 ELSE 0
      /\ \A i \in 1 .. Len(SubSeq(row, m, n)) : SubSeq(row, m, n)[i] = row[m + i - 1]
  <2>1. \A i \in m .. n : row[i] \in Nodes
    BY <1>1, RowOf
  <2> QED BY <1>1, <2>1, SubSeqProperties
<1>3. ASSUME NEW i \in m .. n PROVE row[i] \in ToSet(SubSeq(row, m, n))
  <2>1. i - m + 1 \in 1 .. Len(SubSeq(row, m, n)) /\ m + (i - m + 1) - 1 = i
    BY <1>1, <1>2
  <2>2. SubSeq(row, m, n)[i - m + 1] = row[i]
    BY <1>2, <2>1
  <2> QED BY <1>2, <2>1, <2>2, RowOf
<1>4. ASSUME NEW x \in ToSet(SubSeq(row, m, n)) PROVE \E i \in m .. n : row[i] = x
  <2>1. PICK j \in 1 .. Len(SubSeq(row, m, n)) : SubSeq(row, m, n)[j] = x
    BY <1>2, RowOf
  <2>2. m + j - 1 \in m .. n
    BY <1>1, <1>2
  <2> QED BY <1>2, <2>1, <2>2
<1> QED BY <1>2, <1>3, <1>4

LEMMA JoinOf ==
  ASSUME NEW a \in Seq(Nodes), NEW b \in Seq(Nodes)
  PROVE  /\ a \o b \in Seq(Nodes) /\ Len(a \o b) = Len(a) + Len(b)
         /\ \A x : x \in ToSet(a \o b) <=> x \in ToSet(a) \/ x \in ToSet(b)
<1>1. Len(a) \in Nat /\ Len(b) \in Nat
  BY RowOf
<1>2. /\ a \o b \in Seq(Nodes) /\ Len(a \o b) = Len(a) + Len(b)
      /\ \A i \in 1 .. Len(a) + Len(b) : (a \o b)[i] = IF i <= Len(a) THEN a[i] ELSE b[i - Len(a)]
  BY ConcatProperties
<1>3. ASSUME NEW x \in ToSet(a) PROVE x \in ToSet(a \o b)
  <2>1. PICK i \in 1 .. Len(a) : a[i] = x
    BY RowOf
  <2>2. i \in 1 .. Len(a \o b) /\ (a \o b)[i] = x
    BY <1>1, <1>2, <2>1
  <2> QED BY <1>2, <2>2, RowOf
<1>4. ASSUME NEW x \in ToSet(b) PROVE x \in ToSet(a \o b)
  <2>1. PICK i \in 1 .. Len(b) : b[i] = x
    BY RowOf
  <2>2. i + Len(a) \in 1 .. Len(a \o b) /\ (i + Len(a)) - Len(a) = i /\ ~(i + Len(a) <= Len(a))
    BY <1>1, <1>2
  <2>3. (a \o b)[i + Len(a)] = x
    BY <1>1, <1>2, <2>1, <2>2
  <2> QED BY <1>2, <2>2, <2>3, RowOf
<1>5. ASSUME NEW x \in ToSet(a \o b) PROVE x \in ToSet(a) \/ x \in ToSet(b)
  <2>1. PICK i \in 1 .. Len(a \o b) : (a \o b)[i] = x
    BY <1>2, RowOf
  <2>2. CASE i <= Len(a)
    <3>1. i \in 1 .. Len(a) /\ a[i] = x
      BY <1>1, <1>2, <2>1, <2>2
    <3> QED BY <3>1, RowOf
  <2>3. CASE i > Len(a)
    <3>1. i - Len(a) \in 1 .. Len(b) /\ b[i - Len(a)] = x
      BY <1>1, <1>2, <2>1, <2>3
    <3> QED BY <3>1, RowOf
  <2> QED BY <1>1, <2>2, <2>3
<1> QED BY <1>2, <1>3, <1>4, <1>5

LEMMA AppendOf ==
  ASSUME NEW row \in Seq(Nodes), NEW n \in Nodes
  PROVE  /\ Append(row, n) \in Seq(Nodes) /\ Append(row, n) # <<>>
         /\ \A x : x \in ToSet(Append(row, n)) <=> x \in ToSet(row) \/ x = n
<1>1. /\ Append(row, n) \in Seq(Nodes) /\ Len(Append(row, n)) = Len(row) + 1 /\ Len(row) \in Nat
      /\ \A i \in 1 .. Len(row) : Append(row, n)[i] = row[i]
      /\ Append(row, n)[Len(row) + 1] = n
  BY AppendProperties, RowOf
<1>2. ASSUME NEW x \in ToSet(row) PROVE x \in ToSet(Append(row, n))
  <2>1. PICK i \in 1 .. Len(row) : row[i] = x
    BY RowOf
  <2>2. i \in 1 .. Len(Append(row, n)) /\ Append(row, n)[i] = x
    BY <1>1, <2>1
  <2> QED BY <1>1, <2>2, RowOf
<1>3. n \in ToSet(Append(row, n))
  <2>1. Len(row) + 1 \in 1 .. Len(Append(row, n))
    BY <1>1
  <2> QED BY <1>1, <2>1, RowOf
<1>4. ASSUME NEW x \in ToSet(Append(row, n)), x # n PROVE x \in ToSet(row)
  <2>1. PICK i \in 1 .. Len(Append(row, n)) : Append(row, n)[i] = x
    BY <1>1, RowOf
  <2>2. i \in 1 .. Len(row) /\ row[i] = x
    BY <1>1, <1>4, <2>1
  <2> QED BY <2>2, RowOf
<1>5. Append(row, n) # <<>>
  BY <1>1
<1> QED BY <1>1, <1>2, <1>3, <1>4, <1>5
-----------------------------------------------------------------------------
(* What the operators on Train_t make of a train. *)
LEMMA NodesOf ==
  ASSUME NEW t \in TrainRecords
  PROVE  /\ t.edge \in Edges /\ Dest(t.edge) \in Nodes /\ Src(t.edge) \in Nodes
         /\ t.ring \in Seq(Nodes) /\ t.speed \in 0 .. TopSpeed + 1
         /\ (HasPath(t) => t.path \in Seq(Nodes) /\ t.path # <<>> /\ Head(t.path) \in Nodes)
         /\ (t.path # NULL => t.path \in Seq(Nodes))
         /\ t.next \in Nodes \cup {NULL} /\ (t.next # NULL => t.next \in Sensors)
<1>1. t.edge \in Edges /\ Dest(t.edge) \in Nodes /\ Src(t.edge) \in Nodes
  BY DEF TrainRecords, Edges, Dest, Src
<1>2. HasPath(t) => t.path \in Seq(Nodes) /\ t.path # <<>>
  BY DEF TrainRecords, HasPath, Rings
<1> QED BY <1>1, <1>2, HeadTailProperties DEF TrainRecords, Rings, Sensors

LEMMA OnwardRow ==
  ASSUME NEW t \in TrainRecords
  PROVE  Onward(t) \in Seq(Nodes) /\ Onward(t) # <<>>
<1> DEFINE a   == <<Dest(t.edge)>>
           b   == IF HasPath(t) THEN Tail(t.path) ELSE <<>>
           row == a \o b
           far == Along(Last(row), Cardinality(Nodes))
<1>1. a \in Seq(Nodes) /\ Len(a) = 1
  BY NodesOf
<1>2. b \in Seq(Nodes)
  BY NodesOf, EndsOf, EmptySeq
<1>3. row \in Seq(Nodes) /\ row # <<>>
  <2> HIDE DEF a, b
  <2>1. row \in Seq(Nodes) /\ Len(row) = Len(a) + Len(b)
    BY <1>1, <1>2, JoinOf
  <2>2. Len(b) \in Nat
    BY <1>2, RowOf
  <2> QED BY <1>1, <2>1, <2>2
<1> HIDE DEF row
<1>4. far \in Seq(Nodes) /\ far # <<>>
  <2>1. Cardinality(Nodes) \in Nat
    BY TrackAssumption, FS_CardinalityType
  <2>2. Last(row) \in Nodes
    BY <1>3, EndsOf
  <2> QED BY <2>1, <2>2, AlongRow
<1> HIDE DEF far
<1>5. Tail(far) \in Seq(Nodes)
  BY <1>4, EndsOf
<1>6. /\ row \o Tail(far) \in Seq(Nodes) /\ Len(row \o Tail(far)) = Len(row) + Len(Tail(far))
      /\ Len(Tail(far)) \in Nat /\ Len(row) \in Nat \ {0}
  BY <1>3, <1>5, JoinOf, RowOf, EndsOf
<1>7. row \o Tail(far) # <<>>
  BY <1>6
<1> QED BY <1>6, <1>7 DEF Onward, row, far

LEMMA NextSensorIs ==
  ASSUME NEW t \in TrainRecords
  PROVE  NextSensor(t) \in Sensors \cup {NULL}
<1> DEFINE row == Onward(t)
<1>1. row \in Seq(Nodes)
  BY OnwardRow
<1> HIDE DEF row
<1>2. FirstIn(row, Sensors) # 0 => row[FirstIn(row, Sensors)] \in Sensors
  BY <1>1, FirstInRow
<1> QED BY <1>2 DEF NextSensor, row

LEMMA SetSpeedKept ==
  ASSUME NEW t \in TrainRecords, NEW speed \in 0 .. TopSpeed + 1
  PROVE  /\ SetSpeed(t, speed) \in TrainRecords
         /\ SetSpeed(t, speed).ring = t.ring /\ SetSpeed(t, speed).edge = t.edge
         /\ SetSpeed(t, speed).result = t.result
<1>1. NextSensor(t) \in Sensors \cup {NULL}
  BY NextSensorIs
<1> QED BY <1>1 DEF SetSpeed, TrainRecords

LEMMA UpdateNextKept ==
  ASSUME NEW t \in TrainRecords
  PROVE  /\ UpdateNext(t) \in TrainRecords
         /\ UpdateNext(t).ring = t.ring /\ UpdateNext(t).edge = t.edge
         /\ UpdateNext(t).result = t.result
<1>1. NextSensor(t) \in Sensors \cup {NULL}
  BY NextSensorIs
<1>2. 0 \in 0 .. TopSpeed + 1
  BY TrainAssumption
<1>3. /\ SetSpeed(t, 0) \in TrainRecords
      /\ SetSpeed(t, 0).ring = t.ring /\ SetSpeed(t, 0).edge = t.edge
      /\ SetSpeed(t, 0).result = t.result
  BY <1>2, SetSpeedKept
<1> DEFINE u == IF NextSensor(t) = NULL /\ Moving(t) THEN SetSpeed(t, 0) ELSE t
<1>4. u \in TrainRecords /\ u.ring = t.ring /\ u.edge = t.edge /\ u.result = t.result
  BY <1>3
<1>5. UpdateNext(t) = [u EXCEPT !.next = NextSensor(t)]
  BY DEF UpdateNext
<1> HIDE DEF u
<1> QED BY <1>1, <1>4, <1>5 DEF TrainRecords

LEMMA PassPathKept ==
  ASSUME NEW t \in TrainRecords, NEW row \in Seq(Nodes)
  PROVE  /\ PassPath(t, row) \in TrainRecords
         /\ PassPath(t, row).ring = t.ring /\ PassPath(t, row).edge = t.edge
         /\ PassPath(t, row).result = t.result
<1> DEFINE pass == [i \in DOMAIN row |-> [path \in Seq(Nodes) |->
             IF path # <<>> /\ Head(path) = row[i] THEN Tail(path) ELSE path]]
<1>1. CASE t.path = NULL
  BY <1>1 DEF PassPath
<1>2. CASE t.path # NULL
  <2>1. t.path \in Seq(Nodes) /\ Len(row) \in Nat /\ DOMAIN row = 1 .. Len(row)
    BY <1>2, NodesOf, RowOf
  <2>2. ASSUME NEW i \in 1 .. Len(row), NEW path \in Seq(Nodes) PROVE pass[i][path] \in Seq(Nodes)
    <3>1. path # <<>> => Tail(path) \in Seq(Nodes)
      BY EndsOf
    <3> QED BY <2>1, <3>1
  <2>3. PassPath(t, row) = [t EXCEPT !.path = Loop(pass, t.path, Len(row))]
    BY <1>2 DEF PassPath
  <2>4. Loop(pass, t.path, Len(row)) \in Seq(Nodes)
    <3> HIDE DEF pass
    <3> QED BY <2>1, <2>2, LoopStays
  <2> HIDE DEF pass
  <2> QED BY <2>3, <2>4 DEF TrainRecords, Rings
<1> QED BY <1>1, <1>2

(* push_back_resv keeps what is in the ring and adds the node, unless the node or
   its reverse is there. *)
LEMMA PushKept ==
  ASSUME NEW ring \in Rings, NEW n \in Nodes, Push(ring, n) # NULL
  PROVE  /\ ring # NULL /\ Push(ring, n) \in Seq(Nodes) /\ Push(ring, n) # <<>>
         /\ ToSet(ring) \subseteq ToSet(Push(ring, n))
         /\ n \in Places(ToSet(Push(ring, n)))
<1>1. ring # NULL /\ ring \in Seq(Nodes)
  BY DEF Push, Rings
<1>2. CASE ring = <<>>
  <2>1. Push(ring, n) = Append(ring, n)
    BY <1>1, <1>2 DEF Push
  <2> QED BY <1>1, <2>1, AppendOf DEF Places
<1>3. CASE ring # <<>> /\ n \in Places({Last(ring)})
  <2>1. Push(ring, n) = ring
    BY <1>1, <1>3 DEF Push
  <2>2. n \in Places(ToSet(ring))
    BY <1>1, <1>3, EndsOf DEF Places
  <2> QED BY <1>1, <1>3, <2>1, <2>2
<1>4. CASE ring # <<>> /\ n \notin Places({Last(ring)})
  <2>1. Push(ring, n) = Append(ring, n)
    BY <1>1, <1>4 DEF Push
  <2> QED BY <1>1, <2>1, AppendOf DEF Places
<1> QED BY <1>2, <1>3, <1>4

(* A loop that pushes the nodes of a row, but for some that are there. *)
LEMMA PushLoop ==
  ASSUME NEW ring \in Rings, NEW row \in Seq(Nodes), NEW body,
         \A k \in 1 .. Len(row) : \A r \in Rings :
           \/ body[k][r] = Push(r, row[k])
           \/ body[k][r] = r /\ r # NULL /\ row[k] \in ToSet(r)
  PROVE  LET made == Loop(body, ring, Len(row)) IN
         /\ made \in Rings
         /\ made # NULL => /\ ring # NULL /\ ToSet(ring) \subseteq ToSet(made)
                           /\ \A n \in ToSet(row) : n \in Places(ToSet(made))
<1> DEFINE Good(r, k) == r # NULL => /\ ring # NULL /\ ToSet(ring) \subseteq ToSet(r)
                                     /\ \A i \in 1 .. k : row[i] \in Places(ToSet(r))
           P == {p \in Rings \X Nat : Good(p[1], p[2])}
<1>1. Len(row) \in Nat /\ \A i \in 1 .. Len(row) : row[i] \in Nodes
  BY RowOf
<1>2. <<ring, 0>> \in P
  OBVIOUS
<1>3. ASSUME NEW k \in 1 .. Len(row), NEW r, <<r, k - 1>> \in P
      PROVE  <<body[k][r], k>> \in P
  <2>1. r \in Rings /\ Good(r, k - 1) /\ k \in Nat \ {0} /\ row[k] \in Nodes
    BY <1>1, <1>3
  <2>2. body[k][r] \in Rings /\ Good(body[k][r], k)
    <3>1. CASE body[k][r] = Push(r, row[k])
      <4>1. CASE Push(r, row[k]) = NULL
        BY <3>1, <4>1 DEF Rings
      <4>2. CASE Push(r, row[k]) # NULL
        <5> DEFINE q == Push(r, row[k])
        <5>1. /\ r # NULL /\ q \in Seq(Nodes) /\ ToSet(r) \subseteq ToSet(q)
              /\ row[k] \in Places(ToSet(q))
          BY <2>1, <4>2, PushKept
        <5> HIDE DEF q
        <5>2. Places(ToSet(r)) \subseteq Places(ToSet(q))
          BY <5>1 DEF Places
        <5>3. \A i \in 1 .. k : row[i] \in Places(ToSet(q))
          <6> TAKE i \in 1 .. k
          <6>1. CASE i = k
            BY <5>1, <6>1
          <6>2. CASE i # k
            <7>1. i \in 1 .. k - 1
              BY <2>1, <6>2
            <7> QED BY <2>1, <5>1, <5>2, <7>1
          <6> QED BY <6>1, <6>2
        <5>4. Good(q, k)
          BY <2>1, <5>1, <5>3
        <5>5. q \in Rings
          BY <5>1 DEF Rings
        <5> HIDE DEF Good
        <5> QED BY <3>1, <5>4, <5>5 DEF q
      <4> QED BY <4>1, <4>2
    <3>2. CASE body[k][r] = r /\ r # NULL /\ row[k] \in ToSet(r)
      <4>1. \A i \in 1 .. k : row[i] \in Places(ToSet(r))
        <5> TAKE i \in 1 .. k
        <5>1. i = k \/ i \in 1 .. k - 1
          BY <2>1
        <5> QED BY <2>1, <3>2, <5>1 DEF Places
      <4> QED BY <2>1, <3>2, <4>1
    <3> QED BY <2>1, <3>1, <3>2
  <2> HIDE DEF Good
  <2> QED BY <2>1, <2>2
<1> DEFINE made == Loop(body, ring, Len(row))
<1>4. <<made, Len(row)>> \in P
  <2> HIDE DEF P
  <2> QED BY <1>1, <1>2, <1>3, LoopInvariant
<1> HIDE DEF made
<1>5. made \in Rings /\ Good(made, Len(row))
  <2> HIDE DEF Good
  <2> QED BY <1>4
<1>6. \A n \in ToSet(row) : \E i \in 1 .. Len(row) : row[i] = n
  BY RowOf
<1> QED BY <1>5, <1>6 DEF made

LEMMA PushAllKept ==
  ASSUME NEW ring \in Rings, NEW row \in Seq(Nodes)
  PROVE  /\ PushAll(ring, row) \in Rings
         /\ PushAll(ring, row) # NULL =>
              /\ ring # NULL /\ ToSet(ring) \subseteq ToSet(PushAll(ring, row))
              /\ \A n \in ToSet(row) : n \in Places(ToSet(PushAll(ring, row)))
<1> DEFINE body == [i \in DOMAIN row |-> [r \in Rings |-> Push(r, row[i])]]
<1>1. \A k \in 1 .. Len(row) : \A r \in Rings :
        \/ body[k][r] = Push(r, row[k])
        \/ body[k][r] = r /\ r # NULL /\ row[k] \in ToSet(r)
  BY RowOf
<1>2. PushAll(ring, row) = Loop(body, ring, Len(row))
  BY DEF PushAll
<1> HIDE DEF body
<1> QED BY <1>1, <1>2, PushLoop

LEMMA PushGrantedKept ==
  ASSUME NEW ring \in Rings, NEW toResv \in Seq(Nodes), NEW row \in Seq(Nodes)
  PROVE  /\ PushGranted(ring, toResv, row) \in Rings
         /\ PushGranted(ring, toResv, row) # NULL =>
              /\ ring # NULL /\ ToSet(ring) \subseteq ToSet(PushGranted(ring, toResv, row))
              /\ \A n \in ToSet(row) : n \in Places(ToSet(PushGranted(ring, toResv, row)))
<1> DEFINE base == Max({0, FirstIn(ring, {Head(toResv)}) - 1})
           body == [i \in DOMAIN row |-> [r \in Rings |->
             IF r # NULL /\ base + i <= Len(r) /\ r[base + i] = row[i] THEN r ELSE Push(r, row[i])]]
<1>0. CASE ring = NULL
  <2>1. ASSUME NEW k \in 1 .. Len(row), NEW r \in {NULL} PROVE body[k][r] \in {NULL}
    BY <2>1, RowOf DEF Push, Rings
  <2>2. Len(row) \in Nat /\ ring \in {NULL}
    BY <1>0, RowOf
  <2>3. PushGranted(ring, toResv, row) = Loop(body, ring, Len(row))
    BY DEF PushGranted
  <2> HIDE DEF body
  <2>4. Loop(body, ring, Len(row)) \in {NULL}
    BY <2>1, <2>2, LoopStays
  <2> QED BY <2>3, <2>4 DEF Rings
<1>1. CASE ring # NULL
  <2>1. base \in Nat
    <3>1. FirstIn(ring, {Head(toResv)}) \in Nat
      <4>1. ring \in Seq(Nodes)
        BY <1>1 DEF Rings
      <4>2. FirstIn(ring, {Head(toResv)}) \in 0 .. Len(ring) /\ Len(ring) \in Nat
        BY <4>1, FirstInRow
      <4> QED BY <4>2
    <3> DEFINE k == FirstIn(ring, {Head(toResv)})
    <3> HIDE DEF k
    <3>2. k \in Nat
      BY <3>1 DEF k
    <3>3. Max({0, k - 1}) = IF 0 >= k - 1 THEN 0 ELSE k - 1
      BY <3>2, OfTwo
    <3>4. Max({0, k - 1}) \in Nat
      BY <3>2, <3>3
    <3> QED BY <3>4 DEF k
  <2>2. PushGranted(ring, toResv, row) = Loop(body, ring, Len(row))
    BY DEF PushGranted
  <2> HIDE DEF base
  <2>3. \A k \in 1 .. Len(row) : \A r \in Rings :
          \/ body[k][r] = Push(r, row[k])
          \/ body[k][r] = r /\ r # NULL /\ row[k] \in ToSet(r)
    <3> TAKE k \in 1 .. Len(row)
    <3> TAKE r \in Rings
    <3>1. k \in Nat \ {0} /\ body[k][r] = IF r # NULL /\ base + k <= Len(r) /\ r[base + k] = row[k]
                                          THEN r ELSE Push(r, row[k])
      BY RowOf
    <3> HIDE DEF body
    <3>2. CASE r # NULL /\ base + k <= Len(r) /\ r[base + k] = row[k]
      <4>1. r \in Seq(Nodes) /\ Len(r) \in Nat
        BY <3>2, RowOf DEF Rings
      <4>2. base + k \in 1 .. Len(r)
        BY <2>1, <3>1, <3>2, <4>1
      <4>3. row[k] \in ToSet(r)
        BY <3>2, <4>1, <4>2, RowOf
      <4> QED BY <3>1, <3>2, <4>3
    <3> QED BY <3>1, <3>2
  <2> HIDE DEF body
  <2> QED BY <2>2, <2>3, PushLoop
<1> QED BY <1>0, <1>1
-----------------------------------------------------------------------------
(* The nodes the dispatcher tries, and those it swaps: all that may be swapped. *)
LEMMA ReachRow ==
  ASSUME NEW path \in Seq(Nodes), path # <<>>, NEW dist \in Nat
  PROVE  Reach(path, dist) \in Seq(Nodes)
<1> DEFINE n   == Max({dist, 0}) + 1
           far == Along(Last(path), n - Len(path))
<1>1. Reach(path, dist) = IF n <= Len(path) THEN SubSeq(path, 1, n) ELSE path \o Tail(far)
  BY DEF Reach
<1>2. n \in Nat
  BY OfTwo
<1>3. Len(path) \in Nat \ {0} /\ Last(path) \in Nodes
  BY EndsOf
<1> HIDE DEF n
<1>4. n <= Len(path) => SubSeq(path, 1, n) \in Seq(Nodes)
  BY <1>2, <1>3, PartOf
<1>5. ~(n <= Len(path)) => far \in Seq(Nodes) /\ far # <<>>
  <2>1. ~(n <= Len(path)) => n - Len(path) \in Nat
    BY <1>2, <1>3
  <2> QED BY <1>3, <2>1, AlongRow
<1> HIDE DEF far
<1>6. ~(n <= Len(path)) => path \o Tail(far) \in Seq(Nodes)
  BY <1>5, EndsOf, JoinOf
<1> QED BY <1>1, <1>4, <1>6

LEMMA SwappableRow ==
  ASSUME NEW row \in Seq(Nodes), NEW old, NEW new
  PROVE  /\ Swappable(row, old, new) \in 0 .. Len(row)
         /\ SubSeq(row, 1, Swappable(row, old, new)) \in Seq(Nodes)
         /\ ToSet(SubSeq(row, 1, Swappable(row, old, new))) \subseteq ToSet(row)
         /\ \A n \in ToSet(SubSeq(row, 1, Swappable(row, old, new))) : MaySwap(n, old, new)
         /\ Swappable(row, old, new) = Len(row) => \A n \in ToSet(row) : MaySwap(n, old, new)
<1> DEFINE T == {i \in DOMAIN row : ~MaySwap(row[i], old, new)}
           k == Swappable(row, old, new)
<1>1. Len(row) \in Nat /\ DOMAIN row = 1 .. Len(row)
  BY RowOf, LenProperties
<1>2. k = IF T = {} THEN Len(row) ELSE Min(T) - 1
  BY DEF Swappable
<1>3. T # {} => Min(T) \in T /\ \A m \in T : Min(T) <= m
  <2>1. T \in SUBSET Nat
    BY <1>1
  <2> HIDE DEF T
  <2> QED BY <2>1, MinIs
<1>4. k \in 0 .. Len(row) /\ \A i \in 1 .. k : MaySwap(row[i], old, new)
  <2>1. CASE T = {}
    BY <1>1, <1>2, <2>1
  <2>2. CASE T # {}
    <3>1. Min(T) \in 1 .. Len(row) /\ \A i \in 1 .. Len(row) : ~MaySwap(row[i], old, new) => Min(T) <= i
      BY <1>1, <1>3, <2>2
    <3>2. k = Min(T) - 1
      BY <1>2, <2>2
    <3> HIDE DEF T, k
    <3>3. \A i \in 1 .. Min(T) - 1 : MaySwap(row[i], old, new)
      BY <1>1, <3>1
    <3> QED BY <1>1, <3>1, <3>2, <3>3
  <2> QED BY <2>1, <2>2
<1> HIDE DEF k
<1>5. 1 \in 1 .. Len(row) + 1
  BY <1>1
<1>6. /\ SubSeq(row, 1, k) \in Seq(Nodes)
      /\ \A x : x \in ToSet(SubSeq(row, 1, k)) <=> \E i \in 1 .. k : row[i] = x
  BY <1>4, <1>5, PartOf
<1>7. \A i \in 1 .. k : row[i] \in ToSet(row)
  BY <1>1, <1>4, RowOf
<1>8. k = Len(row) => \A n \in ToSet(row) : MaySwap(n, old, new)
  BY <1>4, RowOf
<1> QED BY <1>4, <1>6, <1>7, <1>8 DEF k

(* No train's node becomes another's: what NeverTaken says of a step. *)
Kept == \A n \in Nodes : {owner[n], owner'[n]} \subseteq Trains => owner'[n] = owner[n]

LEMMA SwapMoves ==
  ASSUME TrackInv, NEW tr \in Trains, NEW new \in {NOBODY, tr},
         NEW row \in Seq(Nodes), \A n \in ToSet(row) : MaySwap(n, NOBODY, tr),
         owner' = Swapped(row, new)
  PROVE  /\ OwnerOK' /\ PairsAgree' /\ Kept
         /\ \A n \in Nodes : owner'[n] = IF n \in Places(ToSet(row)) THEN new ELSE owner[n]
<1> DEFINE S == Places(ToSet(row))
<1>1. \A n \in Nodes : owner'[n] = IF n \in S THEN new ELSE owner[n]
  BY DEF Swapped
<1>2. \A n \in Nodes : Twin[n] \in Nodes /\ (Twin[n] \in S <=> n \in S)
  BY TrackAssumption, RowOf DEF Places
<1>3. \A n \in S : owner[n] \in {NOBODY, tr}
  BY DEF Places, MaySwap
<1>4. OwnerOK'
  BY <1>1 DEF Swapped, TrackInv, OwnerOK
<1> HIDE DEF S
<1>5. PairsAgree'
  BY <1>1, <1>2 DEF PairsAgree, TrackInv
<1>6. Kept
  BY <1>1, <1>3, OwnerAssumption DEF Kept
<1> QED BY <1>1, <1>4, <1>5, <1>6 DEF S

LEMMA NotSwapped ==
  ASSUME TrackInv, UNCHANGED owner
  PROVE  OwnerOK' /\ PairsAgree' /\ Kept
BY DEF TrackInv, OwnerOK, PairsAgree, Kept
-----------------------------------------------------------------------------
(* The two parts of a row. *)
LEMMA SplitOf ==
  ASSUME NEW row \in Seq(Nodes), NEW n \in 0 .. Len(row)
  PROVE  /\ SubSeq(row, 1, n) \in Seq(Nodes) /\ SubSeq(row, n + 1, Len(row)) \in Seq(Nodes)
         /\ \A x \in ToSet(row) : \/ x \in ToSet(SubSeq(row, 1, n))
                                  \/ x \in ToSet(SubSeq(row, n + 1, Len(row)))
         /\ ToSet(SubSeq(row, 1, n)) \subseteq ToSet(row)
         /\ Len(SubSeq(row, 1, n)) = n
<1>1. Len(row) \in Nat /\ 1 \in 1 .. Len(row) + 1 /\ n + 1 \in 1 .. Len(row) + 1 /\ Len(row) \in 0 .. Len(row)
  BY RowOf
<1>2. /\ SubSeq(row, 1, n) \in Seq(Nodes)
      /\ \A x : x \in ToSet(SubSeq(row, 1, n)) <=> \E i \in 1 .. n : row[i] = x
  BY <1>1, PartOf
<1>3. /\ SubSeq(row, n + 1, Len(row)) \in Seq(Nodes)
      /\ \A x : x \in ToSet(SubSeq(row, n + 1, Len(row))) <=> \E i \in n + 1 .. Len(row) : row[i] = x
  BY <1>1, PartOf
<1>4. ASSUME NEW x \in ToSet(row)
      PROVE  x \in ToSet(SubSeq(row, 1, n)) \/ x \in ToSet(SubSeq(row, n + 1, Len(row)))
  <2>1. PICK i \in 1 .. Len(row) : row[i] = x
    BY RowOf
  <2>2. i \in 1 .. n \/ i \in n + 1 .. Len(row)
    BY <1>1
  <2> QED BY <1>2, <1>3, <2>1, <2>2
<1>5. \A i \in 1 .. n : i \in 1 .. Len(row)
  BY <1>1
<1>6. ToSet(SubSeq(row, 1, n)) \subseteq ToSet(row)
  BY <1>2, <1>5, RowOf
<1>7. Len(SubSeq(row, 1, n)) = n
  <2>1. \A i \in 1 .. n : row[i] \in Nodes
    BY <1>5, RowOf
  <2> QED BY <1>1, <2>1, SubSeqProperties
<1> QED BY <1>2, <1>3, <1>4, <1>6, <1>7

LEMMA BeforeIs ==
  ASSUME NEW row \in Seq(Nodes), NEW set
  PROVE  Before(row, set) \in 0 .. Len(row)
<1> DEFINE k == FirstIn(row, set)
<1>1. k \in 0 .. Len(row) /\ Len(row) \in Nat
  BY FirstInRow
<1>2. Before(row, set) = IF k = 0 THEN Len(row) ELSE k - 1
  BY DEF Before
<1> HIDE DEF k
<1> QED BY <1>1, <1>2

LEMMA SwitchesForOK ==
  ASSUME TrackInv, NEW row
  PROVE  SwitchesFor(row) \in [Branches -> {"straight", "curved"}]
BY DEF SwitchesFor, TrackInv, SwitchesOK

(* Letting go of a row of nodes, or an ASSERT. *)
LEMMA LetGoDoes ==
  ASSUME TrackInv, train \in TrainRecords, NEW row \in Seq(Nodes), NEW t \in TrainRecords,
         NEW at \in PlaceRecords, LetGo(row, t, at)
  PROVE  /\ OwnerOK' /\ PairsAgree' /\ Kept /\ train' \in TrainRecords /\ pc' \in PlaceRecords
         /\ \/ /\ train' = t /\ pc' = at
               /\ \A n \in Nodes : owner'[n] = Me => owner[n] = Me /\ n \notin Places(ToSet(row))
            \/ pc' = Place("panic", "none", 0) /\ UNCHANGED <<owner, train>>
<1>1. CASE \A i \in DOMAIN row : MaySwap(row[i], Me, NOBODY)
  <2>1. owner' = Swapped(row, NOBODY) /\ train' = t /\ pc' = at
    BY <1>1 DEF LetGo
  <2>2. \A n \in ToSet(row) : MaySwap(n, NOBODY, Me)
    BY <1>1, RowOf DEF MaySwap
  <2>3. Me \in Trains
    BY TrainAssumption
  <2>4. /\ OwnerOK' /\ PairsAgree' /\ Kept
        /\ \A n \in Nodes : owner'[n] = IF n \in Places(ToSet(row)) THEN NOBODY ELSE owner[n]
    BY <2>1, <2>2, <2>3, SwapMoves
  <2> QED BY <2>1, <2>3, <2>4, OwnerAssumption
<1>2. CASE ~\A i \in DOMAIN row : MaySwap(row[i], Me, NOBODY)
  <2>1. pc' = Place("panic", "none", 0) /\ UNCHANGED <<owner, train>>
    BY <1>2 DEF LetGo, Panic
  <2>2. Place("panic", "none", 0) \in PlaceRecords
    BY TrainAssumption DEF Place, PlaceRecords, Ats, Bys
  <2> QED BY <2>1, <2>2, NotSwapped
<1> QED BY <1>1, <1>2

(* It forgets nothing when what was in the ring is let go or still there. *)
LEMMA LetGoRemembers ==
  ASSUME TrackInv, train \in TrainRecords, NEW row \in Seq(Nodes), NEW t \in TrainRecords,
         NEW at \in PlaceRecords, LetGo(row, t, at),
         Remembered, pc.at \notin Lost \cup {"turned"}, at.at = "gone" => t.ring = <<>>,
         \A x \in ToSet(train.ring) : x \in ToSet(row) \/ x \in ToSet(t.ring)
  PROVE  Remembered'
<1>1. \/ /\ train' = t /\ pc' = at
         /\ \A n \in Nodes : owner'[n] = Me => owner[n] = Me /\ n \notin Places(ToSet(row))
      \/ pc' = Place("panic", "none", 0) /\ UNCHANGED <<owner, train>>
  BY LetGoDoes
<1>2. \A n \in Nodes : owner[n] = Me => n \in Places(ToSet(train.ring))
  BY DEF Remembered
<1>3. CASE pc' = Place("panic", "none", 0)
  BY <1>3 DEF Remembered, Place, Lost
<1>4. CASE /\ train' = t /\ pc' = at
           /\ \A n \in Nodes : owner'[n] = Me => owner[n] = Me /\ n \notin Places(ToSet(row))
  <2>1. ASSUME NEW n \in Nodes, owner'[n] = Me PROVE n \in Places(ToSet(t.ring))
    <3>1. n \in Places(ToSet(train.ring)) /\ n \notin Places(ToSet(row))
      BY <1>2, <1>4, <2>1
    <3>2. PICK x \in ToSet(train.ring) : n = x \/ n = Twin[x]
      BY <3>1 DEF Places
    <3>3. x \in ToSet(t.ring)
      BY <3>1, <3>2 DEF Places
    <3> QED BY <3>2, <3>3 DEF Places
  <2> QED BY <1>4, <2>1 DEF Remembered
<1> QED BY <1>1, <1>3, <1>4

(* Nothing is forgotten when nothing changes hands and the ring stays. *)
LEMMA StaysRemembered ==
  ASSUME Remembered, UNCHANGED owner, pc.at \notin Lost \cup {"turned"},
         ToSet(train.ring) \subseteq ToSet(train'.ring),
         pc'.at = "gone" => pc.at = "gone" /\ train'.ring = train.ring
  PROVE  Remembered'
<1>1. \A n \in Nodes : owner'[n] = Me => n \in Places(ToSet(train.ring))
  BY DEF Remembered
<1>2. Places(ToSet(train.ring)) \subseteq Places(ToSet(train'.ring))
  BY DEF Places
<1> QED BY <1>1, <1>2 DEF Remembered

(* Nor when what the train gets goes into the ring. *)
LEMMA GrantRemembers ==
  ASSUME TrackInv, Remembered, pc.at \notin Lost \cup {"turned"}, pc'.at # "gone",
         NEW row \in Seq(Nodes), \A n \in ToSet(row) : MaySwap(n, NOBODY, Me),
         owner' = Swapped(row, Me), train'.ring \in Seq(Nodes),
         ToSet(train.ring) \subseteq ToSet(train'.ring),
         \A n \in ToSet(row) : n \in Places(ToSet(train'.ring))
  PROVE  Remembered'
<1>1. \A n \in Nodes : owner'[n] = IF n \in Places(ToSet(row)) THEN Me ELSE owner[n]
  <2>1. Me \in Trains
    BY TrainAssumption
  <2> QED BY <2>1, SwapMoves
<1>2. \A n \in Nodes : owner[n] = Me => n \in Places(ToSet(train.ring))
  BY DEF Remembered
<1>3. Places(ToSet(train.ring)) \subseteq Places(ToSet(train'.ring))
  BY DEF Places
<1>4. Places(ToSet(row)) \subseteq Places(ToSet(train'.ring))
  <2>1. ToSet(train'.ring) \subseteq Nodes
    BY RowOf
  <2> HIDE DEF Lost
  <2> QED BY <2>1, TrackAssumption DEF Places
<1>5. \A n \in Nodes : owner'[n] = Me => n \in Places(ToSet(train'.ring))
  BY <1>1, <1>2, <1>3, <1>4
<1> QED BY <1>5 DEF Remembered

(* A step that is not about missed sensors. *)
LEMMA MissedStays ==
  ASSUME MissedInTime, missed' = missed, timer' \in BOOLEAN, timer' => timer, pc.at # "replying",
         pc'.by \in {"timer", "missed"} => pc.by \in {"timer", "missed"},
         pc'.at = "replying" => pc'.by \in {"timer", "missed"}
  PROVE  MissedInTime'
BY DEF MissedInTime
-----------------------------------------------------------------------------
(* Where the task is. *)
LEMMA PlaceIs ==
  ASSUME NEW at \in Ats, NEW by \in Bys, NEW arg \in 0 .. TopSpeed + 1
  PROVE  /\ Place(at, by, arg) \in PlaceRecords
         /\ Place(at, by, arg).at = at /\ Place(at, by, arg).by = by
BY DEF Place, PlaceRecords

LEMMA OnIs ==
  ASSUME pc \in PlaceRecords, NEW at \in Ats
  PROVE  On(at) \in PlaceRecords /\ On(at).at = at /\ On(at).by = pc.by
BY DEF On, PlaceRecords

LEMMA AskingIs ==
  ASSUME NEW by \in Bys, NEW arg \in 0 .. TopSpeed + 1, NEW want \in Wants, NEW ring \in Seq(Nodes)
  PROVE  /\ Asking(by, arg, want, ring) \in PlaceRecords
         /\ Asking(by, arg, want, ring).at = "asking" /\ Asking(by, arg, want, ring).by = by
<1>1. ring # <<>> => Last(ring) \in Nodes
  BY EndsOf
<1>2. want \in Nat
  BY TrainAssumption
<1>3. Place("asking", by, arg) \in PlaceRecords /\ Place("asking", by, arg).by = by
      /\ Place("asking", by, arg).at = "asking"
  BY PlaceIs DEF Ats
<1> QED BY <1>1, <1>2, <1>3 DEF Asking, PlaceRecords

LEMMA Speeds == 0 \in 0 .. TopSpeed + 1 /\ 1 \in 0 .. TopSpeed + 1 /\ GotoSpeed \in 0 .. TopSpeed + 1
BY TrainAssumption

LEMMA IdleIs ==
  /\ IDLE \in PlaceRecords /\ IDLE.at = "idle" /\ IDLE.by = "none"
  /\ Place("panic", "none", 0) \in PlaceRecords
  /\ Place("panic", "none", 0).at = "panic" /\ Place("panic", "none", 0).by = "none"
BY Speeds DEF IDLE, Place, PlaceRecords, Ats, Bys

LEMMA PanicRemembers ==
  ASSUME pc' = Place("panic", "none", 0)
  PROVE  Remembered'
BY DEF Remembered, Lost, Place

(* What every step keeps. *)
StepKept == TaskInv' /\ Kept /\ (Remembered => Remembered')

(* A step that only moves on: what a proof of it has to say. *)
LEMMA MovesOn ==
  ASSUME TaskInv, UNCHANGED <<switches, owner, missed>>, RestInv', timer' => timer,
         pc.at \notin Lost \cup {"turned", "replying"},
         train' \in TrainRecords, train'.ring = train.ring,
         pc' \in PlaceRecords, pc'.at = "gone" => pc.at = "gone",
         pc'.by \in {"timer", "missed"} => pc.by \in {"timer", "missed"},
         pc'.at = "replying" => pc'.by \in {"timer", "missed"}
  PROVE  StepKept
<1>1. TrackInv'
  BY NotSwapped DEF TaskInv, TrackInv, SwitchesOK
<1>2. Kept
  BY NotSwapped DEF TaskInv
<1>3. MissedInTime'
  BY MissedStays DEF TaskInv, RestInv
<1>4. Remembered => Remembered'
  BY StaysRemembered
<1> QED BY <1>1, <1>2, <1>3, <1>4 DEF TaskInv, StepKept

LEMMA ReadsStaleKept ==
  ASSUME TaskInv, ReadsStale
  PROVE  StepKept
<1>1. pc' = Place("corrupt", "none", 0) /\ UNCHANGED allButPc /\ pc.at \in {"idle", "turning", "moving", "asking", "found"}
  BY DEF ReadsStale
<1>2. Place("corrupt", "none", 0) \in PlaceRecords /\ pc'.at = "corrupt" /\ pc'.by = "none"
  BY <1>1, Speeds DEF Place, PlaceRecords, Ats, Bys
<1>3. RestInv'
  BY <1>1 DEF TaskInv, RestInv, allButPc, talk, clocks
<1> QED BY <1>1, <1>2, <1>3, MovesOn DEF allButPc, clocks, Lost, TaskInv

LEMMA NoTrainIs == NoTrain \in TrainRecords /\ NoTrain.ring = <<>>
<1>1. (CHOOSE e \in Edges : TRUE) \in Edges
  BY EdgeAssumption
<1>2. <<>> \in Seq(Nodes)
  BY EmptySeq
<1> QED BY <1>1, <1>2, Speeds DEF NoTrain, NewTrain, TrainRecords, Results, Rings

LEMMA CreateKept ==
  ASSUME TaskInv, NEW s \in Attributed, NEW k \in 0 .. 1, NEW both \in BOOLEAN, Create(s, k, both)
  PROVE  StepKept
<1> DEFINE row == Along(s, k + 1)
           e   == <<row[k + 1], row[k + 2]>>
           got == IF both THEN e ELSE <<Src(e)>>
           t   == [UpdateNext(NewTrain(e)) EXCEPT !.ring = got]
<1>1. /\ pc.at = "gone" /\ Len(row) = k + 2
      /\ \/ /\ Swappable(got, NOBODY, Me) = Len(got)
            /\ owner' = Swapped(got, Me) /\ train' = t /\ pc' = IDLE
         \/ pc' = Place("panic", "none", 0) /\ UNCHANGED <<owner, train>>
      /\ timer' = TRUE /\ missed' = 0
      /\ UNCHANGED <<switches, talk, shortMove, reverser, waiting>>
  BY DEF Create, Panic
<1>2. e \in Edges
  <2>1. s \in Nodes /\ k + 1 \in Nat
    BY TrainAssumption DEF Sensors
  <2>2. \A i \in 1 .. Len(row) - 1 : <<row[i], row[i + 1]>> \in Edges
    BY <2>1, AlongRow
  <2> HIDE DEF row
  <2>3. k + 1 \in 1 .. Len(row) - 1 /\ (k + 1) + 1 = k + 2
    BY <1>1
  <2>4. <<row[k + 1], row[(k + 1) + 1]>> \in Edges
    BY <2>2, <2>3
  <2> QED BY <2>3, <2>4
<1> HIDE DEF row
<1>3. got \in Seq(Nodes)
  <2>1. e[1] \in Nodes /\ e[2] \in Nodes
    BY <1>2 DEF Edges
  <2>2. <<e[1], e[2]>> \in Seq(Nodes) /\ <<e[1]>> \in Seq(Nodes)
    BY <2>1
  <2> QED BY <2>2 DEF Src
<1> HIDE DEF e
<1>4. t \in TrainRecords /\ t.ring = got
  <2>1. NewTrain(e) \in TrainRecords
    BY <1>2, Speeds, EmptySeq DEF NewTrain, TrainRecords, Results, Rings
  <2>2. UpdateNext(NewTrain(e)) \in TrainRecords
    BY <2>1, UpdateNextKept
  <2> HIDE DEF got
  <2> QED BY <1>3, <2>2 DEF TrainRecords
<1> HIDE DEF got, t
<1>5. RestInv' /\ MissedInTime'
  BY <1>1, TrainAssumption, IdleIs DEF TaskInv, RestInv, MissedInTime, talk, IDLE
<1>6. CASE pc' = Place("panic", "none", 0) /\ UNCHANGED <<owner, train>>
  BY <1>1, <1>5, <1>6, NotSwapped, IdleIs, PanicRemembers DEF TaskInv, TrackInv, SwitchesOK, StepKept
<1>7. CASE /\ Swappable(got, NOBODY, Me) = Len(got)
           /\ owner' = Swapped(got, Me) /\ train' = t /\ pc' = IDLE
  <2>1. \A n \in ToSet(got) : MaySwap(n, NOBODY, Me)
    BY <1>3, <1>7, SwappableRow
  <2>2. Me \in Trains
    BY TrainAssumption
  <2>3. OwnerOK' /\ PairsAgree' /\ Kept
    BY <1>3, <1>7, <2>1, <2>2, SwapMoves DEF TaskInv
  <2>4. ASSUME Remembered PROVE Remembered'
    <3>1. ToSet(train.ring) \subseteq ToSet(train'.ring)
      <4>1. train.ring = <<>>
        BY <1>1, <2>4 DEF Remembered
      <4> QED BY <4>1 DEF ToSet
    <3>2. \A n \in ToSet(got) : n \in Places(ToSet(train'.ring))
      BY <1>4, <1>7 DEF Places
    <3>3. pc.at \notin Lost \cup {"turned"} /\ pc'.at # "gone"
      BY <1>1, <1>7, IdleIs DEF Lost
    <3> QED BY <1>3, <1>4, <1>7, <2>1, <2>4, <3>1, <3>2, <3>3, GrantRemembers DEF TaskInv
  <2> QED BY <1>1, <1>4, <1>5, <1>7, <2>3, <2>4, IdleIs DEF TaskInv, TrackInv, SwitchesOK, StepKept
<1> QED BY <1>1, <1>6, <1>7

LEMMA DeleteKept ==
  ASSUME TaskInv, Delete
  PROVE  StepKept
<1> DEFINE at == Place("gone", "none", 0)
<1>1. /\ pc.at = "idle" /\ LetGo(train.ring, NoTrain, at)
      /\ timer' = FALSE /\ shortMove' = {} /\ reverser' = [at |-> "none", speed |-> 0]
      /\ blocked' = FALSE /\ conductor' = "none" /\ missed' = 0 /\ UNCHANGED switches
  BY DEF Delete, AtRest
<1>2. at \in PlaceRecords /\ at.at = "gone" /\ at.by = "none"
  BY PlaceIs, Speeds DEF Ats, Bys
<1> HIDE DEF at
<1>3. train.ring \in Seq(Nodes) /\ TrackInv /\ train \in TrainRecords
  BY NodesOf DEF TaskInv
<1>4. /\ OwnerOK' /\ PairsAgree' /\ Kept /\ train' \in TrainRecords /\ pc' \in PlaceRecords
      /\ \/ train' = NoTrain /\ pc' = at
         \/ pc' = Place("panic", "none", 0) /\ UNCHANGED <<owner, train>>
  BY <1>1, <1>2, <1>3, LetGoDoes, NoTrainIs
<1>5. RestInv' /\ MissedInTime'
  <2>1. RestInv'
    BY <1>1, Speeds DEF RestInv
  <2>2. pc'.at # "replying"
    BY <1>2, <1>4, IdleIs
  <2>3. Missable \in Nat
    BY TrainAssumption
  <2> QED BY <1>1, <2>1, <2>2, <2>3 DEF MissedInTime
<1>6. Remembered => Remembered'
  BY <1>1, <1>2, <1>3, NoTrainIs, LetGoRemembers DEF Lost
<1> QED BY <1>1, <1>3, <1>4, <1>5, <1>6 DEF TaskInv, TrackInv, SwitchesOK, StepKept

LEMMA WaitOnNextKept ==
  ASSUME TaskInv, WaitOnNext
  PROVE  StepKept
<1>1. /\ pc.at = "waiting" /\ pc' = IF pc.by = "missed" THEN On("replying") ELSE IDLE
      /\ UNCHANGED <<switches, owner, train, missed, talk, clocks>>
  BY DEF WaitOnNext
<1>2. pc' \in PlaceRecords /\ pc'.at # "gone" /\ pc'.by \in {pc.by, "none"}
      /\ (pc'.at = "replying" => pc'.by = "missed")
  BY <1>1, OnIs, IdleIs DEF TaskInv, Ats
<1>3. RestInv'
  BY <1>1 DEF TaskInv, RestInv, talk, clocks
<1> QED BY <1>1, <1>2, <1>3, MovesOn DEF TaskInv, clocks, Lost

LEMMA CourierWaitsKept ==
  ASSUME TaskInv, CourierWaits
  PROVE  StepKept
<1>1. pc.at = "idle" /\ UNCHANGED <<switches, owner, train, missed, talk, clocks, pc>>
  BY DEF CourierWaits, AtRest
<1>2. RestInv'
  BY <1>1 DEF TaskInv, RestInv, talk, clocks
<1> QED BY <1>1, <1>2, MovesOn DEF TaskInv, clocks, Lost
-----------------------------------------------------------------------------
(* A sensor has tripped: what the train has and where it is when it is past its
   next sensor, and the row of nodes it passed. *)
LEMMA PastSensorRow ==
  ASSUME NEW t \in TrainRecords, t.next # NULL
  PROVE  LET n   == Before(t.ring, {t.next})
             u   == [t EXCEPT !.edge = IF NextNode(t.next) = NULL THEN @ ELSE NextEdge(t.next),
                              !.ring = SubSeq(@, n + 1, Len(@))]
             row == SubSeq(t.ring, 1, Min({n + 1, Len(t.ring)}))
         IN u \in TrainRecords /\ u.ring = SubSeq(t.ring, n + 1, Len(t.ring)) /\ row \in Seq(Nodes)
<1> DEFINE n   == Before(t.ring, {t.next})
           u   == [t EXCEPT !.edge = IF NextNode(t.next) = NULL THEN @ ELSE NextEdge(t.next),
                            !.ring = SubSeq(@, n + 1, Len(@))]
           row == SubSeq(t.ring, 1, Min({n + 1, Len(t.ring)}))
<1>1. t.ring \in Seq(Nodes) /\ t.next \in Nodes /\ t.edge \in Edges
  BY NodesOf
<1>2. n \in 0 .. Len(t.ring) /\ Len(t.ring) \in Nat
  BY <1>1, BeforeIs, RowOf
<1>3. row \in Seq(Nodes)
  <2> HIDE DEF n
  <2>1. n + 1 \in Int /\ Len(t.ring) \in Int
    BY <1>2
  <2>2. Min({n + 1, Len(t.ring)}) \in 0 .. Len(t.ring)
    <3> DEFINE l == Len(t.ring)
               m == n + 1
    <3> HIDE DEF l, m
    <3>1. Min({m, l}) = IF m <= l THEN m ELSE l
      BY <2>1, OfTwo DEF l, m
    <3> QED BY <1>2, <3>1 DEF l, m
  <2> QED BY <1>1, <2>2, SplitOf
<1>4. u \in TrainRecords /\ u.ring = SubSeq(t.ring, n + 1, Len(t.ring))
  <2>1. SubSeq(t.ring, n + 1, Len(t.ring)) \in Seq(Nodes)
    BY <1>1, <1>2, SplitOf
  <2>2. (IF NextNode(t.next) = NULL THEN t.edge ELSE NextEdge(t.next)) \in Edges
    BY <1>1, NextIsAhead
  <2> HIDE DEF n
  <2> QED BY <2>1, <2>2 DEF TrainRecords
<1> QED BY <1>3, <1>4

LEMMA PastSensorKept ==
  ASSUME NEW t \in TrainRecords, t.next # NULL
  PROVE  /\ PastSensor(t) \in TrainRecords
         /\ PastSensor(t).ring = SubSeq(t.ring, Before(t.ring, {t.next}) + 1, Len(t.ring))
<1> DEFINE n   == Before(t.ring, {t.next})
           u   == [t EXCEPT !.edge = IF NextNode(t.next) = NULL THEN @ ELSE NextEdge(t.next),
                            !.ring = SubSeq(@, n + 1, Len(@))]
           row == SubSeq(t.ring, 1, Min({n + 1, Len(t.ring)}))
<1>1. u \in TrainRecords /\ u.ring = SubSeq(t.ring, n + 1, Len(t.ring)) /\ row \in Seq(Nodes)
  BY PastSensorRow
<1>2. PastSensor(t) = UpdateNext(PassPath(u, row))
  BY DEF PastSensor
<1> HIDE DEF u, row
<1>3. PassPath(u, row) \in TrainRecords /\ PassPath(u, row).ring = u.ring
  BY <1>1, PassPathKept
<1> QED BY <1>1, <1>2, <1>3, UpdateNextKept

LEMMA TripDoes ==
  ASSUME TaskInv, NEW t0 \in TrainRecords, t0.next # NULL, t0.ring = train.ring,
         NEW by \in Bys, Trip(t0, by)
  PROVE  /\ OwnerOK' /\ PairsAgree' /\ Kept
         /\ train' \in TrainRecords /\ pc' \in PlaceRecords
         /\ pc'.by \in {by, "none"} /\ pc'.at \in {"tripped", "asking", "panic"}
         /\ Remembered /\ pc.at \notin Lost \cup {"turned"} => Remembered'
<1> DEFINE t      == PastSensor(t0)
           n      == Before(t0.ring, {t0.next})
           passed == SubSeq(t0.ring, 1, n)
<1>1. TrackInv /\ train \in TrainRecords /\ t0.ring \in Seq(Nodes)
  BY NodesOf DEF TaskInv
<1>2. n \in 0 .. Len(t0.ring)
  BY <1>1, BeforeIs
<1>3. t \in TrainRecords /\ t.ring = SubSeq(t0.ring, n + 1, Len(t0.ring))
  BY PastSensorKept
<1>4. /\ passed \in Seq(Nodes) /\ t.ring \in Seq(Nodes)
      /\ \A x \in ToSet(train.ring) : x \in ToSet(passed) \/ x \in ToSet(t.ring)
  BY <1>1, <1>2, <1>3, SplitOf
<1> DEFINE more == Append(passed, Head(t.ring))
           u    == [t EXCEPT !.ring = Tail(@)]
<1>5. \/ LetGo(passed, t, Place("tripped", by, 0))
      \/ t.ring = <<>> /\ Panic /\ UNCHANGED <<owner, train>>
      \/ /\ t.ring # <<>>
         /\ \E want \in Wants : LetGo(more, u, Asking(by, 0, want, Tail(t.ring)))
  BY DEF Trip, Enough
<1> HIDE DEF t, n, passed
<1>6. CASE LetGo(passed, t, Place("tripped", by, 0))
  <2> DEFINE at == Place("tripped", by, 0)
  <2>1. at \in PlaceRecords /\ at.at = "tripped" /\ at.by = by
    BY Speeds, PlaceIs DEF Ats
  <2> HIDE DEF at
  <2>2. LetGo(passed, t, at)
    BY <1>6 DEF at
  <2>3. /\ OwnerOK' /\ PairsAgree' /\ Kept /\ train' \in TrainRecords /\ pc' \in PlaceRecords
        /\ pc' \in {at, Place("panic", "none", 0)}
    BY <1>1, <1>3, <1>4, <2>1, <2>2, LetGoDoes
  <2>4. Remembered /\ pc.at \notin Lost \cup {"turned"} => Remembered'
    BY <1>1, <1>3, <1>4, <2>1, <2>2, LetGoRemembers
  <2> QED BY <2>1, <2>3, <2>4, IdleIs
<1>7. CASE t.ring = <<>> /\ Panic /\ UNCHANGED <<owner, train>>
  BY <1>1, <1>7, IdleIs, NotSwapped, PanicRemembers DEF Panic
<1>8. ASSUME t.ring # <<>>, NEW want \in Wants, LetGo(more, u, Asking(by, 0, want, Tail(t.ring)))
      PROVE  /\ OwnerOK' /\ PairsAgree' /\ Kept
             /\ train' \in TrainRecords /\ pc' \in PlaceRecords
             /\ pc'.by \in {by, "none"} /\ pc'.at \in {"tripped", "asking", "panic"}
             /\ Remembered /\ pc.at \notin Lost \cup {"turned"} => Remembered'
  <2> DEFINE at == Asking(by, 0, want, Tail(t.ring))
  <2>1. /\ Head(t.ring) \in Nodes /\ Tail(t.ring) \in Seq(Nodes)
        /\ \A x \in ToSet(t.ring) : x = Head(t.ring) \/ x \in ToSet(Tail(t.ring))
    BY <1>4, <1>8, EndsOf
  <2>2. at \in PlaceRecords /\ at.at = "asking" /\ at.by = by
    <3> DEFINE rest == Tail(t.ring)
    <3>1. rest \in Seq(Nodes) /\ 0 \in 0 .. TopSpeed + 1 /\ by \in Bys
      BY <2>1, Speeds DEF Bys
    <3>2. at = Asking(by, 0, want, rest)
      OBVIOUS
    <3> HIDE DEF rest, at
    <3> QED BY <3>1, <3>2, AskingIs
  <2>3. u \in TrainRecords /\ u.ring = Tail(t.ring)
    <3> DEFINE rest == Tail(t.ring)
    <3>1. rest \in Seq(Nodes) /\ t \in TrainRecords /\ u = [t EXCEPT !.ring = rest]
      BY <1>3, <2>1
    <3> HIDE DEF rest, u
    <3> QED BY <3>1 DEF TrainRecords, rest
  <2>4. more \in Seq(Nodes) /\ \A x : x \in ToSet(more) <=> x \in ToSet(passed) \/ x = Head(t.ring)
    BY <1>4, <2>1, AppendOf
  <2> HIDE DEF at, u, more
  <2>5. LetGo(more, u, at)
    BY <1>8 DEF at
  <2>6. \A x \in ToSet(train.ring) : x \in ToSet(more) \/ x \in ToSet(u.ring)
    BY <1>4, <2>1, <2>3, <2>4
  <2>7. /\ OwnerOK' /\ PairsAgree' /\ Kept /\ train' \in TrainRecords /\ pc' \in PlaceRecords
        /\ pc' \in {at, Place("panic", "none", 0)}
    BY <1>1, <2>2, <2>3, <2>4, <2>5, LetGoDoes
  <2>8. Remembered /\ pc.at \notin Lost \cup {"turned"} => Remembered'
    BY <1>1, <2>2, <2>3, <2>4, <2>5, <2>6, LetGoRemembers
  <2> QED BY <2>2, <2>7, <2>8, IdleIs
<1> QED BY <1>5, <1>6, <1>7, <1>8

LEMMA CourierReportsKept ==
  ASSUME TaskInv, CourierReports
  PROVE  StepKept
<1>1. /\ pc.at = "idle" /\ missed' = 0
      /\ IF train.next = NULL THEN UNCHANGED <<owner, train, pc>> ELSE Trip(train, "courier")
      /\ UNCHANGED <<switches, talk, clocks>>
  BY DEF CourierReports, AtRest
<1>2. RestInv'
  BY <1>1 DEF TaskInv, RestInv, talk, clocks
<1>3. ASSUME pc'.at # "replying" PROVE MissedInTime'
  BY <1>1, <1>3, TrainAssumption DEF MissedInTime
<1>4. CASE train.next = NULL
  <2>1. Kept /\ TrackInv'
    BY <1>1, <1>4, NotSwapped DEF TaskInv, TrackInv, SwitchesOK
  <2> QED BY <1>1, <1>2, <1>3, <1>4, <2>1 DEF TaskInv, StepKept, Remembered
<1>5. CASE train.next # NULL
  <2>1. /\ OwnerOK' /\ PairsAgree' /\ Kept
        /\ train' \in TrainRecords /\ pc' \in PlaceRecords
        /\ pc'.by \in {"courier", "none"} /\ pc'.at \in {"tripped", "asking", "panic"}
        /\ Remembered /\ pc.at \notin Lost \cup {"turned"} => Remembered'
    BY <1>1, <1>5, TripDoes DEF TaskInv, Bys
  <2>2. pc'.at # "replying" /\ pc.at \notin Lost \cup {"turned"}
    BY <1>1, <2>1 DEF Lost
  <2> QED BY <1>1, <1>2, <1>3, <2>1, <2>2 DEF TaskInv, TrackInv, SwitchesOK, StepKept
<1> QED BY <1>4, <1>5

LEMMA AfterTripDoes ==
  ASSUME NEW t \in TrainRecords, NEW by \in Bys, AfterTrip(t, by)
  PROVE  /\ train' \in TrainRecords /\ train'.ring = t.ring
         /\ pc' \in PlaceRecords /\ pc'.by \in {by, "none"} /\ pc'.at # "gone"
         /\ pc'.at = "replying" => pc'.by = "missed"
<1> DEFINE done == [t EXCEPT !.result = "GOTO_COMPLETE"]
<1>1. done \in TrainRecords /\ done.ring = t.ring
  BY DEF TrainRecords, Results
<1>2. SetSpeed(t, 0) \in TrainRecords /\ SetSpeed(t, 0).ring = t.ring
  BY SetSpeedKept, Speeds
<1>3. \A at \in {"waiting", "replying"} : Place(at, by, 0) \in PlaceRecords
        /\ Place(at, by, 0).at = at /\ Place(at, by, 0).by = by
  BY PlaceIs, Speeds DEF Ats
<1>4. /\ train' \in {done, SetSpeed(t, 0), t}
      /\ \/ pc' = Place("waiting", by, 0)
         \/ pc' = Place("replying", by, 0) /\ by = "missed"
         \/ pc' = IDLE
  BY DEF AfterTrip
<1> HIDE DEF done
<1>5. train' \in TrainRecords /\ train'.ring = t.ring
  BY <1>1, <1>2, <1>4
<1> QED BY <1>3, <1>4, <1>5, IdleIs

LEMMA TripDoneKept ==
  ASSUME TaskInv, TripDone
  PROVE  StepKept
<1>1. /\ pc.at = "tripped" /\ AfterTrip(train, pc.by)
      /\ UNCHANGED <<switches, owner, missed, talk, clocks>>
  BY DEF TripDone
<1>2. train \in TrainRecords /\ pc.by \in Bys
  BY DEF TaskInv, PlaceRecords
<1>3. /\ train' \in TrainRecords /\ train'.ring = train.ring
      /\ pc' \in PlaceRecords /\ pc'.by \in {pc.by, "none"} /\ pc'.at # "gone"
      /\ pc'.at = "replying" => pc'.by = "missed"
  BY <1>1, <1>2, AfterTripDoes
<1>4. RestInv'
  BY <1>1 DEF TaskInv, RestInv, talk, clocks
<1> QED BY <1>1, <1>3, <1>4, MovesOn DEF clocks, Lost
-----------------------------------------------------------------------------
(* A step that lets go of a row, and one that gets one. *)
LEMMA FreesKept ==
  ASSUME TaskInv, pc.at \notin Lost \cup {"turned", "replying"},
         NEW row \in Seq(Nodes), NEW t \in TrainRecords, NEW at \in PlaceRecords, LetGo(row, t, at),
         \A x \in ToSet(train.ring) : x \in ToSet(row) \/ x \in ToSet(t.ring),
         at.at # "gone", at.by \in {pc.by, "none"}, at.at = "replying" => at.by = "timer",
         missed' = missed, RestInv', timer' = timer, SwitchesOK'
  PROVE  StepKept
<1>1. TrackInv /\ train \in TrainRecords
  BY DEF TaskInv
<1>2. /\ OwnerOK' /\ PairsAgree' /\ Kept /\ train' \in TrainRecords /\ pc' \in PlaceRecords
      /\ pc' \in {at, Place("panic", "none", 0)}
  BY <1>1, LetGoDoes
<1>3. Remembered => Remembered'
  BY <1>1, LetGoRemembers
<1>4. MissedInTime'
  <2>1. pc'.by \in {pc.by, "none"} /\ (pc'.at = "replying" => pc'.by = "timer")
    BY <1>2, IdleIs
  <2> QED BY <2>1, MissedStays DEF TaskInv, RestInv
<1> QED BY <1>2, <1>3, <1>4 DEF TaskInv, TrackInv, StepKept

LEMMA GrantedKept ==
  ASSUME TaskInv, pc.at \notin Lost \cup {"turned", "replying"},
         NEW row \in Seq(Nodes), \A n \in ToSet(row) : MaySwap(n, NOBODY, Me),
         owner' = Swapped(row, Me), UNCHANGED <<switches, missed, talk, clocks>>,
         NEW ring \in Rings,
         ring # NULL => /\ ToSet(train.ring) \subseteq ToSet(ring)
                        /\ \A n \in ToSet(row) : n \in Places(ToSet(ring)),
         NEW at \in {"found", "refused", "granted"},
         \/ Panic /\ UNCHANGED train
         \/ /\ ring # NULL /\ train' = [train EXCEPT !.ring = ring]
            /\ pc' = On(at) \/ pc' = [On(at) EXCEPT !.way = <<>>]
  PROVE  StepKept
<1>1. TrackInv /\ Me \in Trains
  BY TrainAssumption DEF TaskInv
<1>2. OwnerOK' /\ PairsAgree' /\ Kept
  BY <1>1, SwapMoves
<1>3. RestInv'
  BY DEF TaskInv, RestInv, talk, clocks
<1>4. CASE Panic /\ UNCHANGED train
  <2>1. MissedInTime'
    BY <1>3, <1>4, IdleIs, MissedStays DEF Panic, TaskInv, RestInv, clocks
  <2> QED BY <1>1, <1>2, <1>3, <1>4, <2>1, IdleIs, PanicRemembers
          DEF Panic, TaskInv, TrackInv, SwitchesOK, StepKept
<1>5. CASE /\ ring # NULL /\ train' = [train EXCEPT !.ring = ring]
           /\ pc' = On(at) \/ pc' = [On(at) EXCEPT !.way = <<>>]
  <2>1. train' \in TrainRecords /\ train'.ring = ring /\ ring \in Seq(Nodes)
    BY <1>5 DEF TaskInv, TrainRecords, Rings
  <2>2. pc' \in PlaceRecords /\ pc'.at = at /\ pc'.by = pc.by
    <3>1. <<>> \in Seq(Nodes) /\ at \in Ats
      BY DEF Ats
    <3> QED BY <1>5, <3>1 DEF On, TaskInv, PlaceRecords
  <2>3. MissedInTime'
    BY <2>2, MissedStays DEF TaskInv, RestInv, clocks
  <2>4. Remembered => Remembered'
    BY <1>1, <1>5, <2>1, <2>2, GrantRemembers
  <2> QED BY <1>1, <1>2, <1>3, <2>1, <2>2, <2>3, <2>4 DEF TaskInv, TrackInv, SwitchesOK, StepKept
<1> QED BY <1>4, <1>5

LEMMA FindsWayKept ==
  ASSUME TaskInv, FindsWay
  PROVE  StepKept
<1> DEFINE way == FindPath(Me, train.edge, Head(train.path))
<1>1. /\ pc.at = "asking" /\ HasPath(train)
      /\ UNCHANGED <<switches, owner, train, missed, talk, clocks>>
      /\ pc' \in {On("refused"), [On("detour") EXCEPT !.way = way]}
  BY DEF FindsWay, Overshot, allButPc
<1>2. way \in Seq(Nodes)
  BY <1>1, NodesOf, FindPathRow DEF TaskInv
<1> HIDE DEF way
<1>3. pc' \in PlaceRecords /\ pc'.at \in {"refused", "detour"} /\ pc'.by = pc.by
  BY <1>1, <1>2 DEF On, TaskInv, PlaceRecords, Ats
<1>4. RestInv'
  BY <1>1 DEF TaskInv, RestInv, talk, clocks
<1> QED BY <1>1, <1>3, <1>4, MovesOn DEF TaskInv, clocks, Lost

LEMMA DetourKept ==
  ASSUME TaskInv, Detour
  PROVE  StepKept
<1> DEFINE got  == SubSeq(pc.way, 1, Swappable(pc.way, NOBODY, Me))
           ring == PushAll(train.ring, got)
<1>1. /\ pc.at = "detour" /\ owner' = Swapped(got, Me)
      /\ UNCHANGED <<switches, missed, talk, clocks>>
      /\ \/ Panic /\ UNCHANGED train
         \/ /\ ring # NULL /\ train' = [train EXCEPT !.ring = ring]
            /\ \E at \in {"found", "refused"} : pc' = [On(at) EXCEPT !.way = <<>>]
  BY DEF Detour
<1>2. pc.way \in Seq(Nodes)
  BY DEF TaskInv, PlaceRecords
<1>3. got \in Seq(Nodes) /\ \A n \in ToSet(got) : MaySwap(n, NOBODY, Me)
  BY <1>2, SwappableRow
<1>4. train.ring \in Seq(Nodes) /\ train.ring \in Rings
  BY NodesOf DEF TaskInv, Rings
<1> HIDE DEF got
<1>5. /\ ring \in Rings
      /\ ring # NULL => /\ ToSet(train.ring) \subseteq ToSet(ring)
                        /\ \A n \in ToSet(got) : n \in Places(ToSet(ring))
  BY <1>3, <1>4, PushAllKept
<1> HIDE DEF ring
<1>6. pc.at \notin Lost \cup {"turned", "replying"}
  BY <1>1 DEF Lost
<1>7. \E at \in {"found", "refused", "granted"} :
        \/ Panic /\ UNCHANGED train
        \/ /\ ring # NULL /\ train' = [train EXCEPT !.ring = ring]
           /\ pc' = On(at) \/ pc' = [On(at) EXCEPT !.way = <<>>]
  BY <1>1
<1> QED BY <1>1, <1>3, <1>5, <1>6, <1>7, GrantedKept

LEMMA ReserveKept ==
  ASSUME TaskInv, Reserve
  PROVE  StepKept
<1> DEFINE toResv == IF HasPath(train) THEN train.path ELSE <<Dest(train.edge)>>
           reach  == Reach(toResv, pc.want)
           got    == SubSeq(reach, 1, Swappable(reach, NOBODY, Me))
           ring   == PushGranted(train.ring, toResv, got)
<1>1. /\ pc.at \in {"asking", "found"} /\ owner' = Swapped(got, Me)
      /\ \/ Panic /\ UNCHANGED train
         \/ /\ ring # NULL /\ train' = [train EXCEPT !.ring = ring]
            /\ \E at \in {"granted", "refused"} : pc' = On(at)
      /\ UNCHANGED <<switches, missed, talk, clocks>>
  BY DEF Reserve
<1>2. toResv \in Seq(Nodes) /\ toResv # <<>>
  <2>1. <<Dest(train.edge)>> \in Seq(Nodes)
    BY NodesOf DEF TaskInv
  <2> QED BY <2>1, NodesOf DEF TaskInv
<1>3. pc.want \in Nat
  BY DEF TaskInv, PlaceRecords
<1> HIDE DEF toResv
<1>4. reach \in Seq(Nodes)
  BY <1>2, <1>3, ReachRow
<1> HIDE DEF reach
<1>5. got \in Seq(Nodes) /\ \A n \in ToSet(got) : MaySwap(n, NOBODY, Me)
  BY <1>4, SwappableRow
<1>6. train.ring \in Seq(Nodes) /\ train.ring \in Rings
  BY NodesOf DEF TaskInv, Rings
<1> HIDE DEF got
<1>7. /\ ring \in Rings
      /\ ring # NULL => /\ ToSet(train.ring) \subseteq ToSet(ring)
                        /\ \A n \in ToSet(got) : n \in Places(ToSet(ring))
  BY <1>2, <1>5, <1>6, PushGrantedKept
<1> HIDE DEF ring
<1>8. pc.at \notin Lost \cup {"turned", "replying"}
  BY <1>1 DEF Lost
<1>9. \E at \in {"found", "refused", "granted"} :
          \/ Panic /\ UNCHANGED train
          \/ /\ ring # NULL /\ train' = [train EXCEPT !.ring = ring]
             /\ pc' = On(at) \/ pc' = [On(at) EXCEPT !.way = <<>>]
  BY <1>1
<1> QED BY <1>1, <1>5, <1>7, <1>8, <1>9, GrantedKept
-----------------------------------------------------------------------------
(* A handler goes on. *)
LEMMA AnsweredKept ==
  ASSUME TaskInv, Answered
  PROVE  StepKept
<1> DEFINE t == IF pc.at = "refused" THEN Refused(train) ELSE train
<1>1. /\ pc.at \in {"granted", "refused"}
      /\ IF pc.by \in {"courier", "missed"} THEN AfterTrip(t, pc.by)
         ELSE train' = t /\ pc' = On("located")
      /\ ExecPath(train.ring, pc.last)
      /\ UNCHANGED <<owner, missed, talk, clocks>>
  BY DEF Answered
<1>2. train \in TrainRecords /\ pc.by \in Bys /\ TrackInv
  BY DEF TaskInv, PlaceRecords
<1>3. t \in TrainRecords /\ t.ring = train.ring
  <2> DEFINE u == SetSpeed(train, 0)
  <2>1. u \in TrainRecords /\ u.ring = train.ring
    BY <1>2, SetSpeedKept, Speeds
  <2> HIDE DEF u
  <2>2. [u EXCEPT !.result = "GOTO_REROUTE"] \in TrainRecords
        /\ [u EXCEPT !.result = "GOTO_REROUTE"].ring = u.ring
    BY <2>1 DEF TrainRecords, Results
  <2>3. Refused(train) = [u EXCEPT !.result = "GOTO_REROUTE"]
    BY DEF Refused, u
  <2> QED BY <1>2, <2>1, <2>2, <2>3
<1> HIDE DEF t
<1>4. /\ train' \in TrainRecords /\ train'.ring = t.ring
      /\ pc' \in PlaceRecords /\ pc'.by \in {pc.by, "none"} /\ pc'.at # "gone"
      /\ pc'.at = "replying" => pc'.by = "missed"
  <2>1. CASE pc.by \in {"courier", "missed"}
    <3>1. AfterTrip(t, pc.by)
      BY <1>1, <2>1
    <3> QED BY <1>2, <1>3, <3>1, AfterTripDoes
  <2>2. CASE pc.by \notin {"courier", "missed"}
    <3>1. train' = t /\ pc' = On("located")
      BY <1>1, <2>2
    <3> QED BY <1>3, <3>1, OnIs DEF TaskInv, Ats
  <2> QED BY <2>1, <2>2
<1>5. TrackInv' /\ Kept
  <2>1. SwitchesOK'
    BY <1>1, <1>2, SwitchesForOK DEF ExecPath, TrackInv, SwitchesOK
  <2> QED BY <1>1, <1>2, <2>1, NotSwapped DEF TrackInv
<1>6. RestInv'
  BY <1>1 DEF TaskInv, RestInv, talk, clocks
<1>7. MissedInTime'
  BY <1>1, <1>4, <1>6, MissedStays DEF TaskInv, RestInv, clocks
<1>8. Remembered => Remembered'
  BY <1>1, <1>3, <1>4, StaysRemembered DEF Lost
<1> QED BY <1>4, <1>5, <1>6, <1>7, <1>8 DEF TaskInv, StepKept

LEMMA DepartKept ==
  ASSUME TaskInv, Depart
  PROVE  StepKept
<1> DEFINE n == Before(train.ring, {Dest(train.edge)})
           t == [train EXCEPT !.ring = SubSeq(@, Len(Behind) + 1, Len(@))]
<1>1. /\ pc.at = "granted"
      /\ \E at \in {Place("hung", "none", 0), On("waiting"), Place("corrupt", "none", 0)} :
           LetGo(Behind, t, at) \/ LetGo(Behind, SetSpeed(t, pc.arg), at)
      /\ SwitchesOK' \/ UNCHANGED switches
      /\ shortMove' = shortMove \/ shortMove' = {"stop", "done"}
      /\ UNCHANGED <<missed, talk, timer, reverser>>
  <2>1. \A ring, last : ExecPath(ring, last) => SwitchesOK' \/ UNCHANGED switches
    BY SwitchesForOK DEF ExecPath, TaskInv, SwitchesOK
  <2> QED BY <2>1 DEF Depart
<1>2. train \in TrainRecords /\ train.ring \in Seq(Nodes) /\ pc.arg \in 0 .. TopSpeed + 1
  BY NodesOf DEF TaskInv, PlaceRecords
<1>3. n \in 0 .. Len(train.ring)
  BY <1>2, BeforeIs
<1>4. /\ Behind \in Seq(Nodes) /\ Len(Behind) = n
      /\ SubSeq(train.ring, n + 1, Len(train.ring)) \in Seq(Nodes)
      /\ \A x \in ToSet(train.ring) : \/ x \in ToSet(Behind)
                                      \/ x \in ToSet(SubSeq(train.ring, n + 1, Len(train.ring)))
  BY <1>2, <1>3, SplitOf DEF Behind
<1>5. t \in TrainRecords /\ t.ring = SubSeq(train.ring, n + 1, Len(train.ring))
  <2> HIDE DEF n
  <2> QED BY <1>2, <1>4 DEF TrainRecords
<1> HIDE DEF t, n
<1>6. SetSpeed(t, pc.arg) \in TrainRecords /\ SetSpeed(t, pc.arg).ring = t.ring
  BY <1>2, <1>5, SetSpeedKept
<1>7. PICK at \in {Place("hung", "none", 0), On("waiting"), Place("corrupt", "none", 0)},
           u \in {t, SetSpeed(t, pc.arg)} : LetGo(Behind, u, at)
  BY <1>1
<1>8. at \in PlaceRecords /\ at.at \notin {"gone", "replying"} /\ at.by \in {pc.by, "none"}
  <2>1. On("waiting") \in PlaceRecords /\ On("waiting").at = "waiting" /\ On("waiting").by = pc.by
    BY OnIs DEF TaskInv, Ats
  <2>2. \A x \in {"hung", "corrupt"} : /\ Place(x, "none", 0) \in PlaceRecords
                                      /\ Place(x, "none", 0).at = x /\ Place(x, "none", 0).by = "none"
    <3> TAKE x \in {"hung", "corrupt"}
    <3>1. x \in Ats /\ "none" \in Bys
      BY DEF Ats, Bys
    <3> QED BY <3>1, PlaceIs, Speeds
  <2>3. pc.by \in {pc.by, "none"} /\ "none" \in {pc.by, "none"}
    OBVIOUS
  <2>4. {"waiting", "hung", "corrupt"} \cap {"gone", "replying"} = {}
    OBVIOUS
  <2>5. at = On("waiting") \/ \E x \in {"hung", "corrupt"} : at = Place(x, "none", 0)
    OBVIOUS
  <2> HIDE DEF On, Place
  <2> QED BY <2>1, <2>2, <2>3, <2>4, <2>5
<1>9. u \in TrainRecords /\ u.ring = t.ring
  BY <1>5, <1>6
<1>10. SwitchesOK' /\ RestInv' /\ timer' = timer /\ missed' = missed
  BY <1>1 DEF TaskInv, TrackInv, SwitchesOK, RestInv, talk
<1>11. pc.at \notin Lost \cup {"turned", "replying"}
  BY <1>1 DEF Lost
<1>12. \A x \in ToSet(train.ring) : x \in ToSet(Behind) \/ x \in ToSet(u.ring)
  BY <1>4, <1>5, <1>9
<1> QED BY <1>4, <1>7, <1>8, <1>9, <1>10, <1>11, <1>12, FreesKept

LEMMA UndoKept ==
  ASSUME TaskInv, Undo
  PROVE  StepKept
<1> DEFINE keep == Undone(train.ring)
           n    == Min({1, Len(train.ring)})
           rest == SubSeq(train.ring, Len(keep) + 1, Len(train.ring))
           t    == [train EXCEPT !.ring = keep,
                                 !.result = IF pc.by = "goto" THEN "GOTO_REROUTE" ELSE @]
<1>1. pc.at = "refused" /\ LetGo(rest, t, IDLE) /\ UNCHANGED <<switches, missed, talk, clocks>>
  BY DEF Undo
<1>2. train \in TrainRecords /\ train.ring \in Seq(Nodes) /\ Len(train.ring) \in Nat
  BY NodesOf, RowOf DEF TaskInv
<1>3. n \in 0 .. Len(train.ring)
  <2> DEFINE l == Len(train.ring)
  <2> HIDE DEF l
  <2>1. l \in Nat
    BY <1>2 DEF l
  <2>2. Min({1, l}) = IF 1 <= l THEN 1 ELSE l
    BY <2>1, OfTwo
  <2> QED BY <2>1, <2>2 DEF l
<1>4. keep = SubSeq(train.ring, 1, n)
  BY DEF Undone
<1> HIDE DEF n
<1>5. /\ SubSeq(train.ring, 1, n) \in Seq(Nodes) /\ Len(SubSeq(train.ring, 1, n)) = n
      /\ SubSeq(train.ring, n + 1, Len(train.ring)) \in Seq(Nodes)
      /\ \A x \in ToSet(train.ring) : \/ x \in ToSet(SubSeq(train.ring, 1, n))
                                      \/ x \in ToSet(SubSeq(train.ring, n + 1, Len(train.ring)))
  BY <1>2, <1>3, SplitOf
<1> HIDE DEF keep
<1>6. rest \in Seq(Nodes) /\ \A x \in ToSet(train.ring) : x \in ToSet(rest) \/ x \in ToSet(keep)
  BY <1>4, <1>5
<1>7. t \in TrainRecords /\ t.ring = keep
  BY <1>2, <1>4, <1>5 DEF TrainRecords, Results
<1> HIDE DEF t, rest
<1>8. RestInv' /\ SwitchesOK' /\ timer' = timer /\ missed' = missed
  BY <1>1 DEF TaskInv, TrackInv, SwitchesOK, RestInv, talk, clocks
<1>9. pc.at \notin Lost \cup {"turned", "replying"}
  BY <1>1 DEF Lost
<1> QED BY <1>1, <1>6, <1>7, <1>8, <1>9, IdleIs, FreesKept

LEMMA CrossKept ==
  ASSUME TaskInv, Cross
  PROVE  StepKept
<1> DEFINE dest == Dest(train.edge)
           held == Moving(train) /\ train.ring # <<>> /\ Head(train.ring) = dest
           p    == PassPath(train, <<dest>>)
           t    == [p EXCEPT !.edge = NextEdge(dest), !.ring = IF held THEN Tail(@) ELSE @]
           row  == IF held THEN <<dest>> ELSE <<>>
<1>1. /\ pc.at = "moving"
      /\ IF NextNode(dest) = NULL THEN Panic /\ UNCHANGED <<owner, train>> ELSE LetGo(row, t, pc)
      /\ UNCHANGED <<switches, missed, talk, clocks>>
  BY DEF Cross
<1>2. train \in TrainRecords /\ train.ring \in Seq(Nodes) /\ dest \in Nodes
  BY NodesOf DEF TaskInv
<1>3. p \in TrainRecords /\ p.ring = train.ring
  <2>1. <<dest>> \in Seq(Nodes)
    BY <1>2
  <2> HIDE DEF dest
  <2> QED BY <1>2, <2>1, PassPathKept
<1>4. row \in Seq(Nodes) /\ (held => dest \in ToSet(row))
  BY <1>2, EmptySeq DEF ToSet
<1>5. RestInv' /\ SwitchesOK' /\ timer' = timer /\ missed' = missed
  BY <1>1 DEF TaskInv, TrackInv, SwitchesOK, RestInv, talk, clocks
<1>6. pc.at \notin Lost \cup {"turned", "replying"}
  BY <1>1 DEF Lost
<1>7. CASE NextNode(dest) = NULL
  <2>1. Panic /\ UNCHANGED <<owner, train>>
    BY <1>1, <1>7
  <2> QED BY <1>1, <1>2, <1>5, <1>6, <2>1, IdleIs, MovesOn DEF Panic
<1>8. CASE NextNode(dest) # NULL
  <2>1. NextEdge(dest) \in Edges
    BY <1>2, <1>8, NextIsAhead
  <2> HIDE DEF p, row
  <2>2. held => /\ Tail(train.ring) \in Seq(Nodes)
                /\ \A x \in ToSet(train.ring) : x = dest \/ x \in ToSet(Tail(train.ring))
    BY <1>2, EndsOf
  <2> HIDE DEF held, dest
  <2>3. t \in TrainRecords /\ t.ring = IF held THEN Tail(train.ring) ELSE train.ring
    BY <1>2, <1>3, <2>1, <2>2 DEF TrainRecords
  <2> HIDE DEF t
  <2>4. \A x \in ToSet(train.ring) : x \in ToSet(row) \/ x \in ToSet(t.ring)
    BY <1>4, <2>2, <2>3
  <2>5. LetGo(row, t, pc)
    BY <1>1, <1>8
  <2>6. pc \in PlaceRecords
    BY DEF TaskInv
  <2> QED BY <1>1, <1>4, <1>5, <1>6, <2>3, <2>4, <2>5, <2>6, FreesKept
<1> QED BY <1>7, <1>8
-----------------------------------------------------------------------------
(* The train has come as far as it has. *)
LEMMA OnEdgeIs ==
  ASSUME NEW t \in TrainRecords
  PROVE  LET k == OnEdge(t) IN
         k[1] \in 1 .. Len(t.ring) + 1 /\ k[2] \in 0 .. Len(t.ring)
<1> DEFINE ends == {i \in DOMAIN t.ring : t.ring[i] \in {Src(t.edge), Dest(t.edge)}}
<1>1. Len(t.ring) \in Nat /\ DOMAIN t.ring = 1 .. Len(t.ring)
  BY NodesOf, RowOf
<1>2. OnEdge(t) = IF ends = {} THEN <<1, 0>> ELSE <<Min(ends), Max(ends)>>
  BY DEF OnEdge
<1>3. ends \in SUBSET Nat /\ \A i \in ends : i \in 1 .. Len(t.ring)
  BY <1>1
<1> HIDE DEF ends
<1>4. CASE ends = {}
  BY <1>1, <1>2, <1>4
<1>5. CASE ends # {}
  <2>1. Min(ends) \in ends
    BY <1>3, <1>5, MinIs
  <2>2. \A i \in ends : i <= Len(t.ring)
    BY <1>1, <1>3
  <2>3. Max(ends) \in ends
    BY <1>1, <1>3, <1>5, <2>2, MaxIs
  <2>4. Min(ends) \in 1 .. Len(t.ring) /\ Max(ends) \in 1 .. Len(t.ring)
    BY <1>3, <2>1, <2>3
  <2>5. OnEdge(t) = <<Min(ends), Max(ends)>>
    BY <1>2, <1>5
  <2> QED BY <1>1, <2>4, <2>5
<1> QED BY <1>4, <1>5

LEMMA OffEdgeKept ==
  ASSUME TaskInv, pc.at \notin Lost \cup {"turned", "replying"},
         NEW t \in TrainRecords, t.ring = train.ring, NEW at \in PlaceRecords, LetGoOffEdge(t, at),
         at.at # "gone", at.by \in {pc.by, "none"}, at.at = "replying" => at.by = "timer",
         UNCHANGED <<switches, missed, talk, clocks>>
  PROVE  StepKept
<1> DEFINE i   == OnEdge(t)[1]
           j   == OnEdge(t)[2]
           row == SubSeq(t.ring, 1, i - 1) \o SubSeq(t.ring, j + 1, Len(t.ring))
           u   == [t EXCEPT !.ring = SubSeq(@, i, j)]
<1>1. t.ring \in Seq(Nodes) /\ Len(t.ring) \in Nat
  BY NodesOf, RowOf
<1>2. i \in 1 .. Len(t.ring) + 1 /\ j \in 0 .. Len(t.ring)
  BY OnEdgeIs
<1>3. LetGo(row, u, at)
  BY DEF LetGoOffEdge
<1> HIDE DEF i, j
<1>4. /\ 1 \in 1 .. Len(t.ring) + 1 /\ i - 1 \in 0 .. Len(t.ring)
      /\ j + 1 \in 1 .. Len(t.ring) + 1 /\ Len(t.ring) \in 0 .. Len(t.ring)
  BY <1>1, <1>2
<1>5. /\ SubSeq(t.ring, 1, i - 1) \in Seq(Nodes)
      /\ \A x : x \in ToSet(SubSeq(t.ring, 1, i - 1)) <=> \E m \in 1 .. i - 1 : t.ring[m] = x
  BY <1>1, <1>4, PartOf
<1>6. /\ SubSeq(t.ring, j + 1, Len(t.ring)) \in Seq(Nodes)
      /\ \A x : x \in ToSet(SubSeq(t.ring, j + 1, Len(t.ring)))
                  <=> \E m \in j + 1 .. Len(t.ring) : t.ring[m] = x
  BY <1>1, <1>4, PartOf
<1>7. /\ SubSeq(t.ring, i, j) \in Seq(Nodes)
      /\ \A x : x \in ToSet(SubSeq(t.ring, i, j)) <=> \E m \in i .. j : t.ring[m] = x
  BY <1>1, <1>2, PartOf
<1>8. row \in Seq(Nodes) /\ \A x : x \in ToSet(row) <=> \/ x \in ToSet(SubSeq(t.ring, 1, i - 1))
                                                        \/ x \in ToSet(SubSeq(t.ring, j + 1, Len(t.ring)))
  BY <1>5, <1>6, JoinOf
<1>9. u \in TrainRecords /\ u.ring = SubSeq(t.ring, i, j)
  BY <1>7 DEF TrainRecords
<1> HIDE DEF row, u
<1>10. ASSUME NEW x \in ToSet(train.ring) PROVE x \in ToSet(row) \/ x \in ToSet(u.ring)
  <2>1. PICK m \in 1 .. Len(t.ring) : t.ring[m] = x
    BY <1>1, RowOf
  <2>2. m \in 1 .. i - 1 \/ m \in i .. j \/ m \in j + 1 .. Len(t.ring)
    BY <1>1, <1>2
  <2> QED BY <1>5, <1>6, <1>7, <1>8, <1>9, <2>1, <2>2
<1>11. RestInv' /\ SwitchesOK' /\ timer' = timer /\ missed' = missed
  BY DEF TaskInv, TrackInv, SwitchesOK, RestInv, talk, clocks
<1> QED BY <1>3, <1>8, <1>9, <1>10, <1>11, FreesKept

LEMMA UpdateKept ==
  ASSUME TaskInv, NEW by \in {"timer", "done"}, Update(by)
  PROVE  StepKept
<1>1. /\ pc.at = "idle" /\ (by = "timer" => timer)
      /\ \/ /\ train' = [train EXCEPT !.motion = IF train.speed > 0 THEN "CONST_SP" ELSE "STOP"]
            /\ pc' = Place("moving", by, IF train.speed > 0 THEN 0 ELSE 1)
         \/ UNCHANGED train /\ \E at \in {"still", "moving"} : pc' = Place(at, by, 0)
      /\ UNCHANGED <<switches, owner, missed, talk, clocks>>
  BY DEF Update, AtRest
<1>2. pc' \in PlaceRecords /\ pc'.at \notin {"gone", "replying"} /\ pc'.by = by
  <2>1. \A at \in {"still", "moving"}, arg \in {0, 1} :
          /\ Place(at, by, arg) \in PlaceRecords
          /\ Place(at, by, arg).at = at /\ Place(at, by, arg).by = by
    <3> TAKE at \in {"still", "moving"}, arg \in {0, 1}
    <3>1. at \in Ats /\ by \in Bys /\ arg \in 0 .. TopSpeed + 1
      BY Speeds DEF Ats, Bys
    <3> QED BY <3>1, PlaceIs
  <2>2. PICK at \in {"still", "moving"}, arg \in {0, 1} : pc' = Place(at, by, arg)
    BY <1>1
  <2>3. at \notin {"gone", "replying"}
    OBVIOUS
  <2> QED BY <2>1, <2>2, <2>3
<1>3. train' \in TrainRecords /\ train'.ring = train.ring
  BY <1>1 DEF TaskInv, TrainRecords
<1>4. RestInv'
  BY <1>1 DEF TaskInv, RestInv, talk, clocks
<1>5. TrackInv' /\ Kept
  BY <1>1, NotSwapped DEF TaskInv, TrackInv, SwitchesOK
<1>6. MissedInTime'
  BY <1>1, <1>2 DEF TaskInv, MissedInTime, clocks
<1>7. Remembered => Remembered'
  BY <1>1, <1>2, <1>3, StaysRemembered DEF Lost
<1> QED BY <1>2, <1>3, <1>4, <1>5, <1>6, <1>7 DEF TaskInv, StepKept

LEMMA LocatedKept ==
  ASSUME TaskInv, pc.at \notin Lost \cup {"turned", "replying"}, Located(train, pc.by),
         UNCHANGED <<switches, talk, clocks>>
  PROVE  StepKept
<1> DEFINE lost(t) == SetSpeed([t EXCEPT !.result = "GOTO_LOST"], 0)
<1>1. PICK t \in {train, Arrived(train)} :
        \/ /\ train' = t /\ pc' = IF pc.by = "timer" THEN Place("replying", pc.by, 0) ELSE IDLE
           /\ UNCHANGED <<owner, missed>>
        \/ /\ pc.by = "timer" /\ Dest(t.edge) = t.next /\ t.result # "GOTO_LOST"
           /\ missed' = missed + 1
           /\ IF missed' > Missable
              THEN train' = lost(t) /\ pc' = Place("replying", pc.by, 0) /\ UNCHANGED owner
              ELSE Trip(t, "missed")
  BY DEF Located
<1>2. train \in TrainRecords /\ 0 \in 0 .. TopSpeed + 1 /\ pc.by \in Bys
  BY Speeds DEF TaskInv, PlaceRecords
<1>3. t \in TrainRecords /\ t.ring = train.ring
  <2> DEFINE u == [train EXCEPT !.path = NULL, !.result = "GOTO_COMPLETE"]
  <2>1. u \in TrainRecords /\ u.ring = train.ring
    BY <1>2 DEF TrainRecords, Results, Rings
  <2>2. Arrived(train) = SetSpeed(u, 0)
    BY DEF Arrived
  <2> HIDE DEF u
  <2> QED BY <1>2, <2>1, <2>2, SetSpeedKept
<1>4. RestInv'
  BY DEF TaskInv, RestInv, talk, clocks
<1>5. \A by \in Bys : Place("replying", by, 0) \in PlaceRecords
        /\ Place("replying", by, 0).at = "replying" /\ Place("replying", by, 0).by = by
  BY PlaceIs, Speeds DEF Ats
<1>6. CASE /\ train' = t /\ pc' = IF pc.by = "timer" THEN Place("replying", pc.by, 0) ELSE IDLE
           /\ UNCHANGED <<owner, missed>>
  <2>1. /\ pc' \in PlaceRecords /\ pc'.at # "gone" /\ pc'.by \in {pc.by, "none"}
        /\ (pc'.at = "replying" => pc'.by = "timer")
    BY <1>2, <1>5, <1>6, IdleIs
  <2> QED BY <1>3, <1>4, <1>6, <2>1, MovesOn DEF clocks
<1>7. CASE /\ pc.by = "timer" /\ Dest(t.edge) = t.next /\ t.result # "GOTO_LOST"
           /\ missed' = missed + 1 /\ missed' > Missable
           /\ train' = lost(t) /\ pc' = Place("replying", pc.by, 0) /\ UNCHANGED owner
  <2> DEFINE u == [t EXCEPT !.result = "GOTO_LOST"]
  <2>1. u \in TrainRecords /\ u.ring = t.ring /\ u.result = "GOTO_LOST"
    BY <1>3 DEF TrainRecords, Results
  <2>2. lost(t) = SetSpeed(u, 0)
    OBVIOUS
  <2> HIDE DEF u, lost
  <2>3. train' \in TrainRecords /\ train'.ring = train.ring /\ train'.result = "GOTO_LOST"
    BY <1>2, <1>3, <1>7, <2>1, <2>2, SetSpeedKept
  <2>4. pc' \in PlaceRecords /\ pc'.at = "replying" /\ pc'.by = "timer"
    BY <1>2, <1>5, <1>7
  <2>5. missed' \in 0 .. Missable + 1
    BY <1>7, TrainAssumption DEF TaskInv, MissedInTime
  <2>6. TrackInv' /\ Kept
    BY <1>7, NotSwapped DEF TaskInv, TrackInv, SwitchesOK
  <2>7. Remembered => Remembered'
    BY <1>7, <2>3, <2>4, StaysRemembered
  <2> QED BY <1>4, <2>3, <2>4, <2>5, <2>6, <2>7 DEF TaskInv, MissedInTime, StepKept
<1>8. CASE /\ pc.by = "timer" /\ Dest(t.edge) = t.next /\ t.result # "GOTO_LOST"
           /\ missed' = missed + 1 /\ ~(missed' > Missable) /\ Trip(t, "missed")
  <2>1. t.next # NULL
    BY <1>3, <1>8, NodesOf, TrackAssumption
  <2>2. /\ OwnerOK' /\ PairsAgree' /\ Kept
        /\ train' \in TrainRecords /\ pc' \in PlaceRecords
        /\ pc'.by \in {"missed", "none"} /\ pc'.at \in {"tripped", "asking", "panic"}
        /\ Remembered /\ pc.at \notin Lost \cup {"turned"} => Remembered'
    BY <1>3, <1>8, <2>1, TripDoes DEF Bys
  <2>3. MissedInTime'
    <3>1. missed' \in 0 .. Missable + 1 /\ missed' <= Missable
      BY <1>8, TrainAssumption DEF TaskInv, MissedInTime
    <3> QED BY <2>2, <3>1 DEF MissedInTime
  <2> QED BY <1>4, <2>2, <2>3 DEF TaskInv, TrackInv, SwitchesOK, StepKept
<1> QED BY <1>1, <1>6, <1>7, <1>8

LEMMA MovedKept ==
  ASSUME TaskInv, Moved
  PROVE  StepKept
<1>1. /\ pc.at \in {"moving", "still", "located"} /\ UNCHANGED <<switches, talk, clocks>>
      /\ \/ /\ LetGoOffEdge(train, IF pc.by = "timer" THEN On("replying") ELSE IDLE)
            /\ UNCHANGED missed
         \/ /\ \E want \in Wants : pc' = Asking(pc.by, 0, want, train.ring)
            /\ UNCHANGED <<owner, missed, train>>
         \/ Located(train, pc.by)
  BY DEF Moved, Enough
<1>2. pc.at \notin Lost \cup {"turned", "replying"}
  BY <1>1 DEF Lost
<1>3. train \in TrainRecords /\ train.ring \in Seq(Nodes) /\ pc.by \in Bys
  BY NodesOf DEF TaskInv, PlaceRecords
<1>4. CASE LetGoOffEdge(train, IF pc.by = "timer" THEN On("replying") ELSE IDLE) /\ UNCHANGED missed
  <2> DEFINE at == IF pc.by = "timer" THEN On("replying") ELSE IDLE
  <2>1. /\ at \in PlaceRecords /\ at.at # "gone" /\ at.by \in {pc.by, "none"}
        /\ at.at = "replying" => at.by = "timer"
    BY OnIs, IdleIs DEF TaskInv, Ats
  <2>2. LetGoOffEdge(train, at)
    BY <1>4
  <2> HIDE DEF at
  <2> QED BY <1>1, <1>2, <1>3, <1>4, <2>1, <2>2, OffEdgeKept
<1>5. CASE /\ \E want \in Wants : pc' = Asking(pc.by, 0, want, train.ring)
           /\ UNCHANGED <<owner, missed, train>>
  <2>1. pc' \in PlaceRecords /\ pc'.at = "asking" /\ pc'.by = pc.by
    BY <1>3, <1>5, AskingIs, Speeds
  <2>2. RestInv'
    BY <1>1 DEF TaskInv, RestInv, talk, clocks
  <2> QED BY <1>1, <1>2, <1>3, <1>5, <2>1, <2>2, MovesOn DEF clocks
<1>6. CASE Located(train, pc.by)
  BY <1>1, <1>2, <1>6, LocatedKept
<1> QED BY <1>1, <1>4, <1>5, <1>6

LEMMA ShortMovedKept ==
  ASSUME TaskInv, ShortMoved
  PROVE  StepKept
<1>1. /\ pc.at = "moving" /\ UNCHANGED <<switches, missed, talk, clocks>>
      /\ \/ train' = [train EXCEPT !.result = "GOTO_LOST"] /\ pc' = IDLE /\ UNCHANGED owner
         \/ LetGoOffEdge([train EXCEPT !.result = "GOTO_COMPLETE"], IDLE)
  BY DEF ShortMoved
<1>2. pc.at \notin Lost \cup {"turned", "replying"}
  BY <1>1 DEF Lost
<1>3. \A r \in {"GOTO_LOST", "GOTO_COMPLETE"} :
        [train EXCEPT !.result = r] \in TrainRecords /\ [train EXCEPT !.result = r].ring = train.ring
  BY DEF TaskInv, TrainRecords, Results
<1>4. RestInv'
  BY <1>1 DEF TaskInv, RestInv, talk, clocks
<1>5. CASE train' = [train EXCEPT !.result = "GOTO_LOST"] /\ pc' = IDLE /\ UNCHANGED owner
  BY <1>1, <1>2, <1>3, <1>4, <1>5, IdleIs, MovesOn DEF clocks
<1>6. CASE LetGoOffEdge([train EXCEPT !.result = "GOTO_COMPLETE"], IDLE)
  <2> DEFINE t == [train EXCEPT !.result = "GOTO_COMPLETE"]
  <2>1. t \in TrainRecords /\ t.ring = train.ring /\ LetGoOffEdge(t, IDLE)
    BY <1>3, <1>6
  <2> HIDE DEF t
  <2> QED BY <1>1, <1>2, <2>1, IdleIs, OffEdgeKept
<1> QED BY <1>1, <1>5, <1>6

LEMMA ReplyingKept ==
  ASSUME TaskInv, Replying
  PROVE  StepKept
<1>1. /\ pc.at = "replying" /\ pc' = IDLE
      /\ UNCHANGED <<switches, owner, missed, shortMove, reverser>>
      /\ blocked' \in BOOLEAN /\ conductor' \in {"awake", conductor}
  BY DEF Replying
<1>2. \E result \in Results : /\ train' = [train EXCEPT !.result = result]
                              /\ timer' = (result # "GOTO_LOST")
                              /\ train.result = "GOTO_LOST" => result = "GOTO_LOST"
  BY DEF Replying, TaskInv, TrainRecords, Results
<1>3. /\ train' \in TrainRecords /\ train'.ring = train.ring /\ timer' \in BOOLEAN
      /\ train.result = "GOTO_LOST" => ~timer'
  BY <1>2 DEF TaskInv, TrainRecords
<1>4. RestInv'
  BY <1>1, <1>3 DEF TaskInv, RestInv
<1>5. MissedInTime'
  BY <1>1, <1>3, IdleIs DEF TaskInv, MissedInTime
<1>6. TrackInv' /\ Kept
  BY <1>1, NotSwapped DEF TaskInv, TrackInv, SwitchesOK
<1>7. Remembered => Remembered'
  BY <1>1, <1>3, IdleIs, StaysRemembered DEF Lost
<1> QED BY <1>1, <1>3, <1>4, <1>5, <1>6, <1>7, IdleIs DEF TaskInv, StepKept
-----------------------------------------------------------------------------
(* What the train is asked to do. *)
LEMMA SpeedToKept ==
  ASSUME TaskInv, pc.at = "idle", NEW speed \in 0 .. TopSpeed + 1, SpeedTo(speed),
         UNCHANGED <<missed, talk, timer, shortMove>>, RestInv'
  PROVE  StepKept
<1> DEFINE t == UpdateNext(train)
<1>1. t \in TrainRecords /\ t.ring = train.ring /\ t.ring \in Seq(Nodes)
  BY UpdateNextKept, NodesOf DEF TaskInv
<1>2. /\ UNCHANGED <<switches, owner>>
      /\ \/ train' = SetSpeed(t, 0) /\ UNCHANGED pc
         \/ train' = t /\ \E want \in Wants : pc' = Asking("speed", speed, want, t.ring)
  BY DEF SpeedTo, Enough
<1> HIDE DEF t
<1>3. train' \in TrainRecords /\ train'.ring = train.ring
  <2>1. SetSpeed(t, 0) \in TrainRecords /\ SetSpeed(t, 0).ring = t.ring
    BY <1>1, SetSpeedKept, Speeds
  <2> QED BY <1>1, <1>2, <2>1
<1>4. pc' \in PlaceRecords /\ pc'.at \in {"idle", "asking"} /\ pc'.by \in {pc.by, "speed"}
  <2>1. ASSUME NEW want \in Wants
        PROVE  LET a == Asking("speed", speed, want, t.ring) IN
               a \in PlaceRecords /\ a.at = "asking" /\ a.by = "speed"
    BY <1>1, AskingIs DEF Bys
  <2>2. CASE UNCHANGED pc
    BY <2>2 DEF TaskInv
  <2>3. CASE \E want \in Wants : pc' = Asking("speed", speed, want, t.ring)
    BY <2>1, <2>3
  <2> QED BY <1>2, <2>2, <2>3
<1> QED BY <1>2, <1>3, <1>4, MovesOn DEF Lost

LEMMA TurnRoundKept ==
  ASSUME TaskInv, pc.at = "idle", TurnRound,
         UNCHANGED <<missed, talk, timer, shortMove>>, RestInv'
  PROVE  StepKept
<1> DEFINE e == ReverseEdge(train.edge)
<1>1. e \in Edges /\ train \in TrainRecords /\ TrackInv
  BY EdgeAssumption, NodesOf DEF TaskInv
<1>2. \/ UNCHANGED <<switches, owner, train, pc>>
      \/ /\ train' = [train EXCEPT !.edge = e] /\ switches' = SwitchesFor(e)
         /\ pc' = Place("turning", "none", 0) /\ UNCHANGED owner
  BY DEF TurnRound
<1> HIDE DEF e
<1>3. train' \in TrainRecords /\ train'.ring = train.ring
  BY <1>1, <1>2 DEF TrainRecords
<1>4. Place("turning", "none", 0) \in PlaceRecords /\ Place("turning", "none", 0).at = "turning"
      /\ Place("turning", "none", 0).by = "none"
  BY PlaceIs, Speeds DEF Ats, Bys
<1>5. pc' \in PlaceRecords /\ pc'.at \in {"idle", "turning"} /\ pc'.by \in {pc.by, "none"}
  BY <1>2, <1>4 DEF TaskInv
<1>6. TrackInv' /\ Kept
  <2>1. SwitchesOK'
    BY <1>1, <1>2, SwitchesForOK DEF TrackInv, SwitchesOK
  <2> QED BY <1>1, <1>2, <2>1, NotSwapped DEF TrackInv
<1>7. MissedInTime'
  BY <1>5, MissedStays DEF TaskInv, RestInv
<1>8. Remembered => Remembered'
  BY <1>2, <1>3, <1>5, StaysRemembered DEF Lost
<1> QED BY <1>3, <1>5, <1>6, <1>7, <1>8 DEF TaskInv, StepKept

LEMMA TurnKept ==
  ASSUME TaskInv, Turn
  PROVE  StepKept
<1> DEFINE dest == Dest(train.edge)
<1>1. /\ train \in TrainRecords /\ TrackInv /\ dest \in Nodes
      /\ train.ring \in Seq(Nodes) /\ Len(train.ring) \in Nat /\ Me \in Trains
  BY NodesOf, RowOf, TrainAssumption DEF TaskInv
<1>2. UNCHANGED <<switches, missed, talk, clocks>> /\ pc.at \in {"turning", "turned"}
  BY DEF Turn
<1>3. RestInv' /\ SwitchesOK' /\ timer' = timer
  BY <1>2 DEF TaskInv, TrackInv, SwitchesOK, RestInv, talk, clocks
<1>4. CASE pc.at = "turning"
  <2>1. /\ train' = UpdateNext(train)
        /\ \/ MaySwap(dest, NOBODY, Me) /\ owner' = Swapped(<<dest>>, Me) /\ pc' = On("turned")
           \/ pc' = IDLE /\ UNCHANGED owner
    BY <1>4 DEF Turn
  <2>2. train' \in TrainRecords /\ train'.ring = train.ring /\ train'.edge = train.edge
    BY <1>1, <2>1, UpdateNextKept
  <2>3. CASE pc' = IDLE /\ UNCHANGED owner
    <3>1. pc.at \notin Lost \cup {"turned", "replying"}
      BY <1>4 DEF Lost
    <3> QED BY <1>2, <1>3, <2>2, <2>3, <3>1, IdleIs, MovesOn DEF clocks
  <2>4. CASE MaySwap(dest, NOBODY, Me) /\ owner' = Swapped(<<dest>>, Me) /\ pc' = On("turned")
    <3>1. <<dest>> \in Seq(Nodes) /\ ToSet(<<dest>>) = {dest}
      BY <1>1 DEF ToSet
    <3> HIDE DEF dest
    <3>2. /\ OwnerOK' /\ PairsAgree' /\ Kept
          /\ \A n \in Nodes : owner'[n] = IF n \in Places(ToSet(<<dest>>)) THEN Me ELSE owner[n]
      <4>1. \A n \in ToSet(<<dest>>) : MaySwap(n, NOBODY, Me)
        BY <2>4, <3>1
      <4> QED BY <1>1, <2>4, <3>1, <4>1, SwapMoves
    <3>3. pc' \in PlaceRecords /\ pc'.at = "turned" /\ pc'.by = pc.by
      BY <2>4, OnIs DEF TaskInv, Ats
    <3>4. MissedInTime'
      BY <1>2, <1>3, <1>4, <3>3, MissedStays DEF TaskInv, RestInv
    <3>5. ASSUME Remembered PROVE Remembered'
      <4>1. \A n \in Nodes : owner[n] = Me => n \in Places(ToSet(train.ring))
        BY <1>4, <3>5 DEF Remembered, Lost
      <4>2. \A n \in Nodes : owner'[n] = Me =>
               n \in Places(ToSet(train'.ring)) \/ n \in Places({Dest(train'.edge)})
        BY <2>2, <3>1, <3>2, <4>1 DEF dest
      <4> QED BY <3>3, <4>2 DEF Remembered
    <3> QED BY <1>3, <2>2, <3>2, <3>3, <3>4, <3>5 DEF TaskInv, TrackInv, StepKept
  <2> QED BY <2>1, <2>3, <2>4
<1>5. CASE pc.at = "turned"
  <2> DEFINE k    == Min({1, Len(train.ring)})
             row  == SubSeq(train.ring, 1, k)
             rest == SubSeq(train.ring, k + 1, Len(train.ring))
             ring == Push(rest, dest)
             t    == [train EXCEPT !.ring = ring]
  <2>1. \/ Panic /\ UNCHANGED <<owner, train>>
        \/ ring # NULL /\ LetGo(row, t, IDLE)
    BY <1>5 DEF Turn
  <2>2. k \in 0 .. Len(train.ring)
    <3> DEFINE l == Len(train.ring)
    <3> HIDE DEF l
    <3>1. l \in Nat
      BY <1>1 DEF l
    <3>2. Min({1, l}) = IF 1 <= l THEN 1 ELSE l
      BY <3>1, OfTwo
    <3> QED BY <3>1, <3>2 DEF l
  <2> HIDE DEF k
  <2>3. /\ row \in Seq(Nodes) /\ rest \in Seq(Nodes)
        /\ \A x \in ToSet(train.ring) : x \in ToSet(row) \/ x \in ToSet(rest)
    BY <1>1, <2>2, SplitOf
  <2> HIDE DEF row, rest
  <2>4. CASE Panic /\ UNCHANGED <<owner, train>>
    <3>1. MissedInTime'
      BY <1>2, <1>3, <1>5, <2>4, IdleIs, MissedStays DEF TaskInv, RestInv, Panic
    <3> QED BY <1>1, <1>3, <2>4, <3>1, IdleIs, NotSwapped, PanicRemembers
            DEF Panic, TaskInv, TrackInv, StepKept
  <2>5. CASE ring # NULL /\ LetGo(row, t, IDLE)
    <3>1. /\ ring \in Seq(Nodes) /\ ToSet(rest) \subseteq ToSet(ring)
          /\ dest \in Places(ToSet(ring))
      <4>1. rest \in Rings /\ Push(rest, dest) # NULL
        BY <2>3, <2>5 DEF Rings
      <4> HIDE DEF dest
      <4> QED BY <1>1, <4>1, PushKept
    <3> HIDE DEF ring, dest
    <3>2. t \in TrainRecords /\ t.ring = ring
      BY <1>1, <3>1 DEF TrainRecords, Rings
    <3> HIDE DEF t
    <3>3. /\ OwnerOK' /\ PairsAgree' /\ Kept /\ train' \in TrainRecords /\ pc' \in PlaceRecords
          /\ \/ /\ train' = t /\ pc' = IDLE
                /\ \A n \in Nodes : owner'[n] = Me => owner[n] = Me /\ n \notin Places(ToSet(row))
             \/ pc' = Place("panic", "none", 0) /\ UNCHANGED <<owner, train>>
      BY <1>1, <2>3, <2>5, <3>2, IdleIs, LetGoDoes
    <3>4. MissedInTime'
      BY <1>2, <1>3, <1>5, <3>3, IdleIs, MissedStays DEF TaskInv, RestInv
    <3>5. ASSUME Remembered, train' = t, pc' = IDLE,
                 \A n \in Nodes : owner'[n] = Me => owner[n] = Me /\ n \notin Places(ToSet(row))
          PROVE  Remembered'
      <4>1. \A n \in Nodes : owner[n] = Me => n \in Places(ToSet(train.ring)) \/ n \in Places({dest})
        BY <1>5, <3>5 DEF Remembered, Lost, dest
      <4>2. ASSUME NEW n \in Nodes, owner'[n] = Me PROVE n \in Places(ToSet(ring))
        <5>1. n \notin Places(ToSet(row))
          BY <3>5, <4>2
        <5>2. CASE n \in Places(ToSet(train.ring))
          <6>1. PICK x \in ToSet(train.ring) : n = x \/ n = Twin[x]
            BY <5>2 DEF Places
          <6>2. x \in ToSet(ring)
            BY <2>3, <3>1, <5>1, <6>1 DEF Places
          <6> QED BY <6>1, <6>2 DEF Places
        <5>3. CASE n \in Places({dest})
          <6>1. ToSet(ring) \subseteq Nodes
            BY <3>1, RowOf
          <6> QED BY <3>1, <5>3, <6>1, TrackAssumption DEF Places
        <5> QED BY <3>5, <4>1, <4>2, <5>2, <5>3
      <4> QED BY <3>2, <3>5, <4>2, IdleIs DEF Remembered
    <3>6. Remembered => Remembered'
      BY <3>3, <3>5, PanicRemembers
    <3> QED BY <1>3, <3>3, <3>4, <3>6 DEF TaskInv, TrackInv, StepKept
  <2> QED BY <2>1, <2>4, <2>5
<1> QED BY <1>2, <1>4, <1>5

LEMMA WalksAreRows ==
  ASSUME NEW n \in Nodes
  PROVE  Walks(n) \subseteq Seq(Nodes)
<1> DEFINE longer == [k \in 1 .. PathLength |-> [paths \in SUBSET Seq(Nodes) |->
             paths \cup UNION {{Append(p, m) : m \in Ahead(Last(p))} : p \in paths}]]
           S == {paths \in SUBSET Seq(Nodes) : <<>> \notin paths}
<1>1. PathLength - 1 \in Nat
  BY TrainAssumption
<1>2. {<<n>>} \in S
  OBVIOUS
<1>3. ASSUME NEW k \in 1 .. PathLength - 1, NEW paths \in S PROVE longer[k][paths] \in S
  <2>1. k \in 1 .. PathLength /\ paths \in SUBSET Seq(Nodes)
    BY TrainAssumption
  <2>2. ASSUME NEW p \in paths, NEW m \in Ahead(Last(p))
        PROVE  Append(p, m) \in Seq(Nodes) /\ Append(p, m) # <<>>
    <3>1. p \in Seq(Nodes) /\ p # <<>>
      OBVIOUS
    <3>2. Last(p) \in Nodes
      BY <3>1, EndsOf
    <3>3. m \in Nodes
      BY <3>2, TrackAssumption DEF Ahead
    <3> QED BY <3>1, <3>3, AppendOf
  <2>3. longer[k][paths] = paths \cup UNION {{Append(p, m) : m \in Ahead(Last(p))} : p \in paths}
    BY <2>1
  <2> HIDE DEF longer
  <2>4. ASSUME NEW q \in longer[k][paths] PROVE q \in Seq(Nodes) /\ q # <<>>
    <3>1. q \in paths \/ \E p \in paths : \E m \in Ahead(Last(p)) : q = Append(p, m)
      BY <2>3
    <3> QED BY <2>2, <3>1
  <2> QED BY <2>4
<1>4. Walks(n) = Loop(longer, {<<n>>}, PathLength - 1)
  BY DEF Walks
<1>5. Loop(longer, {<<n>>}, PathLength - 1) \in S
  <2> HIDE DEF longer, S
  <2> QED BY <1>1, <1>2, <1>3, LoopStays
<1> QED BY <1>4, <1>5

LEMMA GotoKept ==
  ASSUME TaskInv,
         NEW path \in {NULL} \cup UNION {Walks(n) : n \in {Src(train.edge), Dest(train.edge)}},
         Goto(path)
  PROVE  StepKept
<1> DEFINE t == [train EXCEPT !.path = path]
<1>1. /\ pc.at = "idle" /\ conductor' = "waiting" /\ blocked' = TRUE /\ train' = UpdateNext(t)
      /\ \E want \in Wants, arg \in {0, GotoSpeed} : pc' = Asking("goto", arg, want, train.ring)
      /\ UNCHANGED <<switches, owner, missed, clocks>>
  BY DEF Goto, AtRest, Enough
<1>2. path \in Rings
  BY NodesOf, WalksAreRows DEF TaskInv, Rings
<1>3. t \in TrainRecords /\ t.ring = train.ring
  BY <1>2 DEF TaskInv, TrainRecords
<1> HIDE DEF t
<1>4. train' \in TrainRecords /\ train'.ring = train.ring
  BY <1>1, <1>3, UpdateNextKept
<1>5. pc' \in PlaceRecords /\ pc'.at = "asking" /\ pc'.by = "goto"
  <2>1. train.ring \in Seq(Nodes)
    BY NodesOf DEF TaskInv
  <2>2. ASSUME NEW want \in Wants, NEW arg \in {0, GotoSpeed}
        PROVE  LET a == Asking("goto", arg, want, train.ring) IN
               a \in PlaceRecords /\ a.at = "asking" /\ a.by = "goto"
    BY <2>1, Speeds, AskingIs DEF Bys
  <2> QED BY <1>1, <2>2
<1>6. RestInv'
  BY <1>1 DEF TaskInv, RestInv, clocks
<1> QED BY <1>1, <1>4, <1>5, <1>6, MovesOn DEF clocks, Lost

LEMMA RequestKept ==
  ASSUME TaskInv, Request
  PROVE  StepKept
<1>1. CASE \E s \in Attributed, k \in 0 .. 1, both \in BOOLEAN : Create(s, k, both)
  BY <1>1, CreateKept
<1>2. CASE Delete
  BY <1>2, DeleteKept
<1>3. CASE \E path \in {NULL} \cup UNION {Walks(n) : n \in {Src(train.edge), Dest(train.edge)}} : Goto(path)
  BY <1>3, GotoKept
<1>4. CASE \E speed \in 0 .. TopSpeed + 1 : Speed(speed)
  <2>1. PICK speed \in 0 .. TopSpeed + 1 : Speed(speed)
    BY <1>4
  <2>2. pc.at = "idle" /\ SpeedTo(speed) /\ UNCHANGED <<missed, talk, clocks>>
    BY <2>1 DEF Speed, AtRest
  <2>3. RestInv'
    BY <2>2 DEF TaskInv, RestInv, talk, clocks
  <2> QED BY <2>2, <2>3, SpeedToKept DEF clocks
<1>5. CASE Dir
  <2>1. pc.at = "idle" /\ TurnRound /\ UNCHANGED <<missed, talk, clocks>>
    BY <1>5 DEF Dir, AtRest
  <2>2. RestInv'
    BY <2>1 DEF TaskInv, RestInv, talk, clocks
  <2> QED BY <2>1, <2>2, TurnRoundKept DEF clocks
<1>6. CASE Rv
  <2>1. /\ pc.at = "idle" /\ reverser' = [at |-> "stop", speed |-> train.speed]
        /\ UNCHANGED <<switches, owner, train, missed, talk, timer, shortMove, pc>>
    BY <1>6 DEF Rv, AtRest
  <2>2. train.speed \in 0 .. TopSpeed + 1
    BY NodesOf DEF TaskInv
  <2>3. RestInv'
    BY <2>1, <2>2 DEF TaskInv, RestInv, talk
  <2> QED BY <2>1, <2>3, MovesOn DEF TaskInv, Lost
<1>7. CASE Route
  <2>1. /\ pc.at = "idle" /\ conductor' \in {"awake", "none"}
        /\ UNCHANGED <<switches, owner, train, missed, blocked, clocks, pc>>
    BY <1>7 DEF Route, AtRest
  <2>2. RestInv'
    BY <2>1 DEF TaskInv, RestInv, clocks
  <2> QED BY <2>1, <2>2, MovesOn DEF TaskInv, Lost, clocks
<1>8. CASE Update("done")
  BY <1>8, UpdateKept
<1> QED BY <1>1, <1>2, <1>3, <1>4, <1>5, <1>6, <1>7, <1>8 DEF Request

LEMMA ReportKept ==
  ASSUME TaskInv, Report
  PROVE  StepKept
<1>1. CASE ReverserSends
  <2>1. /\ pc.at = "idle" /\ UNCHANGED <<missed, talk, timer, shortMove>>
        /\ \/ SpeedTo(0) /\ reverser' = [reverser EXCEPT !.at = "dir"]
           \/ TurnRound /\ reverser' = [reverser EXCEPT !.at = "go"]
           \/ SpeedTo(reverser.speed) /\ reverser' = [at |-> "none", speed |-> 0]
    BY <1>1 DEF ReverserSends, AtRest
  <2>2. RestInv' /\ reverser.speed \in 0 .. TopSpeed + 1
    <3>1. reverser' \in [at : {"none", "stop", "dir", "go"}, speed : 0 .. TopSpeed + 1]
      BY <2>1, Speeds DEF TaskInv, RestInv
    <3> QED BY <2>1, <3>1 DEF TaskInv, RestInv, talk
  <2> QED BY <2>1, <2>2, Speeds, SpeedToKept, TurnRoundKept
<1>2. CASE ShortMoveReports
  <2>1. /\ pc.at = "idle" /\ shortMove' \subseteq shortMove
        /\ UNCHANGED <<switches, owner, train, missed, talk, timer, reverser>>
        /\ UNCHANGED pc \/ pc' = Place("moving", "short", 0)
    BY <1>2 DEF ShortMoveReports, AtRest
  <2>2. RestInv'
    BY <2>1 DEF TaskInv, RestInv, talk
  <2>3. /\ Place("moving", "short", 0) \in PlaceRecords
        /\ Place("moving", "short", 0).at = "moving" /\ Place("moving", "short", 0).by = "short"
    BY PlaceIs, Speeds DEF Ats, Bys
  <2>4. pc' \in PlaceRecords /\ pc'.at \in {"idle", "moving"} /\ pc'.by \in {pc.by, "short"}
    BY <2>1, <2>3 DEF TaskInv
  <2> QED BY <2>1, <2>2, <2>4, MovesOn DEF TaskInv, Lost
<1> QED BY <1>1, <1>2, CourierWaitsKept, CourierReportsKept DEF Report
-----------------------------------------------------------------------------
(* The other trains. *)
LEMMA OtherOwnerKept ==
  ASSUME TaskInv, NEW tr \in Others, NEW n \in Nodes,
         pc.at \in {"idle", "gone", "asking", "detour", "found"},
         NEW new \in {NOBODY, tr}, MaySwap(n, NOBODY, tr),
         owner' = Swapped(<<n>>, new), UNCHANGED <<switches, taskVars>>
  PROVE  StepKept
<1> DEFINE row == <<n>>
<1>1. row \in Seq(Nodes) /\ \A m \in ToSet(row) : MaySwap(m, NOBODY, tr)
  BY DEF ToSet
<1>2. TrackInv /\ tr \in Trains /\ new # Me /\ owner' = Swapped(row, new)
  BY TrainAssumption, OwnerAssumption DEF Others, TaskInv
<1> HIDE DEF row
<1>3. /\ OwnerOK' /\ PairsAgree' /\ Kept
      /\ \A m \in Nodes : owner'[m] = IF m \in Places(ToSet(row)) THEN new ELSE owner[m]
  BY <1>1, <1>2, SwapMoves
<1>4. Remembered => Remembered'
  BY <1>2, <1>3 DEF Remembered, taskVars
<1>5. RestInv' /\ MissedInTime'
  BY DEF TaskInv, RestInv, MissedInTime, taskVars
<1> QED BY <1>3, <1>4, <1>5 DEF TaskInv, TrackInv, SwitchesOK, StepKept, taskVars

LEMMA NothingKept ==
  ASSUME TaskInv, UNCHANGED <<owner, taskVars>>, SwitchesOK'
  PROVE  StepKept
<1>1. OwnerOK' /\ PairsAgree' /\ Kept
  BY NotSwapped DEF TaskInv
<1>2. Remembered => Remembered'
  BY DEF Remembered, taskVars
<1>3. RestInv' /\ MissedInTime'
  BY DEF TaskInv, RestInv, MissedInTime, taskVars
<1> QED BY <1>1, <1>2, <1>3 DEF TaskInv, TrackInv, StepKept, taskVars

LEMMA OtherKept ==
  ASSUME TaskInv, Other
  PROVE  StepKept
<1>0. TrackInv
  BY DEF TaskInv
<1>1. CASE \E tr \in Others, n \in Nodes : OtherTakes(tr, n) \/ OtherFrees(tr, n)
  <2>1. PICK tr \in Others, n \in Nodes : OtherTakes(tr, n) \/ OtherFrees(tr, n)
    BY <1>1
  <2>2. MaySwap(n, NOBODY, tr) /\ \E new \in {NOBODY, tr} : owner' = Swapped(<<n>>, new)
    BY <2>1 DEF OtherTakes, OtherFrees, MaySwap
  <2>3. pc.at \in {"idle", "gone", "asking", "detour", "found"} /\ UNCHANGED <<switches, taskVars>>
    BY <2>1 DEF OtherTakes, OtherFrees, Other, OthersRun
  <2> QED BY <2>2, <2>3, OtherOwnerKept
<1>2. CASE \E b \in Branches : OtherSwitches(b)
  <2>1. UNCHANGED <<owner, taskVars>> /\ SwitchesOK'
    BY <1>0, <1>2 DEF OtherSwitches, TrackInv, SwitchesOK
  <2> QED BY <2>1, NothingKept
<1>3. CASE \/ \E c \in Foreign : OtherDismisses(c) \/ \E s \in SensorIds : OtherWaits(c, s)
           \/ \E on \in {x \in SUBSET SensorIds : Cardinality(x) <= PollSize} : Poll(on)
  <2>1. UNCHANGED <<owner, taskVars, switches>>
    BY <1>3 DEF OtherDismisses, OtherWaits, Poll
  <2>2. SwitchesOK'
    BY <1>0, <2>1 DEF TrackInv, SwitchesOK
  <2> QED BY <2>1, <2>2, NothingKept
<1> QED BY <1>1, <1>2, <1>3 DEF Other

LEMMA NextKept ==
  ASSUME TaskInv, [Next]_vars
  PROVE  StepKept
<1>1. CASE Own
  <2>1. CASE Handler
    BY <2>1, WaitOnNextKept, FindsWayKept, DetourKept, ReserveKept, AnsweredKept, TripDoneKept, DepartKept,
       UndoKept, CrossKept, MovedKept, ShortMovedKept, ReplyingKept, TurnKept DEF Handler
  <2> QED BY <1>1, <2>1, ReadsStaleKept, ReportKept, UpdateKept DEF Own
<1>2. CASE Request
  BY <1>2, RequestKept
<1>3. CASE Other
  BY <1>3, OtherKept
<1>4. CASE UNCHANGED vars
  <2>1. UNCHANGED <<owner, taskVars, switches>>
    BY <1>4 DEF vars
  <2>2. SwitchesOK'
    BY <2>1 DEF TaskInv, TrackInv, SwitchesOK
  <2> QED BY <2>1, <2>2, NothingKept
<1> QED BY <1>1, <1>2, <1>3, <1>4 DEF Next
-----------------------------------------------------------------------------
(* Who waits for a sensor.  Of all the steps, these are the ones that matter:
   the courier is sent away, and perhaps another one sent for; it begins to wait; it
   reports; and so do the couriers of the other trains; and sensors trip. *)
SentAway ==
  /\ Dismiss(courier) /\ UNCHANGED elsewhere
  /\ \/ courier' = NoCourier
     \/ \E c \in Couriers, s \in Sensors : courier' = [tid |-> c, at |-> "handed", sensor |-> s]

BeginsToWait ==
  /\ courier.at = "handed" /\ Wait(courier.tid, courier.sensor) /\ UNCHANGED elsewhere
  /\ courier' = [courier EXCEPT !.at = "waiting"]

Hears ==
  /\ courier.at = "waiting" /\ answer[courier.tid] # NONE
  /\ Use(courier.tid) /\ UNCHANGED elsewhere
  /\ courier' = [courier EXCEPT !.at = "heard"]

ForeignWaits(c, s) ==
  /\ elsewhere[c] = NOTASK /\ Wait(c, s) /\ UNCHANGED courier
  /\ elsewhere' = [elsewhere EXCEPT ![c] = s]

ForeignGoes(c) ==
  /\ elsewhere[c] # NOTASK /\ UNCHANGED courier
  /\ Dismiss([tid |-> c, at |-> "waiting", sensor |-> elsewhere[c]])
  /\ elsewhere' = [elsewhere EXCEPT ![c] = NOTASK]

Polled(tripped) == Returned(tripped) /\ UNCHANGED <<courier, elsewhere>>

LEMMA WaitSteps ==
  ASSUME TaskInv, [Next]_vars
  PROVE  \/ UNCHANGED waiting
         \/ SentAway \/ BeginsToWait \/ Hears
         \/ \E c \in Foreign : ForeignGoes(c) \/ \E s \in SensorIds : ForeignWaits(c, s)
         \/ \E tripped \in SUBSET SensorIds : Polled(tripped)
<1>1. CASE Own
  <2>1. CASE WaitOnNext
    <3>1. train.next # NULL => train.next \in Sensors
      BY NodesOf DEF TaskInv
    <3> QED BY <2>1, <3>1 DEF WaitOnNext, SentAway
  <2>2. CASE ReadsStale \/ Update("timer")
    BY <2>2 DEF ReadsStale, Update, allButPc
  <2>3. CASE Handler /\ ~WaitOnNext
    BY <2>3 DEF Handler, FindsWay, Detour, Reserve, Answered, TripDone, Depart, Undo, Cross, Moved, ShortMoved,
                Replying, Turn, allButPc
  <2>4. CASE Report
    BY <2>4 DEF Report, CourierWaits, CourierReports, ReverserSends, ShortMoveReports, BeginsToWait,
                Hears
  <2> QED BY <1>1, <2>1, <2>2, <2>3, <2>4 DEF Own
<1>2. CASE Request
  <2>1. CASE Delete
    BY <2>1 DEF Delete, SentAway
  <2>2. ASSUME NEW s, NEW k, NEW both, Create(s, k, both) PROVE UNCHANGED waiting
    BY <2>2 DEF Create
  <2>3. ASSUME NEW path, Goto(path) PROVE UNCHANGED waiting
    BY <2>3 DEF Goto
  <2>4. ASSUME NEW speed, Speed(speed) PROVE UNCHANGED waiting
    BY <2>4 DEF Speed
  <2>5. CASE Dir \/ Rv \/ Route
    BY <2>5 DEF Dir, Rv, Route
  <2>6. CASE Update("done")
    BY <2>6 DEF Update
  <2> QED BY <1>2, <2>1, <2>2, <2>3, <2>4, <2>5, <2>6 DEF Request
<1>3. CASE Other
  <2>1. CASE \/ \E tr \in Others, n \in Nodes : OtherTakes(tr, n) \/ OtherFrees(tr, n)
             \/ \E b \in Branches : OtherSwitches(b)
    BY <2>1 DEF OtherTakes, OtherFrees, OtherSwitches, taskVars, waiting
  <2>2. CASE \E c \in Foreign : OtherDismisses(c) \/ \E s \in SensorIds : OtherWaits(c, s)
    BY <2>2 DEF OtherDismisses, OtherWaits, ForeignGoes, ForeignWaits, taskVars
  <2>3. CASE \E on \in {x \in SUBSET SensorIds : Cardinality(x) <= PollSize} : Poll(on)
    BY <2>3 DEF Poll, Polled, taskVars
  <2> QED BY <1>3, <2>1, <2>2, <2>3 DEF Other
<1>4. CASE UNCHANGED vars
  BY <1>4 DEF vars, taskVars, waiting
<1> QED BY <1>1, <1>2, <1>3, <1>4 DEF Next

LEMMA AnswersDiffer == NONE # SENSOR_TRIP /\ NONE # TIMER_TRIP /\ NONE # OTHER_TASK
<1>1. Len(NONE) = 0
  BY DEF NONE
<1>2. Len(SENSOR_TRIP) = 1 /\ Len(TIMER_TRIP) = 1 /\ Len(OTHER_TASK) = 1
  BY DEF SENSOR_TRIP, TIMER_TRIP, OTHER_TASK
<1>3. NONE # SENSOR_TRIP
  BY <1>1, <1>2
<1>4. NONE # TIMER_TRIP
  BY <1>1, <1>2
<1>5. NONE # OTHER_TASK
  BY <1>1, <1>2
<1> QED BY <1>3, <1>4, <1>5

LEMMA Apart ==
  /\ NOTASK \notin Clients /\ NOTASK \notin SensorIds /\ Sensors = SensorIds
  /\ Couriers \subseteq Clients /\ Foreign \subseteq Clients
  /\ \A c \in Clients : c \in Couriers <=> c \notin Foreign
BY SensorAssumption, TrainAssumption DEF Foreign

(* A sensor that a task lets go of, with what Dismiss does for it. *)
LEMMA Dropped ==
  ASSUME CourierInv, NEW c \in Clients, NEW s \in SensorIds,
         Dismiss([tid |-> c, at |-> "waiting", sensor |-> s])
  PROVE  /\ waiter' = [waiter EXCEPT ![s] = NOTASK] /\ UNCHANGED anyone /\ ServerOK'
         /\ \A d \in Clients : answer'[d] = IF d = c THEN NONE
                                            ELSE IF d = waiter[s] THEN TIMER_TRIP ELSE answer[d]
<1>1. /\ waiter' = [waiter EXCEPT ![s] = NOTASK] /\ UNCHANGED anyone
      /\ answer' = [d \in Clients |-> IF d = c THEN NONE
                                      ELSE IF d = waiter[s] THEN TIMER_TRIP ELSE answer[d]]
  BY DEF Dismiss
<1>2. answer' \in [Clients -> Answers]
  BY <1>1 DEF CourierInv, ServerOK, Answers
<1>3. waiter' \in [SensorIds -> Clients \cup {NOTASK}] /\ anyone' \in Seq(Clients)
  BY <1>1 DEF CourierInv, ServerOK
<1> QED BY <1>1, <1>2, <1>3 DEF ServerOK

LEMMA SentAwayKept ==
  ASSUME CourierInv, SentAway
  PROVE  CourierInv' /\ (SlotsInv => SlotsInv')
<1>1. courier' \in CourierRecords \cup {NoCourier} /\ courier'.at \in {"none", "handed"}
  BY DEF SentAway, CourierRecords, NoCourier
<1>2. CASE courier.at = "none"
  <2>1. UNCHANGED <<serverVars, elsewhere>>
    BY <1>2 DEF SentAway, Dismiss
  <2> QED BY <1>1, <1>2, <2>1
          DEF CourierInv, ServerOK, SlotsInv, SlotsAreLive, WaitersKeepTheirPlace, serverVars
<1>3. CASE courier.at # "none"
  <2> DEFINE t == courier.tid
             s == courier.sensor
  <2>1. courier \in CourierRecords /\ t \in Couriers /\ t \in Clients /\ s \in SensorIds
    BY <1>3, Apart DEF CourierInv, NoCourier, CourierRecords
  <2>2. Dismiss([tid |-> t, at |-> "waiting", sensor |-> s]) /\ UNCHANGED elsewhere
    BY <1>3 DEF SentAway, Dismiss
  <2> HIDE DEF t, s
  <2>3. /\ waiter' = [waiter EXCEPT ![s] = NOTASK] /\ UNCHANGED anyone /\ ServerOK'
        /\ \A d \in Clients : answer'[d] = IF d = t THEN NONE
                                           ELSE IF d = waiter[s] THEN TIMER_TRIP ELSE answer[d]
    BY <2>1, <2>2, Dropped
  <2>4. CourierInv'
    BY <1>1, <2>2, <2>3 DEF CourierInv
  <2>5. ASSUME SlotsInv PROVE SlotsInv'
    <3>1. waiter \in [SensorIds -> Clients \cup {NOTASK}]
      BY DEF CourierInv, ServerOK
    <3>2. \A x \in SensorIds : waiter[x] \in Couriers => waiter[x] = t /\ x = s
      BY <2>5 DEF SlotsInv, SlotsAreLive, t, s
    <3>3. \A x \in SensorIds : waiter'[x] = IF x = s THEN NOTASK ELSE waiter[x]
      BY <2>3, <3>1
    <3>4. \A x \in SensorIds : waiter'[x] \notin Couriers
      BY <3>1, <3>2, <3>3, Apart
    <3>5. ASSUME NEW c \in Foreign
          PROVE  /\ elsewhere[c] # NOTASK /\ answer'[c] = NONE => waiter'[elsewhere[c]] = c
                 /\ elsewhere[c] = NOTASK => answer'[c] = NONE
      <4>1. c \in Clients /\ c # t
        BY <2>1, Apart
      <4>2. elsewhere[c] \in SensorIds \cup {NOTASK}
        BY DEF CourierInv
      <4>3. waiter[s] = c => elsewhere[c] = s
        BY <2>1, <2>5 DEF SlotsInv
      <4>4. answer'[c] = NONE => waiter[s] # c /\ answer[c] = NONE
        BY <2>3, <4>1, AnswersDiffer
      <4>5. elsewhere[c] # NOTASK /\ answer[c] = NONE => waiter[elsewhere[c]] = c
        BY <2>5 DEF SlotsInv, WaitersKeepTheirPlace
      <4>6. elsewhere[c] = NOTASK => answer[c] = NONE
        BY <2>5 DEF SlotsInv
      <4> QED BY <2>1, <2>3, <3>3, <4>1, <4>2, <4>3, <4>4, <4>5, <4>6, Apart
    <3>6. \A x \in SensorIds : waiter'[x] \in Foreign => elsewhere[waiter'[x]] = x
      BY <2>5, <3>3, Apart DEF SlotsInv
    <3>7. ASSUME NEW x \in SensorIds, waiter'[x] # NOTASK PROVE answer'[waiter'[x]] = NONE
      <4>1. waiter'[x] = waiter[x] /\ x # s /\ waiter[x] \in Foreign /\ waiter[x] \in Clients
        BY <3>1, <3>3, <3>4, <3>7, Apart
      <4>2. elsewhere[waiter[x]] = x /\ answer[waiter[x]] = NONE
        BY <2>5, <3>7, <4>1 DEF SlotsInv
      <4>3. waiter[s] # waiter[x]
        BY <2>1, <2>5, <4>1, <4>2 DEF SlotsInv
      <4> QED BY <2>3, <4>1, <4>2, <4>3
    <3>8. ASSUME NEW c \in Couriers PROVE answer'[c] = NONE
      <4>1. c # t => waiter[s] # c /\ answer[c] = NONE
        BY <2>1, <2>5, <3>2 DEF SlotsInv, t
      <4> QED BY <2>3, <4>1, Apart
    <3> QED BY <1>1, <2>2, <2>3, <2>5, <3>4, <3>5, <3>6, <3>7, <3>8
            DEF SlotsInv, SlotsAreLive, WaitersKeepTheirPlace
  <2> QED BY <2>4, <2>5
<1> QED BY <1>2, <1>3

LEMMA Waited ==
  ASSUME CourierInv, NEW c \in Clients, NEW s \in SensorIds, Wait(c, s)
  PROVE  /\ ServerOK' /\ UNCHANGED anyone
         /\ \/ /\ waiter[s] = NOTASK /\ UNCHANGED answer
               /\ \A x \in SensorIds : waiter'[x] = IF x = s THEN c ELSE waiter[x]
            \/ /\ UNCHANGED waiter
               /\ \A d \in Clients : answer'[d] = IF d = c THEN OTHER_TASK ELSE answer[d]
<1>1. /\ waiter \in [SensorIds -> Clients \cup {NOTASK}] /\ anyone \in Seq(Clients)
      /\ answer \in [Clients -> Answers] /\ OTHER_TASK \in Answers
  BY DEF CourierInv, ServerOK, Answers
<1>2. UNCHANGED anyone
  BY DEF Wait
<1>3. CASE waiter[s] = NOTASK
  <2>1. waiter' = [waiter EXCEPT ![s] = c] /\ UNCHANGED answer
    BY <1>3 DEF Wait
  <2> QED BY <1>1, <1>2, <1>3, <2>1 DEF ServerOK
<1>4. CASE waiter[s] # NOTASK
  <2>1. answer' = [answer EXCEPT ![c] = OTHER_TASK] /\ UNCHANGED waiter
    BY <1>4 DEF Wait
  <2> QED BY <1>1, <1>2, <2>1 DEF ServerOK
<1> QED BY <1>3, <1>4

LEMMA BeginsToWaitKept ==
  ASSUME CourierInv, BeginsToWait
  PROVE  CourierInv' /\ (SlotsInv => SlotsInv')
<1> DEFINE t == courier.tid
           s == courier.sensor
<1>1. courier \in CourierRecords /\ courier.at = "handed" /\ t \in Couriers /\ t \in Clients /\ s \in SensorIds
  BY Apart DEF BeginsToWait, CourierInv, NoCourier, CourierRecords
<1>2. /\ courier' \in CourierRecords /\ courier'.tid = t /\ courier'.sensor = s
      /\ courier'.at = "waiting" /\ courier' = [tid |-> t, at |-> "waiting", sensor |-> s]
  BY <1>1 DEF BeginsToWait, CourierRecords
<1>3. Wait(t, s) /\ UNCHANGED elsewhere
  BY DEF BeginsToWait
<1> HIDE DEF t, s
<1>4. /\ ServerOK' /\ UNCHANGED anyone
      /\ \/ /\ waiter[s] = NOTASK /\ UNCHANGED answer
            /\ \A x \in SensorIds : waiter'[x] = IF x = s THEN t ELSE waiter[x]
         \/ /\ UNCHANGED waiter
            /\ \A d \in Clients : answer'[d] = IF d = t THEN OTHER_TASK ELSE answer[d]
  BY <1>1, <1>3, Waited
<1>5. CourierInv'
  BY <1>2, <1>3, <1>4 DEF CourierInv
<1>6. ASSUME SlotsInv PROVE SlotsInv'
  <2>1. \A x \in SensorIds : waiter[x] \notin Couriers
    BY <1>1, <1>6 DEF SlotsInv, SlotsAreLive
  <2>2. answer[t] = NONE
    BY <1>1, <1>6 DEF SlotsInv
  <2>3. CASE /\ waiter[s] = NOTASK /\ UNCHANGED answer
             /\ \A x \in SensorIds : waiter'[x] = IF x = s THEN t ELSE waiter[x]
    <3>1. SlotsAreLive'
      BY <1>2, <2>1, <2>3 DEF SlotsAreLive
    <3>2. \A c \in Foreign : elsewhere[c] # NOTASK /\ answer[c] = NONE => waiter'[elsewhere[c]] = c
      <4> TAKE c \in Foreign
      <4>1. elsewhere[c] \in SensorIds \cup {NOTASK} /\ c # NOTASK
        BY Apart DEF CourierInv
      <4>2. elsewhere[c] # NOTASK /\ answer[c] = NONE => waiter[elsewhere[c]] = c
        BY <1>6 DEF SlotsInv, WaitersKeepTheirPlace
      <4> QED BY <2>3, <4>1, <4>2
    <3>3. WaitersKeepTheirPlace'
      BY <1>1, <1>2, <1>3, <2>3, <3>2 DEF WaitersKeepTheirPlace
    <3>4. \A x \in SensorIds : waiter'[x] \in Foreign => elsewhere[waiter'[x]] = x
      BY <1>1, <1>6, <2>3, Apart DEF SlotsInv
    <3>5. \A x \in SensorIds : waiter'[x] # NOTASK => answer[waiter'[x]] = NONE
      BY <1>6, <2>2, <2>3 DEF SlotsInv
    <3> QED BY <1>1, <1>2, <1>3, <1>4, <1>6, <2>3, <3>1, <3>3, <3>4, <3>5 DEF SlotsInv
  <2>4. CASE /\ UNCHANGED waiter
             /\ \A d \in Clients : answer'[d] = IF d = t THEN OTHER_TASK ELSE answer[d]
    <3>1. SlotsAreLive'
      BY <2>1, <2>4 DEF SlotsAreLive
    <3>2. \A c \in Foreign : answer'[c] = answer[c]
      BY <1>1, <2>4, Apart
    <3>3. answer'[t] # NONE
      BY <1>1, <2>4, AnswersDiffer
    <3>4. WaitersKeepTheirPlace'
      BY <1>2, <1>3, <1>6, <2>4, <3>2, <3>3 DEF SlotsInv, WaitersKeepTheirPlace
    <3>5. \A x \in SensorIds : waiter[x] # NOTASK => answer'[waiter[x]] = NONE
      <4>1. \A x \in SensorIds : waiter[x] # NOTASK => waiter[x] \in Foreign
        BY <2>1, Apart DEF CourierInv, ServerOK
      <4> QED BY <1>6, <3>2, <4>1 DEF SlotsInv
    <3>6. \A c \in Couriers : c # t => answer'[c] = NONE
      BY <1>1, <1>6, <2>4, Apart DEF SlotsInv
    <3> QED BY <1>2, <1>3, <1>4, <1>6, <2>4, <3>1, <3>2, <3>4, <3>5, <3>6 DEF SlotsInv
  <2> QED BY <1>4, <2>3, <2>4
<1> QED BY <1>5, <1>6

LEMMA HearsKept ==
  ASSUME CourierInv, Hears
  PROVE  CourierInv' /\ (SlotsInv => SlotsInv')
<1> DEFINE t == courier.tid
<1>1. /\ courier.at = "waiting" /\ answer[t] # NONE /\ UNCHANGED <<waiter, anyone, elsewhere>>
      /\ answer' = [answer EXCEPT ![t] = NONE] /\ courier' = [courier EXCEPT !.at = "heard"]
  BY DEF Hears, Use
<1>2. courier \in CourierRecords /\ t \in Couriers /\ t \in Clients
  BY <1>1, Apart DEF CourierInv, NoCourier, CourierRecords
<1>3. courier' \in CourierRecords /\ courier'.at = "heard"
  BY <1>1, <1>2 DEF CourierRecords
<1> HIDE DEF t
<1>4. answer \in [Clients -> Answers] /\ NONE \in Answers
  BY DEF CourierInv, ServerOK, Answers
<1>5. CourierInv'
  BY <1>1, <1>3, <1>4 DEF CourierInv, ServerOK
<1>6. \A d \in Clients : answer'[d] = IF d = t THEN NONE ELSE answer[d]
  BY <1>1, <1>2, <1>4
<1>7. ASSUME SlotsInv PROVE SlotsInv'
  <2>1. \A x \in SensorIds : waiter[x] \notin Couriers
    <3> SUFFICES ASSUME NEW x \in SensorIds, waiter[x] \in Couriers PROVE FALSE
      OBVIOUS
    <3>1. courier = [tid |-> waiter[x], at |-> "waiting", sensor |-> x]
      BY <1>7 DEF SlotsInv, SlotsAreLive
    <3>2. waiter[x] = t /\ waiter[x] # NOTASK
      BY <1>2, <3>1, Apart DEF t
    <3> QED BY <1>1, <1>7, <3>2 DEF SlotsInv
  <2>2. \A c \in Foreign : answer'[c] = answer[c]
    BY <1>2, <1>6, Apart
  <2>3. \A x \in SensorIds : waiter[x] # NOTASK => answer'[waiter[x]] = NONE
    <3>1. \A x \in SensorIds : waiter[x] # NOTASK => waiter[x] \in Foreign
      BY <2>1, Apart DEF CourierInv, ServerOK
    <3> QED BY <1>7, <2>2, <3>1 DEF SlotsInv
  <2>4. \A c \in Couriers : answer'[c] = NONE
    BY <1>6, <1>7, Apart DEF SlotsInv, t
  <2> QED BY <1>1, <1>3, <1>7, <2>1, <2>2, <2>3, <2>4 DEF SlotsInv, SlotsAreLive, WaitersKeepTheirPlace
<1> QED BY <1>5, <1>7

LEMMA ForeignWaitsKept ==
  ASSUME CourierInv, NEW c \in Foreign, NEW s \in SensorIds, ForeignWaits(c, s)
  PROVE  CourierInv' /\ (SlotsInv => SlotsInv')
<1>1. c \in Clients /\ c \notin Couriers /\ c # NOTASK /\ s # NOTASK
  BY Apart
<1>2. elsewhere[c] = NOTASK /\ UNCHANGED courier /\ elsewhere' = [elsewhere EXCEPT ![c] = s]
  BY DEF ForeignWaits
<1>3. /\ ServerOK' /\ UNCHANGED anyone
      /\ \/ /\ waiter[s] = NOTASK /\ UNCHANGED answer
            /\ \A x \in SensorIds : waiter'[x] = IF x = s THEN c ELSE waiter[x]
         \/ /\ UNCHANGED waiter
            /\ \A d \in Clients : answer'[d] = IF d = c THEN OTHER_TASK ELSE answer[d]
  BY <1>1, Waited DEF ForeignWaits
<1>4. elsewhere \in [Foreign -> SensorIds \cup {NOTASK}]
  BY DEF CourierInv
<1>5. CourierInv' /\ \A d \in Foreign : elsewhere'[d] = IF d = c THEN s ELSE elsewhere[d]
  BY <1>2, <1>3, <1>4 DEF CourierInv
<1>6. ASSUME SlotsInv PROVE SlotsInv'
  <2>1. \A x \in SensorIds : waiter[x] # c
    BY <1>2, <1>6, Apart DEF SlotsInv
  <2>2. answer[c] = NONE
    BY <1>2, <1>6 DEF SlotsInv
  <2>3. CASE /\ waiter[s] = NOTASK /\ UNCHANGED answer
             /\ \A x \in SensorIds : waiter'[x] = IF x = s THEN c ELSE waiter[x]
    <3>1. SlotsAreLive'
      BY <1>1, <1>2, <1>6, <2>3 DEF SlotsInv, SlotsAreLive
    <3>2. ASSUME courier.at = "waiting", answer[courier.tid] = NONE
          PROVE  waiter'[courier.sensor] = courier.tid
      <4>1. courier.sensor \in SensorIds /\ courier.tid # NOTASK
        BY <3>2, Apart DEF CourierInv, CourierRecords, NoCourier
      <4>2. waiter[courier.sensor] = courier.tid
        BY <1>6, <3>2 DEF SlotsInv, WaitersKeepTheirPlace
      <4> QED BY <2>3, <4>1, <4>2
    <3>3. ASSUME NEW d \in Foreign, elsewhere'[d] # NOTASK, answer[d] = NONE
          PROVE  waiter'[elsewhere'[d]] = d
      <4>1. CASE d = c
        BY <1>5, <2>3, <4>1
      <4>2. CASE d # c
        <5>1. elsewhere'[d] = elsewhere[d] /\ elsewhere[d] \in SensorIds /\ d # NOTASK
          BY <1>4, <1>5, <3>3, <4>2, Apart
        <5>2. waiter[elsewhere[d]] = d
          BY <1>6, <3>3, <5>1 DEF SlotsInv, WaitersKeepTheirPlace
        <5> QED BY <2>3, <5>1, <5>2
      <4> QED BY <4>1, <4>2
    <3>4. WaitersKeepTheirPlace'
      BY <1>2, <2>3, <3>2, <3>3 DEF WaitersKeepTheirPlace
    <3>5. \A x \in SensorIds : waiter'[x] \in Foreign => elsewhere'[waiter'[x]] = x
      BY <1>5, <1>6, <2>1, <2>3, Apart DEF SlotsInv
    <3>6. \A x \in SensorIds : waiter'[x] # NOTASK => answer[waiter'[x]] = NONE
      BY <1>6, <2>2, <2>3 DEF SlotsInv
    <3>7. \A d \in Foreign : elsewhere'[d] = NOTASK => answer[d] = NONE
      BY <1>1, <1>5, <1>6 DEF SlotsInv
    <3> QED BY <1>2, <1>3, <1>6, <2>3, <3>1, <3>4, <3>5, <3>6, <3>7 DEF SlotsInv
  <2>4. CASE /\ UNCHANGED waiter
             /\ \A d \in Clients : answer'[d] = IF d = c THEN OTHER_TASK ELSE answer[d]
    <3>1. SlotsAreLive'
      BY <1>2, <1>6, <2>4 DEF SlotsInv, SlotsAreLive
    <3>2. \A d \in Couriers : answer'[d] = answer[d]
      BY <1>1, <2>4, Apart
    <3>3. answer'[c] # NONE
      BY <1>1, <2>4, AnswersDiffer
    <3>4. ASSUME courier.at = "waiting", answer'[courier.tid] = NONE
          PROVE  waiter[courier.sensor] = courier.tid
      <4>1. courier.tid \in Couriers
        BY <3>4 DEF CourierInv, CourierRecords, NoCourier
      <4> QED BY <1>6, <3>2, <3>4, <4>1 DEF SlotsInv, WaitersKeepTheirPlace
    <3>5. ASSUME NEW d \in Foreign, elsewhere'[d] # NOTASK, answer'[d] = NONE
          PROVE  waiter[elsewhere'[d]] = d
      <4>1. d # c /\ answer[d] = NONE /\ elsewhere'[d] = elsewhere[d]
        BY <1>5, <2>4, <3>3, <3>5, Apart
      <4> QED BY <1>6, <3>5, <4>1 DEF SlotsInv, WaitersKeepTheirPlace
    <3>6. WaitersKeepTheirPlace'
      BY <1>2, <2>4, <3>4, <3>5 DEF WaitersKeepTheirPlace
    <3>7. \A x \in SensorIds : waiter[x] \in Foreign => elsewhere'[waiter[x]] = x
      BY <1>5, <1>6, <2>1 DEF SlotsInv
    <3>8. \A x \in SensorIds : waiter[x] # NOTASK => answer'[waiter[x]] = NONE
      <4>1. \A x \in SensorIds : waiter[x] # NOTASK => waiter[x] \in Clients
        BY DEF CourierInv, ServerOK
      <4> QED BY <1>6, <2>1, <2>4, <4>1 DEF SlotsInv
    <3>9. \A d \in Foreign : elsewhere'[d] = NOTASK => answer'[d] = NONE
      BY <1>1, <1>5, <1>6, <2>4, Apart DEF SlotsInv
    <3> QED BY <1>2, <1>3, <1>6, <2>4, <3>1, <3>2, <3>6, <3>7, <3>8, <3>9 DEF SlotsInv
  <2> QED BY <1>3, <2>3, <2>4
<1> QED BY <1>5, <1>6

LEMMA ForeignGoesKept ==
  ASSUME CourierInv, NEW c \in Foreign, ForeignGoes(c)
  PROVE  CourierInv' /\ (SlotsInv => SlotsInv')
<1> DEFINE s == elsewhere[c]
<1>1. c \in Clients /\ c \notin Couriers /\ c # NOTASK
  BY Apart
<1>2. /\ s # NOTASK /\ UNCHANGED courier /\ elsewhere' = [elsewhere EXCEPT ![c] = NOTASK]
      /\ Dismiss([tid |-> c, at |-> "waiting", sensor |-> s])
  BY DEF ForeignGoes
<1>3. elsewhere \in [Foreign -> SensorIds \cup {NOTASK}] /\ s \in SensorIds
  BY <1>2 DEF CourierInv
<1>4. \A d \in Foreign : elsewhere'[d] = IF d = c THEN NOTASK ELSE elsewhere[d]
  BY <1>2, <1>3
<1>5. elsewhere[c] = s
  OBVIOUS
<1> HIDE DEF s
<1>6. /\ waiter' = [waiter EXCEPT ![s] = NOTASK] /\ UNCHANGED anyone /\ ServerOK'
      /\ \A d \in Clients : answer'[d] = IF d = c THEN NONE
                                         ELSE IF d = waiter[s] THEN TIMER_TRIP ELSE answer[d]
  BY <1>1, <1>2, <1>3, Dropped
<1>7. CourierInv'
  <2>1. elsewhere' \in [Foreign -> SensorIds \cup {NOTASK}]
    BY <1>2, <1>3
  <2> QED BY <1>2, <1>6, <2>1 DEF CourierInv
<1>8. waiter \in [SensorIds -> Clients \cup {NOTASK}]
  BY DEF CourierInv, ServerOK
<1>9. \A x \in SensorIds : waiter'[x] = IF x = s THEN NOTASK ELSE waiter[x]
  BY <1>6, <1>8
<1>10. ASSUME SlotsInv PROVE SlotsInv'
  <2>1. SlotsAreLive'
    <3> SUFFICES ASSUME NEW x \in SensorIds, waiter'[x] \in Couriers
                 PROVE  courier = [tid |-> waiter'[x], at |-> "waiting", sensor |-> x]
      BY <1>2 DEF SlotsAreLive
    <3>1. waiter'[x] = waiter[x]
      BY <1>9, Apart
    <3> QED BY <1>10, <3>1 DEF SlotsInv, SlotsAreLive
  <2>2. \A x \in SensorIds : waiter[x] \in Foreign => elsewhere[waiter[x]] = x
    BY <1>10 DEF SlotsInv
  <2>3. \A d \in Foreign : waiter[s] = d => elsewhere[d] = s
    BY <1>3, <2>2
  <2>4. ASSUME courier.at = "waiting", answer'[courier.tid] = NONE
        PROVE  waiter'[courier.sensor] = courier.tid
    <3>1. courier.tid \in Couriers /\ courier.tid \in Clients /\ courier.tid # c /\ courier.sensor \in SensorIds
      BY <1>1, <2>4, Apart DEF CourierInv, CourierRecords, NoCourier
    <3>2. courier.tid # waiter[s] /\ answer[courier.tid] = NONE
      BY <1>6, <2>4, <3>1, AnswersDiffer
    <3>3. waiter[courier.sensor] = courier.tid
      BY <1>10, <2>4, <3>2 DEF SlotsInv, WaitersKeepTheirPlace
    <3> QED BY <1>9, <3>1, <3>2, <3>3
  <2>5. ASSUME NEW d \in Foreign, elsewhere'[d] # NOTASK, answer'[d] = NONE
        PROVE  waiter'[elsewhere'[d]] = d
    <3>1. d \in Clients /\ d # c /\ elsewhere'[d] = elsewhere[d] /\ elsewhere[d] \in SensorIds
      BY <1>3, <1>4, <2>5, Apart
    <3>2. d # waiter[s] /\ answer[d] = NONE
      BY <1>6, <2>5, <3>1, AnswersDiffer
    <3>3. waiter[elsewhere[d]] = d
      BY <1>10, <2>5, <3>1, <3>2 DEF SlotsInv, WaitersKeepTheirPlace
    <3> QED BY <1>9, <3>1, <3>2, <3>3
  <2>6. WaitersKeepTheirPlace'
    BY <1>2, <2>4, <2>5 DEF WaitersKeepTheirPlace
  <2>7. ASSUME NEW x \in SensorIds, waiter'[x] \in Foreign PROVE elsewhere'[waiter'[x]] = x
    <3>1. x # s /\ waiter'[x] = waiter[x]
      BY <1>9, <2>7, Apart
    <3>2. elsewhere[waiter[x]] = x /\ waiter[x] # c
      BY <1>5, <2>2, <2>7, <3>1
    <3> QED BY <1>4, <2>7, <3>1, <3>2
  <2>8. ASSUME NEW x \in SensorIds, waiter'[x] # NOTASK PROVE answer'[waiter'[x]] = NONE
    <3>1. x # s /\ waiter'[x] = waiter[x] /\ waiter[x] \in Clients /\ answer[waiter[x]] = NONE
      BY <1>8, <1>9, <1>10, <2>8 DEF SlotsInv
    <3>2. waiter[x] # waiter[s]
      <4>1. CASE waiter[x] \in Foreign
        BY <2>2, <2>3, <3>1, <4>1
      <4>2. CASE waiter[x] \in Couriers
        <5>1. courier.sensor = x /\ (waiter[s] \in Couriers => courier.sensor = s)
          BY <1>3, <1>10, <4>2 DEF SlotsInv, SlotsAreLive
        <5> QED BY <3>1, <4>2, <5>1
      <4> QED BY <3>1, <4>1, <4>2, Apart
    <3> QED BY <1>6, <3>1, <3>2
  <2>9. ASSUME NEW d \in Couriers, courier.at # "waiting" \/ courier.tid # d PROVE answer'[d] = NONE
    <3>1. d \in Clients /\ answer[d] = NONE
      BY <1>10, <2>9, Apart DEF SlotsInv
    <3>2. waiter[s] # d
      BY <1>3, <1>10, <2>9 DEF SlotsInv, SlotsAreLive
    <3> QED BY <1>6, <3>1, <3>2
  <2>10. ASSUME NEW d \in Foreign, elsewhere'[d] = NOTASK PROVE answer'[d] = NONE
    <3>1. CASE d = c
      BY <1>1, <1>6, <3>1
    <3>2. CASE d # c
      <4>1. d \in Clients /\ elsewhere[d] = NOTASK /\ answer[d] = NONE
        BY <1>4, <1>10, <2>10, <3>2, Apart DEF SlotsInv
      <4>2. waiter[s] # d
        BY <1>3, <2>3, <4>1, Apart
      <4> QED BY <1>6, <4>1, <4>2
    <3> QED BY <3>1, <3>2
  <2> QED BY <1>2, <1>6, <1>10, <2>1, <2>6, <2>7, <2>8, <2>9, <2>10 DEF SlotsInv
<1> QED BY <1>7, <1>10

LEMMA PolledKept ==
  ASSUME CourierInv, NEW tripped \in SUBSET SensorIds, Polled(tripped)
  PROVE  CourierInv' /\ (SlotsInv => SlotsInv')
<1>1. waiter \in [SensorIds -> Clients \cup {NOTASK}] /\ anyone \in Seq(Clients) /\ answer \in [Clients -> Answers]
  BY DEF CourierInv, ServerOK
<1>2. /\ UNCHANGED <<courier, elsewhere>>
      /\ waiter' = [s \in SensorIds |-> IF s \in tripped THEN NOTASK ELSE waiter[s]]
      /\ answer' = [c \in Clients |->
            IF \E s \in tripped : waiter[s] = c THEN SENSOR_TRIP
            ELSE IF Unawaited(tripped) # {} /\ c \in ToSet(anyone)
              THEN ThatSensor(Min(Unawaited(tripped)))
            ELSE answer[c]]
      /\ anyone' = IF Unawaited(tripped) = {} THEN anyone ELSE <<>>
  BY DEF Polled, Returned
<1>3. ServerOK'
  <2>1. Unawaited(tripped) # {} => Min(Unawaited(tripped)) \in SensorIds
    <3>1. Unawaited(tripped) \in SUBSET Nat /\ Unawaited(tripped) \subseteq SensorIds
      BY SensorAssumption DEF Unawaited
    <3> QED BY <3>1, MinIs
  <2>2. SENSOR_TRIP \in Answers /\ \A s \in SensorIds : ThatSensor(s) \in Answers
    BY DEF Answers
  <2>3. answer' \in [Clients -> Answers]
    BY <1>1, <1>2, <2>1, <2>2
  <2>4. waiter' \in [SensorIds -> Clients \cup {NOTASK}]
    BY <1>1, <1>2
  <2>5. anyone' \in Seq(Clients)
    BY <1>1, <1>2, EmptySeq
  <2> QED BY <2>3, <2>4, <2>5 DEF ServerOK
<1>4. CourierInv'
  BY <1>2, <1>3 DEF CourierInv
<1>5. ASSUME SlotsInv PROVE SlotsInv'
  <2>1. ToSet(anyone) = {} /\ anyone' = <<>>
    BY <1>2, <1>5 DEF SlotsInv, ToSet
  <2>2. \A c \in Clients : answer'[c] = IF \E s \in tripped : waiter[s] = c THEN SENSOR_TRIP ELSE answer[c]
    BY <1>2, <2>1
  <2>3. \A s \in SensorIds : waiter'[s] = IF s \in tripped THEN NOTASK ELSE waiter[s]
    BY <1>2
  <2>4. \A s \in SensorIds, x \in SensorIds : waiter[s] # NOTASK /\ waiter[x] = waiter[s] => x = s
    <3> SUFFICES ASSUME NEW s \in SensorIds, NEW x \in SensorIds, waiter[s] # NOTASK, waiter[x] = waiter[s]
                 PROVE  x = s
      OBVIOUS
    <3>1. CASE waiter[s] \in Foreign
      BY <1>5, <3>1 DEF SlotsInv
    <3>2. CASE waiter[s] \in Couriers
      <4>1. courier.sensor = s /\ courier.sensor = x
        BY <1>5, <3>2 DEF SlotsInv, SlotsAreLive
      <4> QED BY <4>1
    <3> QED BY <1>1, <3>1, <3>2, Apart
  <2>5. SlotsAreLive'
    <3> SUFFICES ASSUME NEW x \in SensorIds, waiter'[x] \in Couriers
                 PROVE  courier = [tid |-> waiter'[x], at |-> "waiting", sensor |-> x]
      BY <1>2 DEF SlotsAreLive
    <3>1. waiter'[x] = waiter[x]
      BY <2>3, Apart
    <3> QED BY <1>5, <3>1 DEF SlotsInv, SlotsAreLive
  <2>6. ASSUME NEW c \in Clients, NEW s \in SensorIds, answer'[c] = NONE, waiter[s] = c
        PROVE  waiter'[s] = c /\ answer[c] = NONE
    BY <2>2, <2>3, <2>6, AnswersDiffer
  <2>7. \A c \in Clients : answer'[c] = NONE => answer[c] = NONE
    BY <2>2, AnswersDiffer
  <2>8. ASSUME courier.at = "waiting", answer'[courier.tid] = NONE
        PROVE  waiter'[courier.sensor] = courier.tid
    <3>1. courier.tid \in Clients /\ courier.sensor \in SensorIds
      BY <2>8, Apart DEF CourierInv, CourierRecords, NoCourier
    <3>2. waiter[courier.sensor] = courier.tid
      BY <1>5, <2>7, <2>8, <3>1 DEF SlotsInv, WaitersKeepTheirPlace
    <3> QED BY <2>6, <2>8, <3>1, <3>2
  <2>9. ASSUME NEW d \in Foreign, elsewhere[d] # NOTASK, answer'[d] = NONE
        PROVE  waiter'[elsewhere[d]] = d
    <3>1. d \in Clients /\ elsewhere[d] \in SensorIds
      BY <2>9, Apart DEF CourierInv
    <3>2. waiter[elsewhere[d]] = d
      BY <1>5, <2>7, <2>9, <3>1 DEF SlotsInv, WaitersKeepTheirPlace
    <3> QED BY <2>6, <2>9, <3>1, <3>2
  <2>10. WaitersKeepTheirPlace'
    BY <1>2, <2>8, <2>9 DEF WaitersKeepTheirPlace
  <2>11. \A x \in SensorIds : waiter'[x] \in Foreign => elsewhere[waiter'[x]] = x
    BY <1>5, <2>3, Apart DEF SlotsInv
  <2>12. ASSUME NEW x \in SensorIds, waiter'[x] # NOTASK PROVE answer'[waiter'[x]] = NONE
    <3>1. x \notin tripped /\ waiter'[x] = waiter[x] /\ waiter[x] \in Clients /\ answer[waiter[x]] = NONE
      BY <1>1, <1>5, <2>3, <2>12 DEF SlotsInv
    <3>2. ~\E s \in tripped : waiter[s] = waiter[x]
      BY <2>4, <2>12, <3>1
    <3> QED BY <2>2, <3>1, <3>2
  <2>13. ASSUME NEW d \in Couriers, courier.at # "waiting" \/ courier.tid # d PROVE answer'[d] = NONE
    <3>1. d \in Clients /\ answer[d] = NONE
      BY <1>5, <2>13, Apart DEF SlotsInv
    <3>2. ~\E s \in tripped : waiter[s] = d
      BY <1>5, <2>13 DEF SlotsInv, SlotsAreLive
    <3> QED BY <2>2, <3>1, <3>2
  <2>14. ASSUME NEW d \in Foreign, elsewhere[d] = NOTASK PROVE answer'[d] = NONE
    <3>1. d \in Clients /\ answer[d] = NONE
      BY <1>5, <2>14, Apart DEF SlotsInv
    <3>2. ~\E s \in tripped : waiter[s] = d
      BY <1>5, <2>14, Apart DEF SlotsInv
    <3> QED BY <2>2, <3>1, <3>2
  <2> QED BY <1>2, <2>1, <2>5, <2>10, <2>11, <2>12, <2>13, <2>14 DEF SlotsInv
<1> QED BY <1>4, <1>5

LEMMA WaitingKept ==
  ASSUME TrainInv, [Next]_vars
  PROVE  CourierInv' /\ (SlotsInv => SlotsInv')
<1>1. CASE UNCHANGED waiting
  BY <1>1 DEF TrainInv, CourierInv, ServerOK, SlotsInv, SlotsAreLive, WaitersKeepTheirPlace, waiting, serverVars
<1> QED BY <1>1, WaitSteps, SentAwayKept, BeginsToWaitKept, HearsKept, ForeignWaitsKept,
           ForeignGoesKept, PolledKept DEF TrainInv
-----------------------------------------------------------------------------
(* The train starts out with nothing. *)
LEMMA InitTrain ==
  ASSUME Init
  PROVE  TrainInv /\ Remembered /\ SlotsInv
<1>1. TrackInv
  <2>1. \A n \in Nodes : Twin[n] \in Nodes
    BY TrackAssumption
  <2> QED BY <2>1 DEF Init, TrackInv, SwitchesOK, OwnerOK, PairsAgree
<1>2. pc = Place("gone", "none", 0) /\ pc \in PlaceRecords /\ pc.at = "gone" /\ pc.by = "none"
  BY PlaceIs, Speeds DEF Init, Ats, Bys
<1>3. train \in TrainRecords /\ train.ring = <<>>
  BY NoTrainIs DEF Init
<1>4. RestInv /\ MissedInTime
  <2>1. RestInv
    BY Speeds DEF Init, RestInv
  <2>2. missed = 0 /\ Missable \in Nat /\ pc.at # "replying"
    BY <1>2, TrainAssumption DEF Init
  <2> QED BY <2>1, <2>2 DEF MissedInTime
<1>5. CourierInv
  BY EmptySeq DEF Init, ServerInit, CourierInv, ServerOK, Answers
<1>6. Remembered
  BY <1>3, TrainAssumption, OwnerAssumption DEF Init, Remembered
<1>7. SlotsInv
  <2>1. /\ anyone = <<>> /\ courier = NoCourier /\ waiter = [s \in SensorIds |-> NOTASK]
        /\ answer = [c \in Clients |-> NONE] /\ elsewhere = [c \in Foreign |-> NOTASK]
    BY DEF Init, ServerInit
  <2>2. courier.at # "waiting"
    BY <2>1 DEF NoCourier
  <2> QED BY <2>1, <2>2, Apart DEF SlotsInv, SlotsAreLive, WaitersKeepTheirPlace
<1> QED BY <1>1, <1>2, <1>3, <1>4, <1>5, <1>6, <1>7 DEF TrainInv, TaskInv

LEMMA StepTrain ==
  ASSUME TrainInv, [Next]_vars
  PROVE  TrainInv' /\ Kept /\ (Remembered => Remembered') /\ (SlotsInv => SlotsInv')
BY NextKept, WaitingKept DEF TrainInv, StepKept

(* The inductive invariant holds, whatever the track and whoever drives. *)
THEOREM TrainInvariant == Spec => [](TrainInv /\ Remembered /\ SlotsInv)
<1>1. Init => TrainInv /\ Remembered /\ SlotsInv
  BY InitTrain
<1>2. TrainInv /\ Remembered /\ SlotsInv /\ [Next]_vars => (TrainInv /\ Remembered /\ SlotsInv)'
  BY StepTrain
<1> QED BY <1>1, <1>2, PTL DEF Spec

(* Types; and a node and its reverse always belong to the same train, which is what
   cmpAndSwapResvBy promises (track_reservation.c). *)
THEOREM TrainOKCorrect == Spec => []TrainOK
<1>1. TrainInv => TrainOK
  BY DEF TrainInv, TaskInv, TrackInv, CourierInv, RestInv, MissedInTime, TrainOK, TrainRecords, Rings,
         CourierRecords
<1> QED BY <1>1, TrainInvariant, PTL

(* No step takes a piece of track from one train and gives it to another: track
   passes through nobody's hands (DispatchReserveTrack). *)
THEOREM NeverTakenCorrect == Spec => NeverTaken
<1>1. TrainInv /\ [Next]_vars => [Kept]_owner
  BY StepTrain
<1> QED BY <1>1, TrainInvariant, PTL DEF Spec, NeverTaken, Kept

(* Between two messages, the train knows of every node that is reserved for it, and
   one that was deleted has none (train_task.c, the frees of each handler). *)
THEOREM NoLeakCorrect == Spec => []NoLeak
<1>1. Remembered => NoLeak
  BY DEF Remembered, NoLeak, Lost
<1> QED BY <1>1, TrainInvariant, PTL

(* A courier's slot at the sensor server is its own, and never a dead task's
   (FreeSensor before Destroy, in waitOnNextTarget and TRM_DELETE). *)
THEOREM SlotsAreLiveCorrect == Spec => []SlotsAreLive
<1>1. SlotsInv => SlotsAreLive
  BY DEF SlotsInv
<1> QED BY <1>1, TrainInvariant, PTL

(* No wake-up is lost: who has no answer from the sensor server is still the one
   that its sensor will wake (sensor_server.c, SENSOR_WAIT and SENSOR_FREE). *)
THEOREM WaitersKeepTheirPlaceCorrect == Spec => []WaitersKeepTheirPlace
<1>1. SlotsInv => WaitersKeepTheirPlace
  BY DEF SlotsInv
<1> QED BY <1>1, TrainInvariant, PTL
-----------------------------------------------------------------------------
(* Which courier a running train has.  A train that moves has a speed; a task that
   is between a trip and a new courier, or is no more; a courier for the sensor that
   the train comes to next. *)
Rolls(t) == Moving(t) => t.speed > 0
Between(p) ==
  \/ p.at \in Lost \cup {"waiting"}
  \/ p.at \in {"tripped", "asking", "detour", "found", "granted", "refused"} /\ p.by \in {"courier", "missed"}
Attends(t, c) ==
  t.speed > 0 /\ t.next # NULL /\ c.at # "none" => c.sensor = t.next /\ c.at # "heard"
Attended(t, p, c) ==
  /\ Rolls(t)
  /\ Between(p) \/ Attends(t, c)
  /\ p.at = "turning" => t.speed = 0
AheadInv == Attended(train, pc, courier)

(* What is done to a train's speed and next sensor leaves one that moves a speed. *)
LEMMA SetSpeedRolls ==
  ASSUME NEW t \in TrainRecords, Rolls(t), NEW speed \in 0 .. TopSpeed + 1
  PROVE  Rolls(SetSpeed(t, speed)) /\ SetSpeed(t, speed).speed = speed
<1> DEFINE u == [t EXCEPT !.speed = speed,
                          !.motion = IF speed < t.speed THEN "DECEL" ELSE "ACCEL",
                          !.next = IF speed = 0 THEN NextSensor(t) ELSE @]
<1>1. t.speed \in Nat /\ speed \in Nat
  BY TrainAssumption DEF TrainRecords
<1>2. CASE speed = t.speed
  BY <1>2 DEF SetSpeed
<1>3. CASE speed # t.speed
  <2>1. SetSpeed(t, speed) = u
    BY <1>3 DEF SetSpeed
  <2>2. u.speed = speed /\ u.motion = IF speed < t.speed THEN "DECEL" ELSE "ACCEL"
    BY DEF TrainRecords
  <2> HIDE DEF u
  <2> QED BY <1>1, <1>3, <2>1, <2>2 DEF Rolls, Moving
<1> QED BY <1>2, <1>3

LEMMA UpdateNextRolls ==
  ASSUME NEW t \in TrainRecords, Rolls(t)
  PROVE  Rolls(UpdateNext(t)) /\ UpdateNext(t).speed \in {t.speed, 0}
<1> DEFINE u == IF NextSensor(t) = NULL /\ Moving(t) THEN SetSpeed(t, 0) ELSE t
<1>1. Rolls(u) /\ u.speed \in {t.speed, 0} /\ u \in TrainRecords
  BY SetSpeedRolls, SetSpeedKept, Speeds
<1>2. UpdateNext(t) = [u EXCEPT !.next = NextSensor(t)]
  BY DEF UpdateNext
<1> HIDE DEF u
<1> QED BY <1>1, <1>2 DEF TrainRecords, Rolls, Moving

LEMMA PassPathRolls ==
  ASSUME NEW t \in TrainRecords, NEW row
  PROVE  LET u == PassPath(t, row) IN
         u.motion = t.motion /\ u.speed = t.speed /\ u.next = t.next
BY DEF PassPath, TrainRecords

LEMMA LetGoEither ==
  ASSUME NEW row, NEW t, NEW at, LetGo(row, t, at)
  PROVE  \/ train' = t /\ pc' = at
         \/ train' = train /\ pc'.at = "panic"
BY DEF LetGo, Panic, Place

(* What a step has to do for a running train to have the right courier. *)
LEMMA StaysAttended ==
  ASSUME AheadInv, Rolls(train'), pc'.at = "turning" => train'.speed = 0,
         \/ Between(pc') \/ train'.speed = 0 \/ train'.next = NULL
         \/ ~Between(pc) /\ train'.speed = train.speed /\ train'.next = train.next /\ courier' = courier
  PROVE  AheadInv'
BY DEF AheadInv, Attended, Attends

(* A train as it was, but for where it is and what it has. *)
Same(t) == t.speed = train.speed /\ t.motion = train.motion /\ t.next = train.next

LEMMA SameRolls ==
  ASSUME AheadInv, NEW t, Same(t)
  PROVE  Rolls(t)
BY DEF AheadInv, Attended, Rolls, Moving, Same

LEMMA GoesOnAttended ==
  ASSUME AheadInv, Same(train'), courier' = courier, pc'.at # "turning", ~Between(pc) \/ Between(pc')
  PROVE  AheadInv'
BY SameRolls, StaysAttended DEF Same

LEMMA StandsAttended ==
  ASSUME AheadInv, Rolls(train'), train'.speed = 0
  PROVE  AheadInv'
BY StaysAttended

LEMMA LostAttended ==
  ASSUME AheadInv, train' = train, pc'.at \in Lost
  PROVE  AheadInv'
<1>1. Between(pc') /\ pc'.at # "turning"
  BY DEF Between, Lost
<1>2. Rolls(train')
  BY DEF AheadInv, Attended
<1> QED BY <1>1, <1>2, StaysAttended

LEMMA LetGoAttended ==
  ASSUME AheadInv, NEW row, NEW t, NEW at, LetGo(row, t, at), Same(t), courier' = courier,
         at.at # "turning", ~Between(pc) \/ Between(at)
  PROVE  AheadInv'
<1>1. CASE train' = t /\ pc' = at
  BY <1>1, GoesOnAttended
<1>2. CASE train' = train /\ pc'.at = "panic"
  BY <1>2, LostAttended DEF Lost
<1> QED BY <1>1, <1>2, LetGoEither

LEMMA CreateAttended ==
  ASSUME NEW s, NEW k, NEW both, AheadInv, Create(s, k, both)
  PROVE  AheadInv'
<1> DEFINE e == <<Along(s, k + 1)[k + 1], Along(s, k + 1)[k + 2]>>
           t == NewTrain(e)
<1>1. CASE train' = train /\ pc'.at = "panic"
  BY <1>1, LostAttended DEF Lost
<1>2. ASSUME NEW got, train' = [UpdateNext(t) EXCEPT !.ring = got] PROVE AheadInv'
  <2>1. UpdateNext(t) = [t EXCEPT !.next = NextSensor(t)]
    BY DEF UpdateNext, Moving, NewTrain
  <2>2. train'.speed = 0 /\ train'.motion = "STOP"
    BY <1>2, <2>1 DEF NewTrain
  <2> QED BY <2>2, StandsAttended DEF Rolls, Moving
<1>3. \/ \E got : train' = [UpdateNext(t) EXCEPT !.ring = got]
      \/ train' = train /\ pc'.at = "panic"
  BY DEF Create, Panic, Place
<1> QED BY <1>1, <1>2, <1>3

(* After a trip a courier is missing, and is sent for when the handler is done. *)
LEMMA TripAttended ==
  ASSUME TaskInv, AheadInv, NEW t0 \in TrainRecords, Rolls(t0), t0.next # NULL,
         NEW by \in {"courier", "missed"}, Trip(t0, by)
  PROVE  AheadInv'
<1> DEFINE t   == PastSensor(t0)
           n   == Before(t0.ring, {t0.next})
           u   == [t0 EXCEPT !.edge = IF NextNode(t0.next) = NULL THEN @ ELSE NextEdge(t0.next),
                             !.ring = SubSeq(@, n + 1, Len(@))]
           row == SubSeq(t0.ring, 1, Min({n + 1, Len(t0.ring)}))
<1>1. \/ LetGo(SubSeq(t0.ring, 1, n), t, Place("tripped", by, 0))
      \/ Panic /\ UNCHANGED <<owner, train>>
      \/ \E want : LetGo(Append(SubSeq(t0.ring, 1, n), Head(t.ring)), [t EXCEPT !.ring = Tail(@)],
                         Asking(by, 0, want, Tail(t.ring)))
  BY DEF Trip
<1>2. t \in TrainRecords /\ Rolls(t)
  <2>1. t \in TrainRecords /\ row \in Seq(Nodes) /\ u \in TrainRecords
    BY PastSensorRow, PastSensorKept
  <2>2. u.motion = t0.motion /\ u.speed = t0.speed
    BY DEF TrainRecords
  <2>3. t = UpdateNext(PassPath(u, row))
    BY DEF PastSensor
  <2> HIDE DEF t, u, row
  <2>4. Rolls(PassPath(u, row)) /\ PassPath(u, row) \in TrainRecords
    BY <2>1, <2>2, PassPathRolls, PassPathKept DEF Rolls, Moving
  <2> QED BY <2>1, <2>3, <2>4, UpdateNextRolls
<1> HIDE DEF t, n
<1>3. ASSUME NEW x, Rolls(x), NEW passed, NEW at, LetGo(passed, x, at),
             at.at \in {"tripped", "asking"}, at.by = by
      PROVE  AheadInv'
  <2>1. CASE train' = x /\ pc' = at
    <3>1. Between(pc') /\ pc'.at # "turning"
      BY <1>3, <2>1 DEF Between
    <3> QED BY <1>3, <2>1, <3>1, StaysAttended
  <2>2. CASE train' = train /\ pc'.at = "panic"
    BY <2>2, LostAttended DEF Lost
  <2> QED BY <1>3, <2>1, <2>2, LetGoEither
<1>4. CASE LetGo(SubSeq(t0.ring, 1, n), t, Place("tripped", by, 0))
  <2>1. Place("tripped", by, 0).at = "tripped" /\ Place("tripped", by, 0).by = by
    BY DEF Place
  <2> QED BY <1>2, <1>3, <1>4, <2>1
<1>5. CASE Panic /\ UNCHANGED <<owner, train>>
  BY <1>5, IdleIs, LostAttended DEF Panic, Lost
<1>6. ASSUME NEW want, LetGo(Append(SubSeq(t0.ring, 1, n), Head(t.ring)), [t EXCEPT !.ring = Tail(@)],
                             Asking(by, 0, want, Tail(t.ring)))
      PROVE  AheadInv'
  <2>1. /\ Asking(by, 0, want, Tail(t.ring)).at = "asking"
        /\ Asking(by, 0, want, Tail(t.ring)).by = by
    BY DEF Asking, Place
  <2>2. Rolls([t EXCEPT !.ring = Tail(@)])
    BY <1>2 DEF TrainRecords, Rolls, Moving
  <2> QED BY <1>3, <1>6, <2>1, <2>2
<1> QED BY <1>1, <1>4, <1>5, <1>6

LEMMA CourierReportsAttended ==
  ASSUME TaskInv, AheadInv, CourierReports
  PROVE  AheadInv'
<1>1. /\ pc.at = "idle" /\ courier' = [courier EXCEPT !.at = "heard"]
      /\ IF train.next = NULL THEN UNCHANGED <<owner, train, pc>> ELSE Trip(train, "courier")
  BY DEF CourierReports, AtRest
<1>2. Rolls(train) /\ train \in TrainRecords
  BY DEF AheadInv, Attended, TaskInv
<1>3. CASE train.next = NULL
  BY <1>1, <1>2, <1>3, StaysAttended
<1>4. CASE train.next # NULL
  BY <1>1, <1>2, <1>4, TripAttended
<1> QED BY <1>3, <1>4

(* The courier is sent for the sensor that the train comes to next, and waits there. *)
LEMMA WaitOnNextAttended ==
  ASSUME TaskInv, AheadInv, WaitOnNext
  PROVE  AheadInv'
<1>1. /\ train' = train /\ pc' \in {On("replying"), IDLE}
      /\ \/ courier'.at = "none"
         \/ courier'.at = "handed" /\ courier'.sensor = train.next
  BY DEF WaitOnNext, NoCourier
<1>2. pc'.at # "turning"
  BY <1>1, OnIs, IdleIs DEF TaskInv, Ats
<1>3. Attends(train', courier') /\ Rolls(train')
  BY <1>1 DEF Attends, AheadInv, Attended
<1> QED BY <1>2, <1>3 DEF AheadInv, Attended

LEMMA CourierWaitsAttended ==
  ASSUME CourierInv, AheadInv, CourierWaits
  PROVE  AheadInv'
<1>1. /\ courier.at = "handed" /\ courier' = [courier EXCEPT !.at = "waiting"]
      /\ UNCHANGED <<train, pc>>
  BY DEF CourierWaits
<1>2. courier'.at = "waiting" /\ courier'.sensor = courier.sensor
  BY <1>1 DEF CourierInv, CourierRecords, NoCourier
<1>3. Attends(train, courier) => Attends(train', courier')
  BY <1>1, <1>2 DEF Attends
<1> QED BY <1>1, <1>3 DEF AheadInv, Attended

LEMMA AfterTripAttended ==
  ASSUME AheadInv, NEW t \in TrainRecords, Rolls(t), NEW by \in Bys, AfterTrip(t, by)
  PROVE  AheadInv'
<1>1. CASE t.next # NULL
  <2>1. train' = [t EXCEPT !.result = "GOTO_COMPLETE"] /\ pc' = Place("waiting", by, 0)
    BY <1>1 DEF AfterTrip
  <2>2. Rolls(train') /\ pc'.at = "waiting"
    BY <2>1 DEF Rolls, Moving, TrainRecords, Place
  <2> QED BY <2>2, StaysAttended DEF Between
<1>2. CASE t.next = NULL /\ by = "missed"
  <2>1. train' = SetSpeed(t, 0)
    BY <1>2 DEF AfterTrip
  <2> QED BY <2>1, Speeds, SetSpeedRolls, StandsAttended
<1>3. CASE t.next = NULL /\ by # "missed"
  <2>1. train' = t /\ pc' = IDLE
    BY <1>3 DEF AfterTrip
  <2> QED BY <1>3, <2>1, IdleIs, StaysAttended
<1> QED BY <1>1, <1>2, <1>3

LEMMA AnsweredAttended ==
  ASSUME TaskInv, AheadInv, Answered
  PROVE  AheadInv'
<1> DEFINE t == IF pc.at = "refused" THEN Refused(train) ELSE train
<1>1. /\ pc.at \in {"granted", "refused"}
      /\ IF pc.by \in {"courier", "missed"} THEN AfterTrip(t, pc.by)
         ELSE train' = t /\ pc' = On("located")
      /\ courier' = courier
  BY DEF Answered, waiting
<1>2. train \in TrainRecords /\ pc.by \in Bys /\ Rolls(train)
  BY DEF TaskInv, PlaceRecords, AheadInv, Attended
<1>3. Refused(train) \in TrainRecords /\ Rolls(Refused(train)) /\ Refused(train).speed = 0
  <2>1. SetSpeed(train, 0) \in TrainRecords /\ Rolls(SetSpeed(train, 0)) /\ SetSpeed(train, 0).speed = 0
    BY <1>2, Speeds, SetSpeedKept, SetSpeedRolls
  <2> QED BY <2>1 DEF Refused, TrainRecords, Rolls, Moving, Results
<1>4. t \in TrainRecords /\ Rolls(t) /\ (t = train \/ t.speed = 0)
  BY <1>2, <1>3
<1> HIDE DEF t
<1>5. CASE pc.by \in {"courier", "missed"}
  BY <1>1, <1>2, <1>4, <1>5, AfterTripAttended
<1>6. CASE pc.by \notin {"courier", "missed"}
  <2>1. train' = t /\ pc' = On("located")
    BY <1>1, <1>6
  <2>2. pc'.at # "turning" /\ ~Between(pc)
    BY <1>1, <1>6, <2>1, OnIs DEF TaskInv, Ats, Between, Lost
  <2> QED BY <1>1, <1>4, <2>1, <2>2, StandsAttended, GoesOnAttended DEF Same
<1> QED BY <1>5, <1>6

LEMMA TripDoneAttended ==
  ASSUME TaskInv, AheadInv, TripDone
  PROVE  AheadInv'
<1>1. train \in TrainRecords /\ pc.by \in Bys /\ Rolls(train)
  BY DEF TaskInv, PlaceRecords, AheadInv, Attended
<1> QED BY <1>1, AfterTripAttended DEF TripDone

(* More track, or none. *)
LEMMA ReservesAttended ==
  ASSUME TaskInv, AheadInv, FindsWay \/ Detour \/ Reserve
  PROVE  AheadInv'
<1> DEFINE goes == {"detour", "found", "granted", "refused"}
<1>1. /\ courier' = courier /\ pc.at \in {"asking", "detour", "found"}
      /\ \/ Panic /\ UNCHANGED train
         \/ /\ train' = train \/ \E ring : train' = [train EXCEPT !.ring = ring]
            /\ \E at \in goes : pc' = On(at) \/ \E way : pc' = [On(at) EXCEPT !.way = way]
  BY DEF FindsWay, Detour, Reserve, waiting, allButPc
<1>2. CASE Panic /\ UNCHANGED train
  BY <1>2, IdleIs, LostAttended DEF Panic, Lost
<1>3. CASE /\ train' = train \/ \E ring : train' = [train EXCEPT !.ring = ring]
           /\ \E at \in goes : pc' = On(at) \/ \E way : pc' = [On(at) EXCEPT !.way = way]
  <2>1. Same(train')
    BY <1>3 DEF Same, TaskInv, TrainRecords
  <2>2. pc'.at \in goes /\ pc'.by = pc.by
    BY <1>3 DEF On, TaskInv, PlaceRecords
  <2>3. Between(pc) => Between(pc')
    BY <1>1, <2>2 DEF Between, Lost
  <2> QED BY <1>1, <2>1, <2>2, <2>3, GoesOnAttended
<1> QED BY <1>1, <1>2, <1>3

(* A train that departs sends for its courier; one that is refused goes on as it was. *)
LEMMA DepartAttended ==
  ASSUME TaskInv, AheadInv, Depart
  PROVE  AheadInv'
<1> DEFINE t == [train EXCEPT !.ring = SubSeq(@, Len(Behind) + 1, Len(@))]
<1>1. PICK at \in {Place("hung", "none", 0), On("waiting"), Place("corrupt", "none", 0)},
           u \in {t, SetSpeed(t, pc.arg)} : LetGo(Behind, u, at)
  BY DEF Depart
<1>2. at.at \in Lost \cup {"waiting"}
  BY <1>1, OnIs DEF TaskInv, Place, Ats, Lost
<1>3. Same(t) /\ pc.arg \in 0 .. TopSpeed + 1
  BY DEF TaskInv, PlaceRecords, TrainRecords, Same
<1>4. t \in TrainRecords
  <2> DEFINE n == Before(train.ring, {Dest(train.edge)})
  <2>1. train \in TrainRecords /\ train.ring \in Seq(Nodes) /\ n \in 0 .. Len(train.ring)
    BY NodesOf, BeforeIs DEF TaskInv
  <2>2. Len(Behind) = n /\ SubSeq(train.ring, n + 1, Len(train.ring)) \in Seq(Nodes)
    BY <2>1, SplitOf DEF Behind
  <2> HIDE DEF n
  <2> QED BY <2>1, <2>2 DEF TrainRecords
<1> HIDE DEF t
<1>5. Rolls(u)
  BY <1>1, <1>3, <1>4, SameRolls, SetSpeedRolls
<1>6. CASE train' = u /\ pc' = at
  <2>1. Between(pc') /\ pc'.at # "turning"
    BY <1>2, <1>6 DEF Between, Lost
  <2> QED BY <1>5, <1>6, <2>1, StaysAttended
<1>7. CASE train' = train /\ pc'.at = "panic"
  BY <1>7, LostAttended DEF Lost
<1> QED BY <1>1, <1>6, <1>7, LetGoEither

LEMMA UndoAttended ==
  ASSUME TaskInv, AheadInv, Undo
  PROVE  AheadInv'
<1> DEFINE t == [train EXCEPT !.ring = Undone(train.ring),
                              !.result = IF pc.by = "goto" THEN "GOTO_REROUTE" ELSE @]
<1>1. /\ pc.at = "refused" /\ pc.by \in {"speed", "goto"} /\ courier' = courier
      /\ \E row : LetGo(row, t, IDLE)
  BY DEF Undo, waiting
<1>2. Same(t)
  BY DEF Same, TaskInv, TrainRecords
<1> HIDE DEF t
<1>3. ~Between(pc) /\ IDLE.at # "turning"
  BY <1>1, IdleIs DEF Between, Lost
<1> QED BY <1>1, <1>2, <1>3, LetGoAttended

LEMMA CrossAttended ==
  ASSUME TaskInv, AheadInv, Cross
  PROVE  AheadInv'
<1> DEFINE p == PassPath(train, <<Dest(train.edge)>>)
<1>1. PICK held \in BOOLEAN :
        LET t == [p EXCEPT !.edge = NextEdge(Dest(train.edge)), !.ring = IF held THEN Tail(@) ELSE @]
        IN (Panic /\ UNCHANGED train) \/ \E row : LetGo(row, t, pc)
  BY DEF Cross
<1>2. pc.at = "moving" /\ courier' = courier
  BY DEF Cross, waiting
<1> DEFINE t == [p EXCEPT !.edge = NextEdge(Dest(train.edge)), !.ring = IF held THEN Tail(@) ELSE @]
<1>3. Same(t)
  <2>1. p \in TrainRecords
    <3>1. <<Dest(train.edge)>> \in Seq(Nodes) /\ train \in TrainRecords
      BY NodesOf DEF TaskInv
    <3> HIDE DEF p
    <3> QED BY <3>1, PassPathKept DEF p
  <2>2. Same(p)
    BY PassPathRolls DEF TaskInv, Same
  <2> HIDE DEF p
  <2> QED BY <2>1, <2>2 DEF TrainRecords, Same
<1>4. (Panic /\ UNCHANGED train) \/ \E row : LetGo(row, t, pc)
  BY <1>1
<1> HIDE DEF t
<1>5. CASE Panic /\ UNCHANGED train
  BY <1>5, IdleIs, LostAttended DEF Panic, Lost
<1>6. CASE \E row : LetGo(row, t, pc)
  BY <1>2, <1>3, <1>6, LetGoAttended
<1> QED BY <1>4, <1>5, <1>6

LEMMA UpdateAttended ==
  ASSUME TaskInv, AheadInv, NEW by, Update(by)
  PROVE  AheadInv'
<1>1. /\ pc.at = "idle" /\ courier' = courier /\ pc'.at \in {"moving", "still"}
      /\ \/ train' = [train EXCEPT !.motion = IF train.speed > 0 THEN "CONST_SP" ELSE "STOP"]
         \/ UNCHANGED train
  BY DEF Update, AtRest, Place, waiting
<1>2. Rolls(train') /\ train'.speed = train.speed /\ train'.next = train.next
  BY <1>1 DEF TaskInv, TrainRecords, AheadInv, Attended, Rolls, Moving
<1>3. ~Between(pc)
  BY <1>1 DEF Between, Lost
<1> QED BY <1>1, <1>2, <1>3, StaysAttended

LEMMA LocatedAttended ==
  ASSUME TaskInv, AheadInv, ~Between(pc), courier' = courier, Located(train, pc.by)
  PROVE  AheadInv'
<1> DEFINE lost(t) == SetSpeed([t EXCEPT !.result = "GOTO_LOST"], 0)
<1>1. PICK t \in {train, Arrived(train)} :
        \/ train' = t /\ pc' = IF pc.by = "timer" THEN Place("replying", pc.by, 0) ELSE IDLE
        \/ /\ Dest(t.edge) = t.next
           /\ train' = lost(t) \/ Trip(t, "missed")
  BY DEF Located
<1>2. train \in TrainRecords /\ Rolls(train)
  BY DEF TaskInv, AheadInv, Attended
<1>3. /\ Arrived(train) \in TrainRecords /\ Rolls(Arrived(train)) /\ Arrived(train).speed = 0
  <2> DEFINE u == [train EXCEPT !.path = NULL, !.result = "GOTO_COMPLETE"]
  <2>1. u \in TrainRecords /\ Rolls(u)
    BY <1>2 DEF TrainRecords, Results, Rings, Rolls, Moving
  <2>2. Arrived(train) = SetSpeed(u, 0)
    BY DEF Arrived
  <2> HIDE DEF u
  <2> QED BY <2>1, <2>2, Speeds, SetSpeedKept, SetSpeedRolls
<1>4. t \in TrainRecords /\ Rolls(t) /\ (t = train \/ t.speed = 0)
  BY <1>1, <1>2, <1>3
<1>5. CASE train' = t /\ pc' = IF pc.by = "timer" THEN Place("replying", pc.by, 0) ELSE IDLE
  <2>1. pc'.at # "turning"
    BY <1>5, IdleIs DEF Place
  <2> QED BY <1>4, <1>5, <2>1, StaysAttended
<1>6. CASE train' = lost(t)
  <2> DEFINE u == [t EXCEPT !.result = "GOTO_LOST"]
  <2>1. u \in TrainRecords /\ Rolls(u)
    BY <1>4 DEF TrainRecords, Results, Rolls, Moving
  <2>2. lost(t) = SetSpeed(u, 0)
    OBVIOUS
  <2> HIDE DEF u, lost
  <2> QED BY <1>6, <2>1, <2>2, Speeds, SetSpeedRolls, StandsAttended
<1>7. CASE Dest(t.edge) = t.next /\ Trip(t, "missed")
  <2>1. t.next # NULL
    BY <1>4, <1>7, NodesOf, TrackAssumption
  <2> QED BY <1>4, <1>7, <2>1, TripAttended
<1> QED BY <1>1, <1>5, <1>6, <1>7

LEMMA MovedAttended ==
  ASSUME TaskInv, AheadInv, Moved \/ ShortMoved \/ Replying
  PROVE  AheadInv'
<1>1. pc.at \in {"moving", "still", "located", "replying"} /\ courier' = courier
  BY DEF Moved, ShortMoved, Replying, waiting
<1>2. ~Between(pc)
  BY <1>1 DEF Between, Lost
<1>3. IDLE.at = "idle" /\ On("replying").at = "replying"
  BY IdleIs, OnIs DEF TaskInv, Ats
<1>4. ASSUME NEW t, Same(t), t \in TrainRecords, NEW at \in {IDLE, On("replying")}, LetGoOffEdge(t, at)
      PROVE  AheadInv'
  <2> DEFINE u == [t EXCEPT !.ring = SubSeq(@, OnEdge(t)[1], OnEdge(t)[2])]
  <2>1. \E row : LetGo(row, u, at)
    BY <1>4 DEF LetGoOffEdge
  <2>2. Same(u)
    BY <1>4 DEF Same, TrainRecords
  <2>3. at.at # "turning"
    BY <1>3, <1>4
  <2> HIDE DEF u
  <2> QED BY <1>1, <1>2, <2>1, <2>2, <2>3, LetGoAttended
<1>5. \A result \in Results :
        [train EXCEPT !.result = result] \in TrainRecords /\ Same([train EXCEPT !.result = result])
  BY DEF TaskInv, TrainRecords, Same
<1>6. ASSUME NEW result \in Results, train' = [train EXCEPT !.result = result], pc' = IDLE
      PROVE  AheadInv'
  BY <1>1, <1>2, <1>3, <1>5, <1>6, GoesOnAttended
<1>7. CASE Moved
  <2>1. CASE LetGoOffEdge(train, IF pc.by = "timer" THEN On("replying") ELSE IDLE)
    <3>1. Same(train) /\ train \in TrainRecords
      BY DEF Same, TaskInv
    <3> QED BY <1>4, <2>1, <3>1
  <2>2. CASE UNCHANGED train /\ \E want : pc' = Asking(pc.by, 0, want, train.ring)
    <3>1. pc'.at = "asking" /\ Same(train')
      BY <2>2 DEF Asking, Place, Same
    <3> QED BY <1>1, <1>2, <3>1, GoesOnAttended
  <2>3. CASE Located(train, pc.by)
    BY <1>1, <1>2, <2>3, LocatedAttended
  <2> QED BY <1>7, <2>1, <2>2, <2>3 DEF Moved
<1>8. CASE ShortMoved
  <2>1. \/ train' = [train EXCEPT !.result = "GOTO_LOST"] /\ pc' = IDLE
        \/ LetGoOffEdge([train EXCEPT !.result = "GOTO_COMPLETE"], IDLE)
    BY <1>8 DEF ShortMoved
  <2>2. {"GOTO_LOST", "GOTO_COMPLETE"} \subseteq Results
    BY DEF Results
  <2> QED BY <1>4, <1>5, <1>6, <2>1, <2>2
<1>9. CASE Replying
  <2>1. \E result \in Results : train' = [train EXCEPT !.result = result]
    BY <1>9 DEF Replying, TaskInv, TrainRecords, Results
  <2>2. pc' = IDLE
    BY <1>9 DEF Replying
  <2> QED BY <1>6, <2>1, <2>2
<1> QED BY <1>7, <1>8, <1>9

(* What is asked of it: it is sent on when it is stopped. *)
LEMMA SpeedToAttended ==
  ASSUME TaskInv, AheadInv, pc.at = "idle", fuel.brakes, NEW speed \in 0 .. TopSpeed + 1, SpeedTo(speed)
  PROVE  AheadInv'
<1> DEFINE t == UpdateNext(train)
<1>1. t \in TrainRecords /\ Rolls(t) /\ t.speed \in {train.speed, 0}
  BY UpdateNextKept, UpdateNextRolls DEF TaskInv, AheadInv, Attended
<1>2. train' = SetSpeed(t, 0) \/ (train.speed = 0 /\ train' = t)
  BY DEF SpeedTo, MaySend
<1> HIDE DEF t
<1> QED BY <1>1, <1>2, Speeds, SetSpeedRolls, StandsAttended

LEMMA TurnAttended ==
  ASSUME TaskInv, AheadInv, \/ pc.at = "idle" /\ TurnRound /\ courier' = courier
                            \/ Turn
  PROVE  AheadInv'
<1>1. train \in TrainRecords /\ Rolls(train)
  BY DEF TaskInv, AheadInv, Attended
<1>2. CASE pc.at = "idle" /\ TurnRound /\ courier' = courier
  <2>1. CASE UNCHANGED <<train, pc>>
    BY <1>2, <2>1, GoesOnAttended DEF Same
  <2>2. CASE train.speed = 0 /\ train' = [train EXCEPT !.edge = ReverseEdge(train.edge)]
    <3>1. train'.speed = 0 /\ Rolls(train')
      BY <1>1, <2>2 DEF TrainRecords, Rolls, Moving
    <3> QED BY <3>1, StandsAttended
  <2> QED BY <1>2, <2>1, <2>2 DEF TurnRound
<1>3. CASE Turn /\ pc.at = "turning"
  <2>1. train' = UpdateNext(train) /\ train.speed = 0
    BY <1>3 DEF Turn, AheadInv, Attended
  <2> QED BY <1>1, <2>1, UpdateNextRolls, StandsAttended
<1>4. CASE Turn /\ pc.at = "turned"
  <2> DEFINE n    == Min({1, Len(train.ring)})
             ring == Push(SubSeq(train.ring, n + 1, Len(train.ring)), Dest(train.edge))
             t    == [train EXCEPT !.ring = ring]
  <2>1. courier' = courier /\ ((Panic /\ UNCHANGED train) \/ \E row : LetGo(row, t, IDLE))
    BY <1>4 DEF Turn, waiting
  <2>2. Same(t)
    BY <1>1 DEF TrainRecords, Same
  <2> HIDE DEF t
  <2>3. ~Between(pc) /\ IDLE.at # "turning"
    BY <1>4, IdleIs DEF Between, Lost
  <2>4. CASE Panic /\ UNCHANGED train
    BY <2>4, IdleIs, LostAttended DEF Panic, Lost
  <2> QED BY <2>1, <2>2, <2>3, <2>4, LetGoAttended
<1> QED BY <1>2, <1>3, <1>4 DEF Turn

LEMMA GotoAttended ==
  ASSUME TaskInv, AheadInv, fuel.brakes,
         NEW path \in {NULL} \cup UNION {Walks(n) : n \in {Src(train.edge), Dest(train.edge)}},
         Goto(path)
  PROVE  AheadInv'
<1> DEFINE t == [train EXCEPT !.path = path]
<1>1. train.speed = 0 /\ train' = UpdateNext(t)
  BY DEF Goto, MaySend
<1>2. path \in Rings
  BY NodesOf, WalksAreRows DEF TaskInv, Rings
<1>3. t \in TrainRecords /\ Rolls(t) /\ t.speed = 0
  BY <1>1, <1>2 DEF TaskInv, TrainRecords, AheadInv, Attended, Rolls, Moving
<1> HIDE DEF t
<1> QED BY <1>1, <1>3, UpdateNextRolls, StandsAttended

LEMMA DeleteAttended ==
  ASSUME AheadInv, Delete
  PROVE  AheadInv'
<1>1. CASE train' = NoTrain
  <2>1. Rolls(train') /\ train'.speed = 0
    BY <1>1 DEF NoTrain, NewTrain, Rolls, Moving
  <2> QED BY <2>1, StandsAttended
<1>2. CASE train' = train /\ pc'.at = "panic"
  BY <1>2, LostAttended DEF Lost
<1> QED BY <1>1, <1>2, LetGoEither DEF Delete

LEMMA NextAttended ==
  ASSUME TrainInv, AheadInv, fuel.brakes, [Next]_vars
  PROVE  AheadInv'
<1>0. TaskInv /\ CourierInv
  BY DEF TrainInv
<1>1. CASE UNCHANGED <<train, courier>> /\ pc.at = "idle" /\ pc'.at \in {"idle", "moving", "still"}
  <2>1. ~Between(pc) /\ pc'.at # "turning" /\ Same(train')
    BY <1>1 DEF Between, Lost, Same
  <2> QED BY <1>1, <2>1, GoesOnAttended
<1>2. CASE UNCHANGED <<train, courier, pc>>
  BY <1>2 DEF AheadInv, Attended
<1>3. CASE ReadsStale
  BY <1>3, LostAttended DEF ReadsStale, Lost, Place, allButPc
<1>4. CASE Handler
  BY <1>0, <1>4, WaitOnNextAttended, ReservesAttended, AnsweredAttended, TripDoneAttended, DepartAttended,
     UndoAttended, CrossAttended, MovedAttended, TurnAttended DEF Handler
<1>5. CASE Report
  <2>1. CASE ReverserSends
    <3>1. reverser.speed \in 0 .. TopSpeed + 1 /\ pc.at = "idle" /\ courier' = courier
      BY <1>0, <2>1 DEF TaskInv, RestInv, ReverserSends, AtRest, waiting
    <3> QED BY <1>0, <2>1, <3>1, Speeds, SpeedToAttended, TurnAttended DEF ReverserSends
  <2>2. CASE ShortMoveReports
    <3>1. UNCHANGED <<train, courier>> /\ pc.at = "idle" /\ pc'.at \in {"idle", "moving", "still"}
      BY <2>2 DEF ShortMoveReports, AtRest, waiting, Place
    <3> QED BY <1>1, <3>1
  <2> QED BY <1>0, <1>5, <2>1, <2>2, CourierWaitsAttended, CourierReportsAttended DEF Report
<1>6. CASE Request
  <2>1. CASE \E speed \in 0 .. TopSpeed + 1 : Speed(speed)
    BY <1>0, <2>1, SpeedToAttended DEF Speed, AtRest
  <2>2. CASE Dir
    BY <1>0, <2>2, TurnAttended DEF Dir, AtRest, waiting
  <2>3. CASE Rv \/ Route
    <3>1. UNCHANGED <<train, courier, pc>>
      BY <2>3 DEF Rv, Route, waiting
    <3> QED BY <1>2, <3>1
  <2> QED BY <1>0, <1>6, <2>1, <2>2, <2>3, CreateAttended, DeleteAttended, GotoAttended, UpdateAttended
          DEF Request
<1>7. CASE Other \/ UNCHANGED vars
  <2>1. UNCHANGED taskVars
    BY <1>7 DEF Other, OtherTakes, OtherFrees, OtherSwitches, OtherDismisses, OtherWaits, Poll, vars
  <2> QED BY <1>2, <2>1 DEF taskVars
<1> QED BY <1>0, <1>3, <1>4, <1>5, <1>6, <1>7, UpdateAttended DEF Next, Own

(* Whether the train is sent on only when it stands does not change. *)
FuelOK == fuel \in [requests : Nat, others : Nat, brakes : BOOLEAN]

LEMMA FuelKept ==
  ASSUME FuelOK, [Next]_vars
  PROVE  FuelOK' /\ fuel'.brakes = fuel.brakes
<1>1. CASE UNCHANGED fuel
  BY <1>1 DEF FuelOK
<1>2. CASE fuel.requests > 0 /\ fuel' = [fuel EXCEPT !.requests = @ - 1]
  BY <1>2 DEF FuelOK
<1>3. CASE fuel.others > 0 /\ fuel' = [fuel EXCEPT !.others = @ - 1]
  BY <1>3 DEF FuelOK
<1> QED BY <1>1, <1>2, <1>3 DEF Next, vars

(* A running train that is sent on only when it stands is not deaf; the code asks
   that of nobody (conductor.c:112-116 stops the train for some paths only). *)
THEOREM ListensAheadCorrect == Spec => []ListensAhead
<1> DEFINE IInv == FuelOK /\ (fuel.brakes => AheadInv)
<1>1. Init => IInv
  <2> SUFFICES ASSUME Init PROVE IInv
    OBVIOUS
  <2>1. FuelOK
    BY TrainAssumption DEF Init, FuelOK
  <2>2. AheadInv
    BY DEF Init, AheadInv, Attended, Rolls, Moving, Attends, NoTrain, NewTrain, Place
  <2> QED BY <2>1, <2>2
<1>2. TrainInv /\ IInv /\ [Next]_vars => IInv'
  BY FuelKept, NextAttended
<1>3. IInv => ListensAhead
  BY DEF AheadInv, Attended, Attends, Rolls, Between, Lost, ListensAhead, AtRest
<1> HIDE DEF IInv
<1> QED BY <1>1, <1>2, <1>3, TrainInvariant, PTL DEF Spec
=============================================================================
