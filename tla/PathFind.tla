------------------------------ MODULE PathFind ------------------------------
(***************************************************************************)
(* findPath (path.c): Dijkstra's algorithm, on a binary heap, from where a *)
(* train stands, over edges and turns, through nodes no other train has.   *)
(***************************************************************************)
EXTENDS TrackReservation

CONSTANTS TurnCost  (* REVERSE_DIST; an edge costs 1 *)

ASSUME TurnAssumption == TurnCost \in Nat \ {0}

(* The two ways to set out: ahead, or turned round. *)
Starts(e)  == {Dest(e), Twin[Src(e)]}
Cost(m, n) == IF n = Twin[m] THEN TurnCost ELSE 1
Far        == (TurnCost + 1) * Cardinality(Nodes) + 1

Passable(tr, n) == owner[n] \in {NOBODY, tr} /\ Kind[n] # "exit"
-----------------------------------------------------------------------------
(* The heap: a row of nodes, ordered by d, that is filled level by level; and a
   place in it, from which a node moves up or down. *)
Spots == [heap : Seq(Nodes), at : Nat]

Exchange(h, i, j) == [h EXCEPT ![i] = h[j], ![j] = h[i]]

HeapifyUp(heap, d, at) ==
  LET up == [k \in 1 .. at |-> [s \in Spots |->
        LET parent == s.at \div 2 IN
        IF s.at = 1 \/ d[s.heap[parent]] <= d[s.heap[s.at]] THEN s
        ELSE [heap |-> Exchange(s.heap, s.at, parent), at |-> parent]]]
  IN Loop(up, [heap |-> heap, at |-> at], at).heap

(* A mutant that looks at the left child only. *)
LesserLeft(h, d, i) == IF 2 * i <= Len(h) /\ d[h[2 * i]] < d[h[i]] THEN 2 * i ELSE i

Lesser(h, d, i) ==
  LET left == IF 2 * i <= Len(h) /\ d[h[2 * i]] < d[h[i]] THEN 2 * i ELSE i
  IN IF 2 * i + 1 <= Len(h) /\ d[h[2 * i + 1]] < d[h[left]] THEN 2 * i + 1 ELSE left

Heapify(heap, d) ==
  LET down == [k \in DOMAIN heap |-> [s \in Spots |->
        LET child == Lesser(s.heap, d, s.at) IN
        IF child = s.at THEN s ELSE [heap |-> Exchange(s.heap, s.at, child), at |-> child]]]
  IN Loop(down, [heap |-> heap, at |-> 1], Len(heap)).heap

HeapPop(heap, d) == Heapify(SubSeq(Exchange(heap, 1, Len(heap)), 1, Len(heap) - 1), d)

(* The search so far; and addNode: a shorter way to n, by m. *)
Searches == [dist : [Nodes -> Nat], pred : [Nodes -> Nodes \cup {NULL}], heap : Seq(Nodes)]

AddNode(s, m, n) ==
  LET d == [s.dist EXCEPT ![n] = s.dist[m] + Cost(m, n)]
      h == IF n \in ToSet(s.heap) THEN s.heap ELSE Append(s.heap, n)
  IN IF n = NULL \/ d[n] >= s.dist[n] THEN s
     ELSE [dist |-> d, pred |-> [s.pred EXCEPT ![n] = m],
           heap |-> HeapifyUp(h, d, FirstIn(h, {n}))]

(* The search, until the heap is empty or the end is at its top: what a node
   another train has leads to is not looked at. *)
Expand(s, tr, m) ==
  LET t == [s EXCEPT !.heap = HeapPop(@, s.dist)] IN
  IF ~Passable(tr, m) THEN t
  ELSE AddNode(AddNode(AddNode(t, m, Curved[m]), m, Twin[m]), m, Straight[m])

Search(tr, e, end) ==
  LET first == [dist |-> [n \in Nodes |-> IF n \in Starts(e) THEN 0 ELSE Far],
                 pred |-> [n \in Nodes |-> NULL], heap |-> <<Twin[Src(e)], Dest(e)>>]
      round == [k \in Nat |-> [s \in Searches |->
        IF s.heap = <<>> \/ Head(s.heap) = end THEN s ELSE Expand(s, tr, Head(s.heap))]]
  IN Loop(round, first, Cardinality(Nodes))

(* findPath's answer, empty when there is none: from the end back. *)
FindPath(tr, e, end) ==
  LET s    == Search(tr, e, end)
      back == [k \in Nat |-> [path \in Seq(Nodes) |->
        LET before == s.pred[Head(path)] IN IF before = NULL THEN path ELSE <<before>> \o path]]
  IN IF s.dist[end] = Far THEN <<>> ELSE Loop(back, <<end>>, Cardinality(Nodes))
-----------------------------------------------------------------------------
(* What findPath promises (docs/final, "Path Finding"): the way it answers is
   one the train can take, and none is shorter; it has no answer only when
   there is no way.  Reached(tr, e)[c + 1] is where the train can be at cost c. *)
Reached(tr, e) ==
  LET at[c \in 0 .. Far] ==
        IF c = 0 THEN <<Starts(e)>>
        ELSE LET row  == at[c - 1]
                 turn == IF c < TurnCost THEN {} ELSE row[c - TurnCost + 1]
             IN Append(row, Last(row) \cup UNION {Ahead(m) : m \in {x \in Last(row) : Passable(tr, x)}}
                                     \cup {Twin[m] : m \in {x \in turn : Passable(tr, x)}})
  IN at[Far]

CostOf(path) == FoldLeftDomain(LAMBDA c, i : c + Cost(path[i], path[i + 1]), 0, Tail(path))

IsWay(tr, e, end, path) ==
  /\ Head(path) \in Starts(e) /\ Last(path) = end
  /\ \A i \in 1 .. Len(path) - 1 : Passable(tr, path[i]) /\ path[i + 1] \in Follow(path[i])

FindsShortest ==
  \A tr \in Trains, e \in Edges :
    LET reached == Reached(tr, e) IN
    \A end \in Nodes :
      LET path == FindPath(tr, e, end) IN
      IF path = <<>> THEN end \notin Last(reached)
      ELSE IsWay(tr, e, end, path) /\ \A c \in 0 .. CostOf(path) - 1 : end \notin reached[c + 1]
=============================================================================
