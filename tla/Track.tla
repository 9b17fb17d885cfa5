-------------------------------- MODULE Track --------------------------------
(***************************************************************************)
(* The track: a graph whose nodes come in pairs, one for each direction of *)
(* travel over the same place (track_node.h), and the state of the         *)
(* switches (train.c).  Every edge has length one.                         *)
(***************************************************************************)
EXTENDS Integers, Sequences, SequencesExt, Loops

CONSTANTS
  Nodes,    (* the track_nodes                                              *)
  Kind,     (* their type                                                   *)
  Twin,     (* the same place, travelled the other way                      *)
  Straight, (* edge[DIR_AHEAD].dest, or NULL                                *)
  Curved,   (* edge[DIR_CURVED].dest of a branch, or NULL                   *)
  NULL

ASSUME TrackAssumption ==
  /\ NULL \notin Nodes /\ IsFiniteSet(Nodes)
  /\ Kind \in [Nodes -> {"sensor", "branch", "merge", "enter", "exit"}]
  /\ Twin \in [Nodes -> Nodes]
  /\ \A n \in Nodes : Twin[n] # n /\ Twin[Twin[n]] = n
  /\ {Straight, Curved} \subseteq [Nodes -> Nodes \cup {NULL}]
  /\ \A n \in Nodes : /\ Kind[n] = "exit" <=> Straight[n] = NULL
                      /\ Kind[n] = "branch" <=> Curved[n] # NULL

VARIABLE switches  (* the direction each branch is set to *)

Branches == {n \in Nodes : Kind[n] = "branch"}
Sensors  == {n \in Nodes : Kind[n] = "sensor"}
Places(nodes) == nodes \cup {Twin[n] : n \in nodes}

SwitchesOK == switches \in [Branches -> {"straight", "curved"}]

(* Where the first node of a set is in a row, 0 if there is none. *)
FirstIn(row, set) ==
  IF \E i \in DOMAIN row : row[i] \in set
  THEN CHOOSE i \in DOMAIN row : row[i] \in set /\ \A j \in 1 .. i - 1 : row[j] \notin set
  ELSE 0

(* The nodes that may follow n on a path: validNextNode(n, m) is a distance. *)
Ahead(n)  == {Straight[n], Curved[n]} \ {NULL}
Follow(n) == Ahead(n) \cup {Twin[n]}

(* Where getNextEdge(n) leads, as the switches are set. *)
NextNode(n) == IF n \in Branches /\ switches[n] = "curved" THEN Curved[n] ELSE Straight[n]

(* An edge is the pair of its ends. *)
Edges         == {e \in Nodes \X Nodes : e[2] \in Ahead(e[1])}
Src(e)        == e[1]
Dest(e)       == e[2]
ReverseEdge(e) == <<Twin[e[2]], Twin[e[1]]>>
NextEdge(n)   == <<n, NextNode(n)>>

(* Where a train may go, it may go back (track_edge.reverse). *)
ASSUME EdgeAssumption ==
  /\ Edges # {}
  /\ \A e \in Edges : ReverseEdge(e) \in Edges

(* The nodes ahead of n: n itself, then k more as the switches are set, fewer
   if the track ends. *)
Along(n, k) ==
  LET extend == [i \in 1 .. k |-> [row \in Seq(Nodes) |->
        IF NextNode(Last(row)) = NULL THEN row ELSE Append(row, NextNode(Last(row)))]]
  IN Loop(extend, <<n>>, k)

(* trainSwitch() for each branch in a row of nodes that is followed by one of
   its two ways. *)
SwitchesFor(nodes) ==
  [b \in Branches |->
     LET at == {i \in 1 .. Len(nodes) - 1 : nodes[i] = b /\ nodes[i + 1] \in Ahead(b)} IN
     IF at = {} THEN switches[b]
     ELSE IF nodes[Max(at) + 1] = Straight[b] THEN "straight" ELSE "curved"]
=============================================================================
