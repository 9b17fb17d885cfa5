-------------------------- MODULE TrackReservation --------------------------
(***************************************************************************)
(* Who has which part of the track (train/track_reservation.c).  The       *)
(* dispatcher calls these functions for the trains, one at a time.         *)
(***************************************************************************)
EXTENDS Track

CONSTANTS
  Trains,
  NOBODY    (* RESERVED_BY_NOBODY *)

ASSUME OwnerAssumption == NOBODY \notin Trains

VARIABLE owner  (* reservedBy of each node *)

OwnerOK == owner \in [Nodes -> Trains \cup {NOBODY}]

(* cmpAndSwapResvBy: a node and its reverse are both the old owner's, or
   already both the new one's; a mutant that swaps without comparing. *)
MaySwapBlind(n, old, new) == owner[n] \in {old, new} \/ new # NOBODY

MaySwap(n, old, new) == owner[n] = owner[Twin[n]] /\ owner[n] \in {old, new}

(* swapTrackResvBy: how many nodes of a row change hands, up to the first that
   may not. *)
Swappable(row, old, new) ==
  LET stops == {i \in DOMAIN row : ~MaySwap(row[i], old, new)}
  IN IF stops = {} THEN Len(row) ELSE Min(stops) - 1

(* The owners once a row has changed hands; a mutant that forgets the other
   direction. *)
SwappedOneWay(row, new) == [n \in Nodes |-> IF n \in ToSet(row) THEN new ELSE owner[n]]

Swapped(row, new) == [n \in Nodes |-> IF n \in Places(ToSet(row)) THEN new ELSE owner[n]]

(* The nodes reserveTrackDist tries: `dist' is tested after each node and the
   path is continued along the track when it ends. *)
Reach(path, dist) ==
  LET n == Max({dist, 0}) + 1 IN
  IF n <= Len(path) THEN SubSeq(path, 1, n)
  ELSE path \o Tail(Along(Last(path), n - Len(path)))

(* What is left of `dist' after `got' nodes: the edge to the next node is taken
   off before that node is tried. *)
Left(path, dist, got) ==
  IF got = 0 THEN dist ELSE dist - Min({got, Len(Reach(path, dist)) - 1})

(* A node and its reverse are the same piece of track and belong to the same
   train: cmpAndSwapResvBy, the only writer, moves both or none. *)
PairsAgree == \A n \in Nodes : owner[n] = owner[Twin[n]]
=============================================================================
