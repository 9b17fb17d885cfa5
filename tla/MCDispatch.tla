----------------------------- MODULE MCDispatch -----------------------------
(* A small instance of the dispatcher and its clients for TLC. *)
EXTENDS Conductor

(* Five tids for the tasks of a kind that are for the same train. *)
MCPool ==
  [p \in Kinds \X Numbers |->
     LET first == 100 * p[2] + (CASE p[1] = "train" -> 10 [] p[1] = "creator" -> 20 [] OTHER -> 30)
     IN first .. first + 4]

MCClients == Tids \cup {Courier}
-----------------------------------------------------------------------------
(* A yard for findPath: a circle with two ways round one half of it and a way out.
   One of the trains has none of it, or one place. *)
YardNodes   == 0 .. 15
YardSensors == 2 .. 7 \cup {10, 11}
YardTwin    == [n \in YardNodes |-> IF n % 2 = 0 THEN n + 1 ELSE n - 1]
YardKind == [n \in YardNodes |->
  CASE n \in YardSensors -> "sensor" [] n \in {0, 9, 12} -> "branch" [] n \in {1, 8, 13} -> "merge"
    [] n = 14 -> "exit" [] n = 15 -> "enter"]
YardStraight == [n \in YardNodes |->
  CASE n \in {0, 2, 8, 10} -> n + 2 [] n \in {4, 6} -> 8 [] n = 12 -> 0 [] n \in {5, 3, 13, 11} -> n - 2
    [] n = 9 -> 5 [] n = 7 -> 1 [] n \in {1, 15} -> 13 [] OTHER -> NOTASK]
YardCurved == [n \in YardNodes |-> CASE n = 0 -> 6 [] n = 9 -> 7 [] n = 12 -> 14 [] OTHER -> NOTASK]

Yard(taken) == INSTANCE PathFind WITH
  Nodes <- YardNodes, Twin <- YardTwin, Kind <- YardKind, Straight <- YardStraight,
  Curved <- YardCurved, NULL <- NOTASK, Trains <- Numbers, NOBODY <- NOTASK, TurnCost <- 2,
  switches <- <<>>, owner <- [n \in YardNodes |-> IF n \in taken THEN Min(Numbers) ELSE NOTASK]

(* What findPath answers the conductors that plan, looked at once, in the
   beginning: for every place of a train and
   every end in the yard there is an answer when there is a way, and it is the
   shortest ("using the heap version of Dijkstra's", docs/final/final.tex:214). *)
PathsShortest ==
  fuel = Commands =>
    /\ Yard({})!FindsShortest
    /\ \A n \in YardNodes : Yard({n, YardTwin[n]})!FindsShortest
=============================================================================
