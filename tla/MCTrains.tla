------------------------------ MODULE MCTrains ------------------------------
(* A line with a branch: from an end of the track by a sensor, the branch and
   a sensor on each of its two ways to another end. *)
EXTENDS TrainTask

MCNodes   == 0 .. 5 \cup 10 .. 17
MCSensors == 0 .. 5
MCTwin    == [n \in MCNodes |-> IF n % 2 = 0 THEN n + 1 ELSE n - 1]
MCKind == [n \in MCNodes |->
  CASE n \in MCSensors -> "sensor" [] n = 12 -> "branch" [] n = 13 -> "merge"
    [] n \in {10, 15, 17} -> "enter" [] n \in {11, 14, 16} -> "exit"]
MCStraight == [n \in MCNodes |->
  CASE n = 10 -> 0 [] n = 0 -> 12 [] n = 12 -> 2 [] n = 2 -> 14 [] n = 4 -> 16
    [] n = 15 -> 3 [] n = 3 -> 13 [] n = 17 -> 5 [] n = 5 -> 13 [] n = 13 -> 1 [] n = 1 -> 11 [] OTHER -> NULL]
MCCurved == [n \in MCNodes |-> IF n = 12 THEN 4 ELSE NULL]
=============================================================================
