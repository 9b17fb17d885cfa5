-------------------------------- MODULE Loops --------------------------------
(* A loop of the code as a function of what it starts from: its body gives, for
   the number of a round, what that round makes of what was made before. *)
EXTENDS Integers

Loop(body, start, rounds) ==
  LET after[k \in 0 .. rounds] == IF k = 0 THEN start ELSE body[k][after[k - 1]]
  IN after[rounds]
=============================================================================
