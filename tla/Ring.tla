-------------------------------- MODULE Ring --------------------------------
(***************************************************************************)
(* The circular buffers of util.h, as the sequence of what they hold.  A   *)
(* write that does not fit stops the machine.                              *)
(***************************************************************************)
EXTENDS Integers, Sequences

VARIABLE panicked  (* Panic() was called: nothing runs any more *)

(* The test on `remaining'; a mutant one too large. *)
FitsTight(ring, n, capacity) == Len(ring) + n <= capacity + 1

Fits(ring, n, capacity) == Len(ring) + n <= capacity

(* Reads up to n elements: what is read, and what stays. *)
Least(a, b) == IF a < b THEN a ELSE b
ReadOf(ring, n) == SubSeq(ring, 1, Least(n, Len(ring)))
RestOf(ring, n) == SubSeq(ring, Least(n, Len(ring)) + 1, Len(ring))

=============================================================================
