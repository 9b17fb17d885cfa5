-------------------------------- MODULE Links --------------------------------
(* Lists that are threaded through their elements, as the code's `next' fields do,
   read as sequences. *)
EXTENDS Integers, Sequences

Elements(s) == {s[i] : i \in 1 .. Len(s)}

(* From a pointer the links meet the elements of s, each once, and end with nil. *)
Linked(next, nil, from, s) ==
  /\ from = IF s = <<>> THEN nil ELSE s[1]
  /\ \A i \in 1 .. Len(s) : next[s[i]] = IF i < Len(s) THEN s[i + 1] ELSE nil
  /\ \A i, j \in 1 .. Len(s) : s[i] = s[j] => i = j

(* The elements met from a pointer, in order, of a list of at most `most'. *)
Followed(D, most, next, nil, from) ==
  CHOOSE s \in UNION {[1 .. n -> D] : n \in 0 .. most} : Linked(next, nil, from, s)
=============================================================================
