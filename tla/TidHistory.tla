----------------------------- MODULE TidHistory -----------------------------
(***************************************************************************)
(* The kernel with a memory of the tids it has given away.  A descriptor   *)
(* is recognized by the tid that is in it now, which destroyTaskD moves on *)
(* when a task ends (task.c:203), and which couriers, parents and servers  *)
(* may still hold and use long after that.  The memory follows the kernel  *)
(* and never tells it what to do.                                          *)
(***************************************************************************)
EXTENDS Kernel, Sequences

VARIABLE
  past  (* the tids that each descriptor's earlier tasks had, first come first,
           since its tids last began again *)

(* A task is gone when its descriptor is free.  A tid has as many values for a
   descriptor as there are Generations: with one more task they begin again. *)
Over(t) == State(t) # "FREE" /\ State(t)' = "FREE"

Remember ==
  past' = [t \in Slots |->
             IF ~Over(t) THEN past[t]
             ELSE IF Len(past[t]) = Generations - 1 THEN <<>> ELSE Append(past[t], tid[t])]

HistoryInit == Init /\ past = [t \in Slots |-> <<>>]
HistoryNext == Next /\ Remember

HistorySpec == HistoryInit /\ [][HistoryNext]_<<vars, past>>

(* kernel_main never stops by itself and a running task always traps in the
   end, at the latest on the next clock tick. *)
FairHistorySpec == HistorySpec /\ WF_<<vars, past>>(HistoryNext)
-----------------------------------------------------------------------------
(* "No such task" is what a stale tid must find (getTaskByTid): while the tids of
   a descriptor have not begun again, none that an earlier task of it had leads
   to a later one, in whatever state it is, nor does the next task's tid before
   that task is made; and a living task is found by its own. *)
TidsFindTheirTask ==
  \A t \in Slots :
    /\ TaskOf(tid[t]) = IF State(t) = "FREE" THEN NULL ELSE t
    /\ \A i \in DOMAIN past[t] : TaskOf(past[t][i]) = NULL
=============================================================================
