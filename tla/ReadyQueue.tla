----------------------------- MODULE ReadyQueue -----------------------------
(***************************************************************************)
(* The scheduler's data of src/src/task.c as one value, and the routines   *)
(* that change it.  Tasks are the slots of the task bank.  Each priority    *)
(* has a singly linked list threaded through the descriptors' `next' field, *)
(* a bit in `availableQueues', and `highestTaskPriority' caches the highest *)
(* bit set.  The same `next' field also threads the wait queues and the     *)
(* bank of free descriptors, which is why the links are kept as pointers.   *)
(***************************************************************************)
EXTENDS Integers

CONSTANTS
  NumSlots,     (* TASK_BANK_SIZE                                *)
  NumPriorities,(* TASK_QUEUE_SIZE                               *)
  NULL          (* the null pointer                              *)

ASSUME SchedulerAssumption ==
  /\ NumSlots \in Nat \ {0}
  /\ NumPriorities \in Nat \ {0}
  /\ NULL \notin Int

Slots == 0 .. NumSlots - 1

Priorities == 0 .. NumPriorities - 1

SlotPtr == Slots \cup {NULL}

(* TaskState_t; no routine ever assigns ZOMBIE. *)
TaskState ==
  {"READY", "ACTIVE", "FREE", "SEND_BL", "RECV_BL", "REPL_BL", "EVENT_BL", "WAITTID_BL"}

Scheduler ==
  [state : [Slots -> TaskState], prio : [Slots -> Priorities],
   next : [Slots -> SlotPtr],
   head : [Priorities -> SlotPtr], tail : [Priorities -> SlotPtr],
   avail : SUBSET Priorities, highest : Priorities \cup {-1}]

(* initTasks: every descriptor FREE and chained into the bank, empty queues. *)
InitialScheduler ==
  [state |-> [t \in Slots |-> "FREE"], prio |-> [t \in Slots |-> 0],
   next |-> [t \in Slots |-> IF t < NumSlots - 1 THEN t + 1 ELSE NULL],
   head |-> [p \in Priorities |-> NULL], tail |-> [p \in Priorities |-> NULL],
   avail |-> {}, highest |-> -1]

(* What findHighestTaskPriority leaves in highestTaskPriority: the highest
   bit set, -1 if there is none (PrioritySearch follows the search itself). *)
HighestOf(avail) ==
  IF avail = {} THEN -1 ELSE CHOOSE p \in avail : \A q \in avail : q <= p

(* highestTaskPriority when a task of priority p is queued; a mutant that sets
   it for the first task only. *)
FirstRaise(highest, p) == IF highest = -1 THEN p ELSE highest

Raise(highest, p) == IF p > highest THEN p ELSE highest

(* availableQueues when queue p has become empty; a mutant that forgets it. *)
KeepBit(avail, p) == avail

ClearBit(avail, p) == avail \ {p}

(* Mutant of addTask: the task goes to the front of its queue. *)
PushTask(q, t) ==
  LET p == q.prio[t]
  IN  [q EXCEPT !.head[p]  = t,
                !.next[t]  = q.head[p],
                !.state[t] = "READY",
                !.tail[p]  = IF @ = NULL THEN t ELSE @,
                !.avail    = @ \cup {p},
                !.highest  = Raise(@, p)]

(* addTask: append t to the queue of its priority.  Nothing is checked: if t
   was linked somewhere already, that list now ends at t. *)
AddTask(q, t) ==
  LET p      == q.prio[t]
      linked == IF q.tail[p] = NULL THEN q.next ELSE [q.next EXCEPT ![q.tail[p]] = t]
  IN  [state   |-> [q.state EXCEPT ![t] = "READY"],
       prio    |-> q.prio,
       next    |-> [linked EXCEPT ![t] = NULL],
       head    |-> [q.head EXCEPT ![p] = IF @ = NULL THEN t ELSE @],
       tail    |-> [q.tail EXCEPT ![p] = t],
       avail   |-> q.avail \cup {p},
       highest |-> Raise(q.highest, p)]

(* The tasks a walk along `next' from a pointer meets: the smallest set that
   has the first of them and, with every task, the next one. *)
ListFrom(q, from) ==
  LET closed == {S \in SUBSET Slots :
                   /\ from = NULL \/ from \in S
                   /\ \A t \in S : q.next[t] = NULL \/ q.next[t] \in S}
  IN  {t \in Slots : \A S \in closed : t \in S}

(* Such a walk comes to an end. *)
Ends(q, from) == from = NULL \/ \E t \in ListFrom(q, from) : q.next[t] = NULL

(* The part of destroyTaskD that takes a READY task off its queue.  It walks
   the queue for t and then uses what it found: CanUnlink says that it finds
   t and that the bit it may subtract from availableQueues is set. *)
CanUnlink(q, t) ==
  /\ t \in ListFrom(q, q.head[q.prio[t]])
  /\ q.prio[t] \in q.avail

(* Mutant: the tail of the queue is forgotten. *)
UnlinkKeepingTail(q, t) ==
  LET p     == q.prio[t]
      prevs == {u \in ListFrom(q, q.head[p]) : q.next[u] = t}
      prev  == IF q.head[p] = t THEN NULL ELSE CHOOSE u \in Slots : u \in prevs
      head  == IF prev = NULL THEN q.next[t] ELSE q.head[p]
      avail == IF head = NULL THEN ClearBit(q.avail, p) ELSE q.avail
  IN  [q EXCEPT !.next    = IF prev = NULL THEN @ ELSE [@ EXCEPT ![prev] = q.next[t]],
                !.head[p] = head,
                !.avail   = avail,
                !.highest = IF head = NULL /\ p = @ THEN HighestOf(avail) ELSE @]

Unlink(q, t) ==
  LET p     == q.prio[t]
      prevs == {u \in ListFrom(q, q.head[p]) : q.next[u] = t}
      prev  == IF q.head[p] = t THEN NULL ELSE CHOOSE u \in Slots : u \in prevs
      head  == IF prev = NULL THEN q.next[t] ELSE q.head[p]
      avail == IF head = NULL THEN ClearBit(q.avail, p) ELSE q.avail
  IN  [state   |-> q.state,
       prio    |-> q.prio,
       next    |-> IF prev = NULL THEN q.next ELSE [q.next EXCEPT ![prev] = q.next[t]],
       head    |-> [q.head EXCEPT ![p] = head],
       tail    |-> [q.tail EXCEPT ![p] = IF @ = t THEN prev ELSE @],
       avail   |-> avail,
       highest |-> IF head = NULL /\ p = q.highest THEN HighestOf(avail) ELSE q.highest]

(* The end of schedule(): take the first task of the highest queue.
   CanDispatch says that there is one, and that the bit subtracted from
   availableQueues when it was the last is set. *)
First(q) == q.head[q.highest]

CanDispatch(q) ==
  /\ First(q) # NULL
  /\ First(q) = q.tail[q.highest] => q.prio[First(q)] \in q.avail

Dispatch(q) ==
  LET p     == q.highest
      t     == First(q)
      last  == t = q.tail[p]
      avail == IF last THEN ClearBit(q.avail, q.prio[t]) ELSE q.avail
  IN  [state   |-> [q.state EXCEPT ![t] = "ACTIVE"],
       prio    |-> q.prio,
       next    |-> [q.next EXCEPT ![t] = NULL],
       head    |-> [q.head EXCEPT ![p] = q.next[t]],
       tail    |-> [q.tail EXCEPT ![p] = IF last THEN NULL ELSE @],
       avail   |-> avail,
       highest |-> IF last THEN HighestOf(avail) ELSE q.highest]

=============================================================================
