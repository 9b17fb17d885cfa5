---------------------------- MODULE KernelProofs ----------------------------
(* Theorems about Kernel, for every number of descriptors, priorities,
   envelopes, memory blocks and events, and every choice of client habits. *)
EXTENDS TidHistory, Facts

(* The scheduler's operations.  HighestOf finds the highest bit of any non-empty
   availableQueues. *)
LEMMA HighestOfMax ==
  ASSUME NEW avail \in SUBSET Priorities, avail # {}
  PROVE  /\ HighestOf(avail) \in avail
         /\ \A q \in avail : q <= HighestOf(avail)
<1> DEFINE T == {NumPriorities - p : p \in avail}
<1>1. T \in SUBSET Nat /\ T # {}
  <2>1. \A p \in Priorities : NumPriorities - p \in Nat
    BY SchedulerAssumption DEF Priorities
  <2> QED BY <2>1
<1>2. PICK n \in T : \A m \in T : n <= m
  BY <1>1, LeastNatural
<1>3. PICK p \in avail : n = NumPriorities - p
  BY <1>2
<1>4. \A q \in avail : q <= p
  <2> TAKE q \in avail
  <2>1. NumPriorities - p <= NumPriorities - q
    BY <1>2, <1>3
  <2> QED BY <2>1, SchedulerAssumption DEF Priorities
<1> QED BY <1>4 DEF HighestOf

LEMMA HighestOfType ==
  ASSUME NEW avail \in SUBSET Priorities
  PROVE  HighestOf(avail) \in Priorities \cup {-1}
<1>1. CASE avail = {}
  BY <1>1 DEF HighestOf
<1>2. CASE avail # {}
  BY <1>2, HighestOfMax
<1> QED BY <1>1, <1>2

(* The cached maximum of addTask is the maximum. *)
LEMMA RaiseHighest ==
  ASSUME NEW avail \in SUBSET Priorities, NEW p \in Priorities
  PROVE  Raise(HighestOf(avail), p) = HighestOf(avail \cup {p})
<1> DEFINE more == avail \cup {p}
<1>1. more \in SUBSET Priorities /\ more # {}
  OBVIOUS
<1>2. HighestOf(more) \in more /\ \A q \in more : q <= HighestOf(more)
  BY <1>1, HighestOfMax
<1>3. CASE avail = {}
  <2>1. HighestOf(avail) = -1
    BY <1>3 DEF HighestOf
  <2>2. HighestOf(more) = p
    BY <1>2, <1>3
  <2> QED BY <2>1, <2>2, SchedulerAssumption DEF Raise, Priorities
<1>4. CASE avail # {}
  <2>1. HighestOf(avail) \in avail /\ \A q \in avail : q <= HighestOf(avail)
    BY <1>4, HighestOfMax
  <2> HIDE DEF more
  <2>2. HighestOf(avail) \in Int /\ HighestOf(more) \in Int /\ p \in Int
    <3>1. Priorities \subseteq Int
      BY SchedulerAssumption DEF Priorities
    <3> QED BY <1>1, <1>2, <2>1, <3>1
  <2>3. CASE p > HighestOf(avail)
    <3>1. p <= HighestOf(more)
      BY <1>2 DEF more
    <3>2. HighestOf(more) <= p
      BY <1>2, <2>1, <2>2, <2>3 DEF more
    <3> QED BY <2>2, <2>3, <3>1, <3>2 DEF Raise, more
  <2>4. CASE ~(p > HighestOf(avail))
    <3>1. HighestOf(avail) <= HighestOf(more)
      BY <1>2, <2>1 DEF more
    <3>2. HighestOf(more) <= HighestOf(avail)
      BY <1>2, <2>1, <2>2, <2>4 DEF more
    <3> QED BY <2>2, <2>4, <3>1, <3>2 DEF Raise, more
  <2> QED BY <2>3, <2>4
<1> QED BY <1>3, <1>4

(* The scheduler's record keeps its type through each operation. *)
LEMMA InitialSchedulerType == InitialScheduler \in Scheduler
<1>1. 0 \in Priorities
  BY SchedulerAssumption DEF Priorities
<1>2. \A t \in Slots : t < NumSlots - 1 => t + 1 \in Slots
  BY SchedulerAssumption DEF Slots
<1> QED BY <1>1, <1>2 DEF InitialScheduler, Scheduler, TaskState, SlotPtr

LEMMA AddTaskType ==
  ASSUME NEW q \in Scheduler, NEW t \in Slots
  PROVE  AddTask(q, t) \in Scheduler
<1>1. q.prio[t] \in Priorities
  BY DEF Scheduler
<1>2. Raise(q.highest, q.prio[t]) \in Priorities \cup {-1}
  BY <1>1 DEF Raise, Scheduler
<1> QED BY <1>1, <1>2 DEF AddTask, Scheduler, SlotPtr, TaskState

(* A walk from a task meets that task, and with every task its successor. *)
LEMMA ListFromClosed ==
  ASSUME NEW q \in Scheduler, NEW from \in SlotPtr
  PROVE  /\ from # NULL => from \in ListFrom(q, from)
         /\ \A t \in ListFrom(q, from) :
              q.next[t] # NULL => q.next[t] \in ListFrom(q, from)
BY DEF ListFrom, SlotPtr, Scheduler

(* It meets nothing else: whatever has the first task and, with every task,
   the next one, has all of them. *)
LEMMA ListFromLeast ==
  ASSUME NEW q \in Scheduler, NEW from \in SlotPtr, NEW S \in SUBSET Slots,
         from # NULL => from \in S,
         \A t \in S : q.next[t] # NULL => q.next[t] \in S
  PROVE  ListFrom(q, from) \subseteq S
BY DEF ListFrom

(* Every task a walk meets but the first has a predecessor on the walk: what
   destroyTaskD's search relies on. *)
LEMMA Predecessor ==
  ASSUME NEW q \in Scheduler, NEW from \in SlotPtr,
         NEW t \in ListFrom(q, from), t # from
  PROVE  \E u \in ListFrom(q, from) : q.next[u] = t
<1> SUFFICES ASSUME \A u \in ListFrom(q, from) : q.next[u] # t
             PROVE  FALSE
  OBVIOUS
<1> DEFINE S == ListFrom(q, from) \ {t}
<1>1. S \in SUBSET Slots
  BY DEF ListFrom
<1>2. from # NULL => from \in S
  BY ListFromClosed
<1>3. \A u \in S : q.next[u] # NULL => q.next[u] \in S
  BY ListFromClosed
<1>4. ListFrom(q, from) \subseteq S
  <2> HIDE DEF S
  <2> QED BY <1>1, <1>2, <1>3, ListFromLeast
<1> QED BY <1>4

LEMMA UnlinkType ==
  ASSUME NEW q \in Scheduler, NEW t \in Slots, CanUnlink(q, t)
  PROVE  Unlink(q, t) \in Scheduler
<1> DEFINE p     == q.prio[t]
           prevs == {u \in ListFrom(q, q.head[p]) : q.next[u] = t}
           prev  == IF q.head[p] = t THEN NULL ELSE CHOOSE u \in Slots : u \in prevs
           head  == IF prev = NULL THEN q.next[t] ELSE q.head[p]
           avail == IF head = NULL THEN ClearBit(q.avail, p) ELSE q.avail
<1>1. p \in Priorities /\ q.head[p] \in SlotPtr /\ q.next[t] \in SlotPtr
  BY DEF Scheduler
<1>2. prev \in SlotPtr
  <2>1. CASE q.head[p] = t
    BY <2>1 DEF SlotPtr
  <2>2. CASE q.head[p] # t
    <3>1. t \in ListFrom(q, q.head[p])
      BY DEF CanUnlink
    <3>2. \E u \in ListFrom(q, q.head[p]) : q.next[u] = t
      BY <1>1, <2>2, <3>1, Predecessor
    <3>3. \E u \in Slots : u \in prevs
      BY <3>2 DEF ListFrom
    <3> QED BY <2>2, <3>3 DEF SlotPtr
  <2> QED BY <2>1, <2>2
<1>3. head \in SlotPtr
  BY <1>1
<1>4. avail \in SUBSET Priorities /\ HighestOf(avail) \in Priorities \cup {-1}
  <2>1. avail \in SUBSET Priorities
    BY DEF ClearBit, Scheduler
  <2> HIDE DEF avail
  <2> QED BY <2>1, HighestOfType
<1>5. Unlink(q, t) =
        [state   |-> q.state,
         prio    |-> q.prio,
         next    |-> IF prev = NULL THEN q.next ELSE [q.next EXCEPT ![prev] = q.next[t]],
         head    |-> [q.head EXCEPT ![p] = head],
         tail    |-> [q.tail EXCEPT ![p] = IF @ = t THEN prev ELSE @],
         avail   |-> avail,
         highest |-> IF head = NULL /\ p = q.highest THEN HighestOf(avail) ELSE q.highest]
  BY DEF Unlink
<1> HIDE DEF p, prevs, prev, head, avail
<1>6. (IF prev = NULL THEN q.next ELSE [q.next EXCEPT ![prev] = q.next[t]])
        \in [Slots -> SlotPtr]
  BY <1>1, <1>2 DEF Scheduler
<1>7. /\ [q.head EXCEPT ![p] = head] \in [Priorities -> SlotPtr]
      /\ [q.tail EXCEPT ![p] = IF @ = t THEN prev ELSE @] \in [Priorities -> SlotPtr]
  BY <1>1, <1>2, <1>3 DEF Scheduler
<1> QED BY <1>4, <1>5, <1>6, <1>7 DEF Scheduler

LEMMA DispatchType ==
  ASSUME NEW q \in Scheduler, q.highest # -1, CanDispatch(q)
  PROVE  Dispatch(q) \in Scheduler /\ First(q) \in Slots
<1>1. q.highest \in Priorities
  BY DEF Scheduler
<1>2. First(q) \in Slots
  BY <1>1 DEF CanDispatch, First, Scheduler, SlotPtr
<1> DEFINE t     == First(q)
           last  == t = q.tail[q.highest]
           avail == IF last THEN ClearBit(q.avail, q.prio[t]) ELSE q.avail
<1>3. avail \in SUBSET Priorities /\ HighestOf(avail) \in Priorities \cup {-1}
  <2>1. avail \in SUBSET Priorities
    BY DEF ClearBit, Scheduler
  <2> HIDE DEF avail
  <2> QED BY <2>1, HighestOfType
<1>4. Dispatch(q) =
        [state   |-> [q.state EXCEPT ![t] = "ACTIVE"],
         prio    |-> q.prio,
         next    |-> [q.next EXCEPT ![t] = NULL],
         head    |-> [q.head EXCEPT ![q.highest] = q.next[t]],
         tail    |-> [q.tail EXCEPT ![q.highest] = IF last THEN NULL ELSE @],
         avail   |-> avail,
         highest |-> IF last THEN HighestOf(avail) ELSE q.highest]
  BY DEF Dispatch
<1>5. t \in Slots
  BY <1>2
<1> HIDE DEF t, last, avail
<1>6. Dispatch(q) \in Scheduler
  BY <1>1, <1>3, <1>4, <1>5 DEF Scheduler, SlotPtr, TaskState
<1> QED BY <1>2, <1>6
-----------------------------------------------------------------------------
(* The ready queues, and what is kept of them beside the lists. *)
ReadyAt(q, p) == {t \in Slots : q.state[t] = "READY" /\ q.prio[t] = p}

QueuedAt(q, p) ==
  IsQueue(Slots, q.next, NULL, q.head[p], q.tail[p], ReadyAt(q, p))

Queued(q) ==
  /\ \A p \in Priorities : QueuedAt(q, p)
  /\ q.avail = {p \in Priorities : ReadyAt(q, p) # {}}
  /\ q.highest = HighestOf(q.avail)

LEMMA NoNull == NULL \notin Slots
BY SchedulerAssumption DEF Slots

LEMMA ListFromMet ==
  ASSUME NEW q, NEW from
  PROVE  ListFrom(q, from) = Met(Slots, q.next, NULL, from)
BY DEF ListFrom, Met

LEMMA QueuedFacts ==
  ASSUME NEW q, Queued(q), NEW p \in Priorities
  PROVE  /\ ReadyAt(q, p) \subseteq Slots
         /\ q.head[p] \in SlotPtr /\ q.tail[p] \in SlotPtr
         /\ (q.head[p] = NULL <=> ReadyAt(q, p) = {}) /\ (q.tail[p] = NULL <=> ReadyAt(q, p) = {})
         /\ q.head[p] # NULL => q.head[p] \in ReadyAt(q, p)
         /\ q.tail[p] # NULL => q.tail[p] \in ReadyAt(q, p) /\ q.next[q.tail[p]] = NULL
         /\ ListFrom(q, q.head[p]) = ReadyAt(q, p)
         /\ Ends(q, q.head[p])
<1> DEFINE S == ReadyAt(q, p)
<1>1. IsQueue(Slots, q.next, NULL, q.head[p], q.tail[p], S)
  BY DEF Queued, QueuedAt
<1> HIDE DEF S
<1>2. /\ IsList(Slots, q.next, NULL, q.head[p], S)
      /\ q.tail[p] \in Slots \cup {NULL} /\ (q.tail[p] = NULL <=> S = {})
      /\ q.tail[p] # NULL => q.tail[p] \in S /\ q.next[q.tail[p]] = NULL
  BY <1>1, NoNull, QueueFacts
<1>3. /\ S \subseteq Slots /\ q.head[p] \in Slots \cup {NULL} /\ (q.head[p] = NULL <=> S = {})
      /\ q.head[p] # NULL => q.head[p] \in S
      /\ Met(Slots, q.next, NULL, q.head[p]) = S
      /\ q.head[p] = NULL \/ \E x \in S : q.next[x] = NULL
  BY <1>2, NoNull, ListFacts
<1> QED BY <1>2, <1>3, ListFromMet DEF S, SlotPtr, Ends

(* What leaves the READY tasks as they are leaves the queues as they are. *)
SameQueues(q, r) ==
  /\ r.head = q.head /\ r.tail = q.tail /\ r.avail = q.avail /\ r.highest = q.highest
  /\ \A t \in Slots : r.state[t] = "READY" <=> q.state[t] = "READY"
  /\ \A t \in Slots : q.state[t] = "READY" => r.prio[t] = q.prio[t] /\ r.next[t] = q.next[t]

LEMMA QueuedKeeps ==
  ASSUME NEW q, NEW r, Queued(q), SameQueues(q, r)
  PROVE  Queued(r)
<1> USE DEF SameQueues
<1>1. \A p : ReadyAt(r, p) = ReadyAt(q, p)
  BY DEF ReadyAt
<1>2. ASSUME NEW p \in Priorities PROVE QueuedAt(r, p)
  <2> DEFINE S == ReadyAt(q, p)
  <2>1. \A x \in S : r.next[x] = q.next[x]
    BY DEF ReadyAt
  <2>2. IsQueue(Slots, q.next, NULL, q.head[p], q.tail[p], S)
    BY DEF Queued, QueuedAt
  <2> HIDE DEF S
  <2>3. IsQueue(Slots, r.next, NULL, q.head[p], q.tail[p], S)
    BY <2>1, <2>2, QueueKeeps
  <2> QED BY <1>1, <2>3 DEF QueuedAt, S
<1> QED BY <1>1, <1>2 DEF Queued

LEMMA QueuedAdd ==
  ASSUME NEW q \in Scheduler, Queued(q), NEW t \in Slots, q.state[t] # "READY"
  PROVE  Queued(AddTask(q, t))
<1> DEFINE p == q.prio[t]
           r == AddTask(q, t)
<1>1. p \in Priorities
  BY DEF Scheduler
<1>2. /\ q.tail[p] \in SlotPtr /\ (q.tail[p] # NULL => q.tail[p] \in ReadyAt(q, p))
      /\ \A o \in Priorities : q.tail[o] # NULL => q.tail[o] \in ReadyAt(q, o)
  BY <1>1, QueuedFacts
<1>3. /\ r.state = [q.state EXCEPT ![t] = "READY"] /\ r.prio = q.prio
      /\ r.next = [(IF q.tail[p] = NULL THEN q.next ELSE [q.next EXCEPT ![q.tail[p]] = t])
                     EXCEPT ![t] = NULL]
      /\ r.head = [q.head EXCEPT ![p] = IF @ = NULL THEN t ELSE @]
      /\ r.tail = [q.tail EXCEPT ![p] = t]
      /\ r.avail = q.avail \cup {p} /\ r.highest = Raise(q.highest, p)
  BY DEF AddTask
<1>4. /\ q.state \in [Slots -> TaskState] /\ q.next \in [Slots -> SlotPtr]
      /\ q.head \in [Priorities -> SlotPtr] /\ q.tail \in [Priorities -> SlotPtr]
      /\ q.prio \in [Slots -> Priorities]
  BY DEF Scheduler
<1> HIDE DEF p, r
<1>5. /\ r.next[t] = NULL
      /\ q.tail[p] # NULL => r.next[q.tail[p]] = t
      /\ \A x \in Slots : x # t /\ x # q.tail[p] => r.next[x] = q.next[x]
  <2>1. q.tail[p] # NULL => q.tail[p] \in Slots /\ q.tail[p] # t
    BY <1>2 DEF ReadyAt
  <2> QED BY <1>3, <1>4, <2>1
<1>6. /\ ReadyAt(r, p) = ReadyAt(q, p) \cup {t}
      /\ \A o \in Priorities : o # p => ReadyAt(r, o) = ReadyAt(q, o)
  BY <1>3, <1>4 DEF ReadyAt, p
<1>7. QueuedAt(r, p)
  <2> DEFINE S == ReadyAt(q, p)
             head2 == IF q.head[p] = NULL THEN t ELSE q.head[p]
  <2>1. IsQueue(Slots, q.next, NULL, q.head[p], q.tail[p], S)
    BY <1>1 DEF Queued, QueuedAt
  <2>2. t \notin S /\ S \subseteq Slots
    BY DEF ReadyAt
  <2>3. \A x \in S \ {q.tail[p]} : r.next[x] = q.next[x]
    BY <1>5, <2>2
  <2> HIDE DEF S
  <2>4. IsQueue(Slots, r.next, NULL, head2, t, S \cup {t})
    <3> DEFINE old == q.next
               new == r.next
               first == q.head[p]
               last == q.tail[p]
    <3>1. head2 = IF first = NULL THEN t ELSE first
      OBVIOUS
    <3>2. IsQueue(Slots, old, NULL, first, last, S)
      BY <2>1
    <3>3. new[t] = NULL /\ (last # NULL => new[last] = t) /\ \A x \in S \ {last} : new[x] = old[x]
      BY <1>5, <2>3
    <3> HIDE DEF head2, old, new, first, last
    <3>4. Appends(Slots, old, new, NULL, first, head2, last, S, t)
      BY <2>2, <3>1, <3>2, <3>3, NoNull DEF Appends
    <3> QED BY <3>4, QueueAppend DEF new
  <2>5. r.head[p] = head2 /\ r.tail[p] = t
    BY <1>1, <1>3, <1>4
  <2> HIDE DEF head2
  <2> QED BY <1>6, <2>4, <2>5 DEF QueuedAt, S
<1>8. ASSUME NEW o \in Priorities, o # p PROVE QueuedAt(r, o)
  <2> DEFINE S == ReadyAt(q, o)
  <2>1. IsQueue(Slots, q.next, NULL, q.head[o], q.tail[o], S)
    BY DEF Queued, QueuedAt
  <2>2. \A x \in S : r.next[x] = q.next[x]
    <3>1. q.tail[p] # NULL => q.prio[q.tail[p]] = p
      BY <1>2 DEF ReadyAt
    <3>2. q.tail[p] \notin S
      <4>1. q.tail[p] # NULL => q.tail[p] \notin S
        BY <1>8, <3>1 DEF ReadyAt
      <4>2. S \subseteq Slots
        BY DEF ReadyAt
      <4> QED BY <4>1, <4>2, NoNull
    <3>3. t \notin S /\ S \subseteq Slots
      BY DEF ReadyAt
    <3> HIDE DEF S
    <3> QED BY <1>5, <3>2, <3>3
  <2> HIDE DEF S
  <2>3. IsQueue(Slots, r.next, NULL, q.head[o], q.tail[o], S)
    BY <2>1, <2>2, QueueKeeps
  <2>4. r.head[o] = q.head[o] /\ r.tail[o] = q.tail[o]
    BY <1>3, <1>4, <1>8
  <2> QED BY <1>6, <1>8, <2>3, <2>4 DEF QueuedAt, S
<1>9. r.avail = {o \in Priorities : ReadyAt(r, o) # {}}
  <2>1. q.avail = {o \in Priorities : ReadyAt(q, o) # {}}
    BY DEF Queued
  <2>2. r.avail = q.avail \cup {p} /\ ReadyAt(r, p) # {}
    BY <1>3, <1>6
  <2> QED BY <1>1, <1>6, <2>1, <2>2
<1>10. r.highest = HighestOf(r.avail)
  <2>1. q.avail \in SUBSET Priorities /\ q.highest = HighestOf(q.avail)
    BY DEF Scheduler, Queued
  <2> QED BY <1>1, <1>3, <2>1, RaiseHighest
<1> QED BY <1>7, <1>8, <1>9, <1>10 DEF Queued, r

(* What schedule() takes: the first task of the highest queue. *)
LEMMA HighestQueue ==
  ASSUME NEW q \in Scheduler, Queued(q), q.highest # -1
  PROVE  /\ q.highest \in Priorities /\ First(q) \in ReadyAt(q, q.highest)
         /\ CanDispatch(q)
         /\ \A t \in Slots : q.state[t] = "READY" => q.prio[t] <= q.highest
<1>1. q.avail # {} /\ q.avail \in SUBSET Priorities /\ q.highest = HighestOf(q.avail)
  BY DEF Queued, HighestOf, Scheduler
<1>2. q.highest \in q.avail /\ \A p \in q.avail : p <= q.highest
  BY <1>1, HighestOfMax
<1>3. q.avail = {p \in Priorities : ReadyAt(q, p) # {}}
  BY DEF Queued
<1>4. First(q) # NULL /\ First(q) \in ReadyAt(q, q.highest)
  BY <1>2, <1>3, QueuedFacts DEF First
<1>5. q.prio[First(q)] = q.highest
  BY <1>4 DEF ReadyAt
<1>6. \A t \in Slots : q.state[t] = "READY" => q.prio[t] \in q.avail
  BY <1>3 DEF ReadyAt, Scheduler
<1> QED BY <1>1, <1>2, <1>4, <1>5, <1>6 DEF CanDispatch

LEMMA NoneReady ==
  ASSUME NEW q \in Scheduler, Queued(q), q.highest = -1
  PROVE  \A t \in Slots : q.state[t] # "READY"
<1>1. q.avail = {}
  <2> SUFFICES ASSUME q.avail # {} PROVE FALSE
    OBVIOUS
  <2>1. q.avail \in SUBSET Priorities /\ q.highest = HighestOf(q.avail)
    BY DEF Queued, Scheduler
  <2>2. q.highest \in Priorities
    BY <2>1, HighestOfMax
  <2> QED BY <2>2, SchedulerAssumption DEF Priorities
<1> QED BY <1>1 DEF Queued, ReadyAt, Scheduler

(* The highest bit stays when another is cleared. *)
LEMMA HighestWithout ==
  ASSUME NEW avail \in SUBSET Priorities, NEW p \in avail, p # HighestOf(avail)
  PROVE  HighestOf(avail \ {p}) = HighestOf(avail)
<1> DEFINE less == avail \ {p}
           m == HighestOf(avail)
           n == HighestOf(less)
<1>1. m \in avail /\ \A q \in avail : q <= m
  BY HighestOfMax
<1>2. less \in SUBSET Priorities /\ m \in less
  BY <1>1
<1> HIDE DEF less, m, n
<1>3. n \in less /\ \A q \in less : q <= n
  BY <1>2, HighestOfMax DEF n
<1>4. n <= m /\ m <= n
  BY <1>1, <1>2, <1>3 DEF less
<1>5. n \in Int /\ m \in Int
  BY <1>2, <1>3, SchedulerAssumption DEF Priorities
<1>6. n = m
  BY <1>4, <1>5
<1> QED BY <1>6 DEF n, m, less

(* A queue without one of its tasks, when the others' links and states are as they
   were: what destroyTaskD and schedule() leave of the queues. *)
Less(q, r, t, p) ==
  /\ q.state[t] = "READY" /\ q.prio[t] = p /\ r.state[t] # "READY"
  /\ \A x \in Slots \ {t} :
       (r.state[x] = "READY" <=> q.state[x] = "READY") /\ r.prio[x] = q.prio[x]
  /\ IsQueue(Slots, r.next, NULL, r.head[p], r.tail[p], ReadyAt(q, p) \ {t})
  /\ \A o \in Priorities \ {p} : r.head[o] = q.head[o] /\ r.tail[o] = q.tail[o]
  /\ \A x \in Slots : q.prio[x] # p /\ q.state[x] = "READY" => r.next[x] = q.next[x]
  /\ r.avail = IF ReadyAt(q, p) = {t} THEN q.avail \ {p} ELSE q.avail
  /\ r.highest = HighestOf(r.avail)

LEMMA QueuedLess ==
  ASSUME NEW q \in Scheduler, Queued(q), NEW r, NEW t \in Slots, NEW p, Less(q, r, t, p)
  PROVE  Queued(r)
<1> USE DEF Less
<1>1. p \in Priorities /\ t \in ReadyAt(q, p)
  BY DEF Scheduler, ReadyAt
<1>2. ReadyAt(r, p) = ReadyAt(q, p) \ {t}
  BY DEF ReadyAt
<1>3. \A o \in Priorities : o # p => ReadyAt(r, o) = ReadyAt(q, o)
  BY DEF ReadyAt
<1>4. QueuedAt(r, p)
  BY <1>2 DEF QueuedAt
<1>5. ASSUME NEW o \in Priorities, o # p PROVE QueuedAt(r, o)
  <2> DEFINE S == ReadyAt(q, o)
  <2>1. IsQueue(Slots, q.next, NULL, q.head[o], q.tail[o], S)
    BY DEF Queued, QueuedAt
  <2>2. \A x \in S : r.next[x] = q.next[x]
    BY <1>5 DEF ReadyAt
  <2>3. r.head[o] = q.head[o] /\ r.tail[o] = q.tail[o]
    BY <1>5
  <2> HIDE DEF S
  <2>4. IsQueue(Slots, r.next, NULL, q.head[o], q.tail[o], S)
    BY <2>1, <2>2, QueueKeeps
  <2> QED BY <1>3, <1>5, <2>3, <2>4 DEF QueuedAt, S
<1>6. r.avail = {o \in Priorities : ReadyAt(r, o) # {}}
  <2>1. q.avail = {o \in Priorities : ReadyAt(q, o) # {}}
    BY DEF Queued
  <2>2. ReadyAt(q, p) = {t} <=> ReadyAt(r, p) = {}
    BY <1>1, <1>2
  <2> QED BY <1>1, <1>3, <2>1, <2>2
<1> QED BY <1>4, <1>5, <1>6 DEF Queued

LEMMA QueuedDispatch ==
  ASSUME NEW q \in Scheduler, Queued(q), q.highest # -1
  PROVE  Queued(Dispatch(q))
<1> DEFINE p == q.highest
           t == First(q)
           r == Dispatch(q)
           S == ReadyAt(q, p)
<1>1. p \in Priorities /\ t \in S /\ CanDispatch(q) /\ t \in Slots /\ q.prio[t] = p
      /\ q.state[t] = "READY"
  BY HighestQueue DEF ReadyAt
<1>2. r \in Scheduler
  BY <1>1, DispatchType
<1>3. /\ r.state = [q.state EXCEPT ![t] = "ACTIVE"] /\ r.prio = q.prio
      /\ r.next = [q.next EXCEPT ![t] = NULL]
      /\ r.head = [q.head EXCEPT ![p] = q.next[t]]
      /\ r.tail = [q.tail EXCEPT ![p] = IF t = @ THEN NULL ELSE @]
      /\ r.avail = IF t = q.tail[p] THEN q.avail \ {p} ELSE q.avail
      /\ r.highest = IF t = q.tail[p] THEN HighestOf(r.avail) ELSE q.highest
  BY <1>1 DEF Dispatch, ClearBit
<1>4. t = q.head[p] /\ IsQueue(Slots, q.next, NULL, q.head[p], q.tail[p], S)
  BY <1>1 DEF First, Queued, QueuedAt
<1>5. /\ q.state \in [Slots -> TaskState] /\ q.next \in [Slots -> SlotPtr]
      /\ q.head \in [Priorities -> SlotPtr] /\ q.tail \in [Priorities -> SlotPtr]
      /\ q.highest = HighestOf(q.avail)
  BY DEF Scheduler, Queued
<1>6. S \subseteq Slots
  BY DEF ReadyAt
<1> HIDE DEF t, r, S, p
<1>7. /\ IsQueue(Slots, r.next, NULL, r.head[p], r.tail[p], S \ {t})
      /\ t = q.tail[p] <=> S = {t}
  <2> DEFINE old == q.next
             new == r.next
             last == q.tail[p]
             last2 == IF t = last THEN NULL ELSE last
  <2>1. IsQueue(Slots, old, NULL, t, last, S)
    BY <1>4
  <2>2. \A x \in S \ {t} : new[x] = old[x]
    BY <1>3, <1>5, <1>6
  <2>3. t # NULL /\ last2 = IF t = last THEN NULL ELSE last
    BY <1>1, NoNull
  <2>4. r.head[p] = old[t] /\ r.tail[p] = last2
    BY <1>1, <1>3, <1>5
  <2> HIDE DEF old, new, last, last2
  <2>5. Popped(Slots, old, new, NULL, t, last, last2, S)
    BY <2>1, <2>2, <2>3, NoNull DEF Popped
  <2>6. IsQueue(Slots, new, NULL, old[t], last2, S \ {t})
    BY <2>5, QueuePop
  <2>7. S \ {t} = {} <=> last2 = NULL
    BY <2>6, NoNull, QueueFacts
  <2>8. t \in S /\ (last2 = NULL <=> t = last)
    BY <1>1, <2>1, NoNull, QueueFacts DEF last2
  <2> QED BY <2>4, <2>6, <2>7, <2>8 DEF new, last
<1>8. /\ r.state[t] # "READY"
      /\ \A x \in Slots \ {t} : (r.state[x] = "READY" <=> q.state[x] = "READY")
                                /\ r.prio[x] = q.prio[x]
      /\ \A x \in Slots : q.prio[x] # p /\ q.state[x] = "READY" => r.next[x] = q.next[x]
  BY <1>1, <1>3, <1>5
<1>9. \A o \in Priorities \ {p} : r.head[o] = q.head[o] /\ r.tail[o] = q.tail[o]
  BY <1>3, <1>5
<1>10. /\ r.avail = IF S = {t} THEN q.avail \ {p} ELSE q.avail
       /\ r.highest = HighestOf(r.avail)
  BY <1>3, <1>5, <1>7
<1>11. Less(q, r, t, p)
  BY <1>1, <1>7, <1>8, <1>9, <1>10 DEF Less, S
<1> QED BY <1>1, <1>11, QueuedLess DEF r

(* The descriptor of a destroyed task, whatever its lists. *)
Cleared(q, t) == [q EXCEPT !.state[t] = "FREE", !.prio[t] = 0]

LEMMA ClearedFields ==
  ASSUME NEW q \in Scheduler, NEW t \in Slots, NEW r, r = Cleared(q, t)
  PROVE  /\ r \in Scheduler
         /\ r.state = [q.state EXCEPT ![t] = "FREE"] /\ r.prio = [q.prio EXCEPT ![t] = 0]
         /\ r.next = q.next /\ r.head = q.head /\ r.tail = q.tail
         /\ r.avail = q.avail /\ r.highest = q.highest
<1>1. "FREE" \in TaskState /\ 0 \in Priorities
  BY SchedulerAssumption DEF TaskState, Priorities
<1>2. r = [q EXCEPT !.state[t] = "FREE", !.prio[t] = 0]
  BY DEF Cleared
<1>3. /\ r.state = [q.state EXCEPT ![t] = "FREE"] /\ r.prio = [q.prio EXCEPT ![t] = 0]
      /\ r.next = q.next /\ r.head = q.head /\ r.tail = q.tail
      /\ r.avail = q.avail /\ r.highest = q.highest
  BY <1>2 DEF Scheduler
<1>4. r.state \in [Slots -> TaskState] /\ r.prio \in [Slots -> Priorities]
  BY <1>1, <1>3 DEF Scheduler
<1>5. r \in Scheduler
  <2>1. r = [state |-> r.state, prio |-> r.prio, next |-> q.next, head |-> q.head,
             tail |-> q.tail, avail |-> q.avail, highest |-> q.highest]
    BY <1>2, <1>3 DEF Scheduler
  <2>2. /\ q.next \in [Slots -> SlotPtr] /\ q.head \in [Priorities -> SlotPtr]
        /\ q.tail \in [Priorities -> SlotPtr] /\ q.avail \in SUBSET Priorities
        /\ q.highest \in Priorities \cup {-1}
    BY DEF Scheduler
  <2> QED BY <1>4, <2>1, <2>2 DEF Scheduler
<1> QED BY <1>3, <1>5

(* destroyTaskD finds a READY task on its queue, and takes it off. *)
LEMMA QueuedUnlink ==
  ASSUME NEW q \in Scheduler, Queued(q), NEW t \in Slots, q.state[t] = "READY",
         NEW r, r = Cleared(Unlink(q, t), t)
  PROVE  /\ CanUnlink(q, t) /\ r \in Scheduler /\ Queued(r)
         /\ r.state = [q.state EXCEPT ![t] = "FREE"]
         /\ \A u \in Slots : q.state[u] # "READY" => r.next[u] = q.next[u]
<1> DEFINE p == q.prio[t]
           S == ReadyAt(q, p)
           prevs == {u \in ListFrom(q, q.head[p]) : q.next[u] = t}
           prev  == IF q.head[p] = t THEN NULL ELSE CHOOSE u \in Slots : u \in prevs
           head  == IF prev = NULL THEN q.next[t] ELSE q.head[p]
           avail == IF head = NULL THEN ClearBit(q.avail, p) ELSE q.avail
<1>1. p \in Priorities /\ t \in S /\ S \subseteq Slots
  BY DEF Scheduler, ReadyAt
<1>2. ListFrom(q, q.head[p]) = S /\ q.head[p] \in SlotPtr
  BY <1>1, QueuedFacts
<1>3. q.avail = {o \in Priorities : ReadyAt(q, o) # {}} /\ q.highest = HighestOf(q.avail)
  BY DEF Queued
<1>4. CanUnlink(q, t)
  BY <1>1, <1>2, <1>3 DEF CanUnlink
<1>5. /\ q.head[p] = t => prev = NULL
      /\ q.head[p] # t => prev \in S /\ q.next[prev] = t
  <2> SUFFICES ASSUME q.head[p] # t PROVE prev \in S /\ q.next[prev] = t
    OBVIOUS
  <2>1. \E u \in ListFrom(q, q.head[p]) : q.next[u] = t
    BY <1>1, <1>2, Predecessor
  <2>2. \E u \in Slots : u \in prevs
    BY <1>1, <1>2, <2>1
  <2>3. prev \in prevs
    BY <2>2
  <2> QED BY <1>2, <2>3
<1> DEFINE w == Unlink(q, t)
<1>6. /\ w \in Scheduler
      /\ w.state = q.state /\ w.prio = q.prio
      /\ w.next = IF prev = NULL THEN q.next ELSE [q.next EXCEPT ![prev] = q.next[t]]
      /\ w.head = [q.head EXCEPT ![p] = head]
      /\ w.tail = [q.tail EXCEPT ![p] = IF @ = t THEN prev ELSE @]
      /\ w.avail = avail
      /\ w.highest = IF head = NULL /\ p = q.highest THEN HighestOf(avail) ELSE q.highest
  BY <1>4, UnlinkType DEF Unlink
<1> HIDE DEF w
<1>7. /\ r \in Scheduler
      /\ r.state = [q.state EXCEPT ![t] = "FREE"] /\ r.prio = [q.prio EXCEPT ![t] = 0]
      /\ r.next = w.next /\ r.head = w.head /\ r.tail = w.tail
      /\ r.avail = w.avail /\ r.highest = w.highest
  <2>1. r = Cleared(w, t) /\ w \in Scheduler
    BY <1>6 DEF w
  <2>2. /\ r \in Scheduler
        /\ r.state = [w.state EXCEPT ![t] = "FREE"] /\ r.prio = [w.prio EXCEPT ![t] = 0]
        /\ r.next = w.next /\ r.head = w.head /\ r.tail = w.tail
        /\ r.avail = w.avail /\ r.highest = w.highest
    BY <2>1, ClearedFields
  <2> QED BY <1>6, <2>2
<1>8. /\ q.state \in [Slots -> TaskState] /\ q.next \in [Slots -> SlotPtr]
      /\ q.head \in [Priorities -> SlotPtr] /\ q.tail \in [Priorities -> SlotPtr]
      /\ q.prio \in [Slots -> Priorities] /\ q.avail \in SUBSET Priorities
  BY DEF Scheduler
<1> HIDE DEF prevs, prev, S
<1>9. prev # NULL => prev \in S
  BY <1>5
<1>10. prev # NULL => \A x \in Slots : q.prio[x] # p => x # prev
  BY <1>9 DEF S, ReadyAt
<1>11. IsQueue(Slots, r.next, NULL, r.head[p], r.tail[p], S \ {t})
  <2> DEFINE old == q.next
             new == r.next
             first == q.head[p]
             last == q.tail[p]
             last2 == IF last = t THEN prev ELSE last
  <2>1. IsQueue(Slots, old, NULL, first, last, S)
    BY <1>1 DEF Queued, QueuedAt, S
  <2>2. (first = t => prev = NULL) /\ (first # t => prev \in S /\ old[prev] = t)
    BY <1>5
  <2>3. (prev # NULL => new[prev] = old[t]) /\ \A x \in S \ {prev} : new[x] = old[x]
    BY <1>1, <1>6, <1>7, <1>8, <1>9
  <2>4. head = (IF prev = NULL THEN old[t] ELSE first) /\ last2 = IF last = t THEN prev ELSE last
    OBVIOUS
  <2>5. r.head[p] = head /\ r.tail[p] = last2
    BY <1>1, <1>6, <1>7, <1>8
  <2> HIDE DEF old, new, first, last, last2, head
  <2>6. Removed(Slots, old, new, NULL, first, head, last, last2, S, t, prev)
    BY <1>1, <2>1, <2>2, <2>3, <2>4, NoNull DEF Removed
  <2>7. IsQueue(Slots, new, NULL, head, last2, S \ {t})
    BY <2>6, QueueRemove
  <2> QED BY <2>5, <2>7 DEF new
<1>12. /\ r.state[t] # "READY"
       /\ \A x \in Slots \ {t} : (r.state[x] = "READY" <=> q.state[x] = "READY")
                                 /\ r.prio[x] = q.prio[x]
  BY <1>7, <1>8
<1>13. \A x \in Slots : q.prio[x] # p /\ q.state[x] = "READY" => r.next[x] = q.next[x]
  BY <1>6, <1>7, <1>8, <1>10
<1>14. \A o \in Priorities \ {p} : r.head[o] = q.head[o] /\ r.tail[o] = q.tail[o]
  BY <1>6, <1>7, <1>8
<1>15. head = NULL <=> S = {t}
  <2>1. r.head[p] = head
    BY <1>1, <1>6, <1>7, <1>8
  <2>2. r.head[p] = NULL <=> S \ {t} = {}
    BY <1>11, NoNull, QueueFacts, ListFacts
  <2> QED BY <1>1, <2>1, <2>2
<1>16. r.avail = IF S = {t} THEN q.avail \ {p} ELSE q.avail
  BY <1>6, <1>7, <1>15 DEF ClearBit
<1>17. r.highest = HighestOf(r.avail)
  <2>1. CASE head = NULL /\ p = q.highest
    BY <1>6, <1>7, <2>1
  <2>2. CASE head # NULL
    BY <1>3, <1>6, <1>7, <2>2
  <2>3. CASE head = NULL /\ p # q.highest
    <3>1. r.avail = q.avail \ {p} /\ r.highest = q.highest
      BY <1>6, <1>7, <2>3 DEF ClearBit
    <3>2. p \in q.avail
      BY <1>1, <1>3 DEF S
    <3>3. p # HighestOf(q.avail) /\ q.avail \in SUBSET Priorities
      BY <1>3, <1>8, <2>3
    <3>4. HighestOf(q.avail \ {p}) = HighestOf(q.avail)
      BY <3>2, <3>3, HighestWithout
    <3> QED BY <1>3, <3>1, <3>4
  <2> QED BY <2>1, <2>2, <2>3
<1> HIDE DEF p
<1>18. Queued(r)
  <2>1. p = q.prio[t]
    BY DEF p
  <2>2. Less(q, r, t, p)
    BY <1>11, <1>12, <1>13, <1>14, <1>16, <1>17, <2>1 DEF Less, S
  <2> QED BY <2>2, QueuedLess
<1>19. ASSUME NEW u \in Slots, q.state[u] # "READY" PROVE r.next[u] = q.next[u]
  <2>1. prev # NULL => u # prev
    BY <1>9, <1>19 DEF S, ReadyAt
  <2> QED BY <1>6, <1>7, <1>8, <2>1
<1> QED BY <1>4, <1>7, <1>18, <1>19
-----------------------------------------------------------------------------
(* What addTask, schedule() and the calls that block change of the task in question,
   and what they leave: of the others, only links of READY tasks. *)
Moved(q, r, t, s) ==
  /\ r \in Scheduler /\ Queued(r)
  /\ r.state = [q.state EXCEPT ![t] = s] /\ r.prio = q.prio
  /\ \A u \in Slots : u # t /\ q.state[u] # "READY" => r.next[u] = q.next[u]

LEMMA AddTaskMoves ==
  ASSUME NEW q \in Scheduler, Queued(q), NEW t \in Slots, q.state[t] # "READY"
  PROVE  Moved(q, AddTask(q, t), t, "READY")
<1> DEFINE last == q.tail[q.prio[t]]
           r == AddTask(q, t)
<1>1. last # NULL => last \in Slots /\ q.state[last] = "READY"
  BY QueuedFacts DEF Scheduler, ReadyAt
<1>2. r.next = [(IF last = NULL THEN q.next ELSE [q.next EXCEPT ![last] = t]) EXCEPT ![t] = NULL]
  BY DEF AddTask
<1>3. q.next \in [Slots -> SlotPtr]
  BY DEF Scheduler
<1>4. r.state = [q.state EXCEPT ![t] = "READY"] /\ r.prio = q.prio
  BY DEF AddTask
<1> HIDE DEF last, r
<1>5. \A u \in Slots : u # t /\ q.state[u] # "READY" => r.next[u] = q.next[u]
  BY <1>1, <1>2, <1>3
<1>6. r \in Scheduler /\ Queued(r)
  BY AddTaskType, QueuedAdd DEF r
<1> QED BY <1>4, <1>5, <1>6 DEF Moved, r

LEMMA DispatchMoves ==
  ASSUME NEW q \in Scheduler, Queued(q), q.highest # -1
  PROVE  /\ Moved(q, Dispatch(q), First(q), "ACTIVE")
         /\ First(q) \in Slots /\ q.state[First(q)] = "READY" /\ CanDispatch(q)
         /\ \A u \in Slots : q.state[u] = "READY" => q.prio[u] <= q.prio[First(q)]
<1> DEFINE r == Dispatch(q)
<1>1. /\ First(q) \in ReadyAt(q, q.highest) /\ CanDispatch(q)
      /\ \A u \in Slots : q.state[u] = "READY" => q.prio[u] <= q.highest
      /\ q.highest \in Priorities
  BY HighestQueue
<1>2. First(q) \in Slots /\ q.state[First(q)] = "READY" /\ q.prio[First(q)] = q.highest
  BY <1>1 DEF ReadyAt
<1>3. /\ r.state = [q.state EXCEPT ![First(q)] = "ACTIVE"] /\ r.prio = q.prio
      /\ r.next = [q.next EXCEPT ![First(q)] = NULL]
  BY DEF Dispatch
<1>4. r \in Scheduler /\ Queued(r)
  BY <1>1, DispatchType, QueuedDispatch
<1> HIDE DEF r
<1>5. \A u \in Slots : u # First(q) => r.next[u] = q.next[u]
  BY <1>3 DEF Scheduler
<1>6. Moved(q, r, First(q), "ACTIVE")
  BY <1>3, <1>4, <1>5 DEF Moved
<1> QED BY <1>1, <1>2, <1>6 DEF r

LEMMA StateMoves ==
  ASSUME NEW q \in Scheduler, Queued(q), NEW t \in Slots, q.state[t] # "READY",
         NEW s \in TaskState, s # "READY"
  PROVE  /\ Moved(q, [q EXCEPT !.state[t] = s], t, s)
         /\ [q EXCEPT !.state[t] = s].next = q.next
<1> DEFINE r == [q EXCEPT !.state[t] = s]
<1>1. /\ r \in Scheduler /\ r.state = [q.state EXCEPT ![t] = s]
      /\ r.prio = q.prio /\ r.next = q.next
      /\ r.head = q.head /\ r.tail = q.tail /\ r.avail = q.avail /\ r.highest = q.highest
  BY DEF Scheduler
<1> HIDE DEF r
<1>2. \A u \in Slots : r.state[u] = "READY" <=> q.state[u] = "READY"
  BY <1>1 DEF Scheduler
<1>3. SameQueues(q, r)
  BY <1>1, <1>2 DEF SameQueues
<1>4. Moved(q, r, t, s)
  BY <1>1, <1>3, QueuedKeeps DEF Moved
<1> QED BY <1>1, <1>4 DEF r
-----------------------------------------------------------------------------
USE SchedulerAssumption, KernelAssumption

(* What the type invariant rests on: a task is running whenever one can make a
   call, and a destruction in progress has a victim. *)
TypeInv ==
  /\ TypeOK
  /\ pc = "user" => current \in Slots
  /\ pc = "drain" => victim \in Slots
-----------------------------------------------------------------------------
LEMMA BootType ==
  ASSUME NEW q \in Scheduler, NEW t \in Slots, NEW p \in 0 .. NumPriorities
  PROVE  Boot(q, t, p) \in Scheduler
<1> DEFINE capped == IF p >= NumPriorities THEN NumPriorities - 1 ELSE p
           r == [q EXCEPT !.prio[t] = capped]
<1>1. capped \in Priorities
  BY DEF Priorities
<1>2. r \in Scheduler
  <2> HIDE DEF capped
  <2> QED BY <1>1 DEF Scheduler
<1> HIDE DEF r
<1>3. AddTask(r, t) \in Scheduler
  BY <1>2, AddTaskType
<1> QED BY <1>3 DEF Boot, r

LEMMA BlockType ==
  ASSUME NEW q \in Scheduler, NEW s \in TaskState
  PROVE  Block(q, s) \in Scheduler
BY DEF Block, Scheduler

(* The envelope operations keep the mail's type. *)
LEMMA GetEnvelopeType ==
  ASSUME NEW m \in Mail, m.free # NULL
  PROVE  GetEnvelope(m) \in Mail
BY DEF GetEnvelope, Mail, EnvPtr

LEMMA ReleaseEnvelopeType ==
  ASSUME NEW m \in Mail, NEW e \in Envelopes
  PROVE  ReleaseEnvelope(m, e) \in Mail
BY DEF ReleaseEnvelope, Mail, EnvPtr

LEMMA TakeOverType ==
  ASSUME NEW m \in Mail, NEW r \in Slots, m.outbox[r] # NULL, current \in Slots
  PROVE  TakeOver(m, r) \in Mail
BY DEF TakeOver, Mail, EnvPtr, SlotPtr

LEMMA EnqueueType ==
  ASSUME NEW m \in Mail, NEW r \in Slots, m.free # NULL, current \in Slots
  PROVE  Enqueue(m, r) \in Mail
<1>1. GetEnvelope(m) \in Mail
  BY GetEnvelopeType
<1> QED BY <1>1 DEF Enqueue, Mail, EnvPtr, SlotPtr

LEMMA TidRangePositive == TidRange \in Nat /\ TidRange >= NumSlots
BY DEF TidRange

LEMMA NextTidType ==
  ASSUME NEW x \in Tids
  PROVE  NextTid(x) \in Tids
BY TidRangePositive DEF NextTid, Tids

LEMMA TaskOfType ==
  ASSUME NEW x \in Tids
  PROVE  TaskOf(x) \in SlotPtr
<1>1. x % NumSlots \in Slots
  BY TidRangePositive DEF Tids, Slots
<1> QED BY <1>1 DEF TaskOf, SlotPtr

(* destroyTaskD finds the first task on the victim's wait queue, or none. *)
LEMMA WakeWaitersType ==
  ASSUME TypeOK, NEW v \in Slots
  PROVE  WakeWaiters(v) \in Scheduler
<1>1. waitQueue[v] \in SlotPtr /\ sched \in Scheduler
  BY DEF TypeOK
<1>2. CASE waitQueue[v] = NULL
  BY <1>1, <1>2 DEF WakeWaiters
<1>3. CASE waitQueue[v] # NULL
  <2>1. waitQueue[v] \in Slots
    BY <1>1, <1>3 DEF SlotPtr
  <2> QED BY <1>1, <1>3, <2>1, AddTaskType DEF WakeWaiters
<1> QED BY <1>2, <1>3

LEMMA WakeReceiverType ==
  ASSUME NEW q \in Scheduler, NEW r \in Slots
  PROVE  WakeReceiver(q, r) \in Scheduler
BY AddTaskType DEF WakeReceiver
-----------------------------------------------------------------------------
LEMMA InitTypeInv == Init => TypeInv
<1> SUFFICES ASSUME Init PROVE TypeInv
  OBVIOUS
<1>1. FirstTask \in Slots /\ NullTask \in Slots
  BY DEF FirstTask, NullTask, Slots
<1>2. FirstPriority \in 0 .. NumPriorities /\ 0 \in 0 .. NumPriorities
  BY DEF Priorities
<1>3. sched \in Scheduler
  BY <1>1, <1>2, InitialSchedulerType, BootType DEF Init
<1>4. mail \in Mail
  <2>1. \A e \in Envelopes : e = 0 \/ e - 1 \in Envelopes
    BY DEF Envelopes
  <2>2. NumEnvelopes - 1 \in Envelopes
    BY DEF Envelopes
  <2> QED BY <2>1, <2>2 DEF Init, Mail, EnvPtr, SlotPtr
<1>5. Slots \subseteq Tids /\ 0 \in Tids
  BY TidRangePositive DEF Slots, Tids
<1>6. tid \in [Slots -> Tids] /\ parent \in [Slots -> Tids \cup {NoParent}]
  BY <1>5 DEF Init
<1>7. blocks \in Nat /\ bank \in SlotPtr
  BY DEF Init, SlotPtr, Slots
<1> QED BY <1>3, <1>4, <1>6, <1>7 DEF Init, TypeInv, TypeOK, SlotPtr, Results, Places

LEMMA ScheduleTypeInv == TypeInv /\ Schedule => TypeInv'
<1> SUFFICES ASSUME TypeInv, Schedule PROVE TypeInv'
  OBVIOUS
<1> DEFINE active == current # NULL /\ State(current) = "ACTIVE"
           keep   == active /\ sched.prio[current] > sched.highest
           q      == IF active THEN AddTask(sched, current) ELSE sched
<1> USE DEF TypeInv, TypeOK
<1>1. q \in Scheduler
  BY AddTaskType DEF SlotPtr
<1>2. \/ keep /\ Resume(current) /\ UNCHANGED sched
      \/ ~keep /\ q.highest = -1
         /\ pc' = "halted" /\ sched' = q /\ UNCHANGED <<current, result>>
      \/ ~keep /\ q.highest # -1 /\ CanDispatch(q)
         /\ Resume(First(q)) /\ sched' = Dispatch(q)
      \/ ~keep /\ q.highest # -1 /\ ~CanDispatch(q)
         /\ Corrupt /\ sched' = q /\ UNCHANGED current
  BY DEF Schedule
<1>3. UNCHANGED <<mail, tid, parent, waitQueue, waiter, blocks, bank, victim>>
  BY DEF Schedule
<1>4. CASE keep /\ Resume(current) /\ UNCHANGED sched
  BY <1>3, <1>4 DEF Resume, SlotPtr, Results, Places
<1> HIDE DEF q
<1>5. CASE pc' = "halted" /\ sched' = q /\ UNCHANGED <<current, result>>
  BY <1>1, <1>3, <1>5 DEF Places
<1>6. CASE q.highest # -1 /\ CanDispatch(q) /\ Resume(First(q)) /\ sched' = Dispatch(q)
  <2>1. Dispatch(q) \in Scheduler /\ First(q) \in Slots
    BY <1>1, <1>6, DispatchType
  <2> QED BY <1>3, <1>6, <2>1 DEF Resume, SlotPtr, Results, Places
<1>7. CASE Corrupt /\ sched' = q /\ UNCHANGED current
  BY <1>1, <1>3, <1>7 DEF Corrupt, Places
<1> QED BY <1>2, <1>4, <1>5, <1>6, <1>7

LEMMA CreateTypeInv ==
  ASSUME TypeInv, NEW p \in 0 .. NumPriorities, Create(p)
  PROVE  TypeInv'
<1> USE DEF TypeInv, TypeOK
<1>1. current \in Slots
  BY DEF Create, Calling
<1>2. CASE /\ UNCHANGED <<sched, mail, tid, parent, waitQueue, waiter, blocks, bank, current,
                          victim, result>>
          /\ pc' \in {"schedule", "corrupt"}
  BY <1>2 DEF Places
<1>3. CASE bank # NULL /\ blocks > 0 /\ NoResult
  <2>1. bank \in Slots
    BY <1>3 DEF SlotPtr
  <2>2. sched' = Boot(sched, bank, p) /\ bank' = sched.next[bank] /\ blocks' = blocks - 1
    BY <1>3 DEF Create, Corrupt
  <2>3. sched' \in Scheduler
    BY <2>1, <2>2, BootType
  <2>4. mail' \in Mail
    <3>1. mail' = [mail EXCEPT !.inHead[bank] = NULL, !.inTail[bank] = NULL,
                               !.outbox[bank] = NULL]
      BY <1>3 DEF Create
    <3> QED BY <2>1, <3>1 DEF Mail, EnvPtr
  <2>5. parent' \in [Slots -> Tids \cup {NoParent}]
    BY <1>1, <1>3 DEF Create
  <2>6. bank' \in SlotPtr /\ blocks' \in Nat
    BY <1>3, <2>1, <2>2 DEF Scheduler
  <2>7. UNCHANGED <<tid, waitQueue, waiter, current, victim, result>> /\ pc' = "schedule"
    BY <1>3 DEF Create, NoResult
  <2> QED BY <2>3, <2>4, <2>5, <2>6, <2>7 DEF Places
<1> QED BY <1>2, <1>3 DEF Create, NoResult, Corrupt

LEMMA PassTypeInv == TypeInv /\ (Pass \/ Terminate) => TypeInv'
BY DEF TypeInv, TypeOK, Pass, Terminate, NoResult, Calling, Places

LEMMA SendTypeInv ==
  ASSUME TypeInv, NEW x \in Tids, Send(x)
  PROVE  TypeInv'
<1> USE DEF TypeInv, TypeOK
<1> DEFINE r      == TaskOf(x)
           direct == r # NULL /\ State(r) = "SEND_BL" /\ mail.outbox[r] # NULL
<1>1. current \in Slots /\ r \in SlotPtr
  BY TaskOfType DEF Send, Calling
<1>2. UNCHANGED <<tid, parent, waitQueue, waiter, blocks, bank, current, victim>>
  BY DEF Send
<1>3. \/ NoResult /\ UNCHANGED <<sched, mail>>
      \/ /\ direct
         /\ mail' = TakeOver(mail, r)
         /\ sched' = WakeReceiver(Block(sched, "REPL_BL"), r)
         /\ Complete(r, "ok")
      \/ /\ r \notin {NULL, current} /\ ~direct /\ mail.free # NULL
         /\ mail' = Enqueue(mail, r)
         /\ sched' = WakeReceiver(Block(sched, "RECV_BL"), r)
         /\ NoResult
  BY DEF Send
<1>4. CASE NoResult /\ UNCHANGED <<sched, mail>>
  BY <1>1, <1>2, <1>4 DEF NoResult, Places
<1> HIDE DEF r
<1>5. CASE /\ direct
           /\ mail' = TakeOver(mail, r)
           /\ sched' = WakeReceiver(Block(sched, "REPL_BL"), r)
           /\ Complete(r, "ok")
  <2>1. r \in Slots
    BY <1>1, <1>5 DEF SlotPtr
  <2>2. mail' \in Mail
    BY <1>1, <1>5, <2>1, TakeOverType
  <2>3. Block(sched, "REPL_BL") \in Scheduler
    BY BlockType DEF TaskState
  <2>4. sched' \in Scheduler
    BY <1>5, <2>1, <2>3, WakeReceiverType
  <2> QED BY <1>2, <1>5, <2>2, <2>4 DEF Complete, Results, Places
<1>6. CASE /\ r \notin {NULL, current} /\ ~direct /\ mail.free # NULL
           /\ mail' = Enqueue(mail, r)
           /\ sched' = WakeReceiver(Block(sched, "RECV_BL"), r)
           /\ NoResult
  <2>1. r \in Slots
    BY <1>1, <1>6 DEF SlotPtr
  <2>2. mail' \in Mail
    BY <1>1, <1>6, <2>1, EnqueueType
  <2>3. Block(sched, "RECV_BL") \in Scheduler
    BY BlockType DEF TaskState
  <2>4. sched' \in Scheduler
    BY <1>6, <2>1, <2>3, WakeReceiverType
  <2> QED BY <1>2, <1>6, <2>2, <2>4 DEF NoResult, Places
<1> QED BY <1>3, <1>4, <1>5, <1>6

LEMMA ReceiveTypeInv == TypeInv /\ Receive => TypeInv'
<1> SUFFICES ASSUME TypeInv, Receive PROVE TypeInv'
  OBVIOUS
<1> USE DEF TypeInv, TypeOK
<1> DEFINE e == mail.inHead[current]
<1>1. current \in Slots
  BY DEF Receive, Calling
<1>2. e \in EnvPtr
  BY <1>1 DEF Mail
<1>3. UNCHANGED <<tid, parent, waitQueue, waiter, blocks, bank, current, victim>>
  BY DEF Receive
<1>4. CASE /\ sched' = Block(sched, "SEND_BL")
           /\ Complete(current, "NO_MORE_ENVELOPES")
           /\ UNCHANGED mail
  <2>1. sched' \in Scheduler
    BY <1>4, BlockType DEF TaskState
  <2> QED BY <1>3, <1>4, <2>1 DEF Complete, Results, Places
<1>5. CASE /\ e = NULL /\ mail.free # NULL
           /\ sched' = Block(sched, "SEND_BL")
           /\ mail' = [GetEnvelope(mail) EXCEPT !.sender[mail.free] = NULL,
                                                !.outbox[current] = mail.free]
           /\ Complete(current, "NO_AVAILABLE_MESSAGES")
  <2>1. sched' \in Scheduler
    BY <1>5, BlockType DEF TaskState
  <2>2. mail.free \in EnvPtr
    BY DEF Mail
  <2>3. GetEnvelope(mail) \in Mail
    BY <1>5, GetEnvelopeType
  <2>4. mail' \in Mail
    BY <1>5, <2>2, <2>3 DEF Mail, SlotPtr
  <2> QED BY <1>3, <1>5, <2>1, <2>4 DEF Complete, Results, Places
<1>6. CASE /\ e # NULL /\ mail.sender[e] # NULL
           /\ mail' = [mail EXCEPT !.inHead[current] = mail.next[e],
                                   !.next[e] = NULL,
                                   !.inTail[current] = IF mail.next[e] = NULL
                                                       THEN NULL ELSE @]
           /\ sched' = [sched EXCEPT !.state[mail.sender[e]] = "REPL_BL"]
           /\ NoResult
  <2>1. mail.next[e] \in EnvPtr
    BY <1>2, <1>6 DEF Mail, EnvPtr
  <2>2. mail' \in Mail
    <3> HIDE DEF e
    <3> QED BY <1>6, <2>1 DEF Mail, EnvPtr
  <2>3. sched' \in Scheduler
    BY <1>6 DEF Scheduler, TaskState
  <2> QED BY <1>3, <1>6, <2>2, <2>3 DEF NoResult, Places
<1>7. CASE Corrupt /\ UNCHANGED <<sched, mail>>
  BY <1>3, <1>7 DEF Corrupt, Places
<1> QED BY <1>4, <1>5, <1>6, <1>7 DEF Receive

LEMMA ReplyTypeInv ==
  ASSUME TypeInv, NEW x \in Tids, Reply(x)
  PROVE  TypeInv'
<1> USE DEF TypeInv, TypeOK
<1> DEFINE t      == TaskOf(x)
           awaits == t # NULL /\ State(t) = "REPL_BL" /\ mail.outbox[t] # NULL
<1>1. t \in SlotPtr
  BY TaskOfType
<1>2. UNCHANGED <<tid, parent, waitQueue, waiter, blocks, bank, current, victim>>
  BY DEF Reply
<1>3. CASE NoResult /\ UNCHANGED <<sched, mail>>
  BY <1>2, <1>3 DEF NoResult, Places
<1>4. CASE /\ awaits
           /\ sched' = AddTask(sched, t)
           /\ mail' = [ReleaseEnvelope(mail, mail.outbox[t]) EXCEPT !.outbox[t] = NULL]
           /\ Complete(t, "ok")
  <2> HIDE DEF t
  <2>1. t \in Slots
    BY <1>1, <1>4 DEF SlotPtr
  <2>2. sched' \in Scheduler
    BY <1>4, <2>1, AddTaskType
  <2>3. mail.outbox[t] \in Envelopes
    BY <1>4, <2>1 DEF Mail, EnvPtr
  <2>4. ReleaseEnvelope(mail, mail.outbox[t]) \in Mail
    BY <2>3, ReleaseEnvelopeType
  <2>5. mail' \in Mail
    BY <1>4, <2>4 DEF Mail, EnvPtr
  <2> QED BY <1>2, <1>4, <2>2, <2>5 DEF Complete, Results, Places
<1> QED BY <1>3, <1>4 DEF Reply

LEMMA EventTypeInv ==
  ASSUME TypeInv, NEW e \in Events, Await(e) \/ Interrupt(e)
  PROVE  TypeInv'
<1> USE DEF TypeInv, TypeOK
<1>1. CASE Await(e)
  <2>1. sched' \in Scheduler
    BY <1>1, BlockType DEF Await, TaskState
  <2>2. waiter' \in [Events -> SlotPtr]
    BY <1>1 DEF Await
  <2> QED BY <1>1, <2>1, <2>2 DEF Await, NoResult, Calling, Places
<1>2. CASE Interrupt(e) /\ waiter[e] # NULL
  <2>1. waiter[e] \in Slots
    BY <1>2 DEF SlotPtr
  <2>2. sched' \in Scheduler
    BY <1>2, <2>1, AddTaskType DEF Interrupt
  <2> QED BY <1>2, <2>2 DEF Interrupt, ClearEntry, Complete, SlotPtr, Results, Places
<1>3. CASE Interrupt(e) /\ waiter[e] = NULL
  BY <1>3 DEF Interrupt, Places
<1> QED BY <1>1, <1>2, <1>3

LEMMA WaitTidTypeInv ==
  ASSUME TypeInv, NEW x \in Tids, WaitTid(x)
  PROVE  TypeInv'
<1> USE DEF TypeInv, TypeOK
<1>1. current \in Slots
  BY DEF WaitTid, Calling
<1>2. TaskOf(x) \in Slots
  BY TaskOfType DEF WaitTid, SlotPtr
<1>3. waitQueue' \in [Slots -> SlotPtr]
  BY <1>1 DEF WaitTid, SlotPtr
<1>4. sched' \in Scheduler
  <2>1. waitQueue[TaskOf(x)] \in SlotPtr
    BY <1>2
  <2> QED BY <1>1, <2>1 DEF WaitTid, Scheduler, TaskState
<1> QED BY <1>3, <1>4 DEF WaitTid, NoResult, Places

LEMMA BeginDestroyTypeInv ==
  ASSUME TypeInv, NEW v \in Slots, BeginDestroy(v)
  PROVE  TypeInv'
<1> USE DEF TypeInv, TypeOK
<1> DEFINE q     == WakeWaiters(v)
           ready == q.state[v] = "READY"
<1>1. q \in Scheduler
  BY WakeWaitersType
<1>2. UNCHANGED <<mail, waitQueue, waiter, bank, current>>
  BY DEF BeginDestroy
<1>3. result' \in [Slots -> Results]
  BY DEF BeginDestroy, Results
<1>4. CASE /\ ready => CanUnlink(q, v)
           /\ sched' = [(IF ready THEN Unlink(q, v) ELSE q)
                          EXCEPT !.state[v] = "FREE", !.prio[v] = 0]
           /\ tid' = [tid EXCEPT ![v] = NextTid(@)]
           /\ parent' = [parent EXCEPT ![v] = 0]
           /\ blocks' = blocks + 1
           /\ victim' = v
           /\ pc' = "drain"
  <2> DEFINE u == IF ready THEN Unlink(q, v) ELSE q
  <2>1. u \in Scheduler
    BY <1>1, <1>4, UnlinkType
  <2>2. sched' \in Scheduler
    <3> HIDE DEF u
    <3>1. sched' = [u EXCEPT !.state[v] = "FREE", !.prio[v] = 0]
      BY <1>4 DEF u
    <3>2. 0 \in Priorities
      BY DEF Priorities
    <3> QED BY <2>1, <3>1, <3>2 DEF Scheduler, TaskState
  <2>3. tid' \in [Slots -> Tids]
    BY <1>4, NextTidType
  <2>4. parent' \in [Slots -> Tids \cup {NoParent}]
    BY <1>4, TidRangePositive DEF Tids
  <2> QED BY <1>2, <1>3, <1>4, <2>2, <2>3, <2>4 DEF SlotPtr, Places
<1>5. CASE sched' = q /\ pc' = "corrupt" /\ UNCHANGED <<tid, parent, blocks, victim>>
  BY <1>1, <1>2, <1>3, <1>5 DEF Places
<1> QED BY <1>4, <1>5 DEF BeginDestroy

LEMMA DestroyTypeInv ==
  ASSUME TypeInv, NEW x \in Tids, Destroy(x) \/ DestroyDead(x)
  PROVE  TypeInv'
<1>1. CASE Destroy(x)
  <2>1. TaskOf(x) \in Slots /\ BeginDestroy(TaskOf(x))
    BY <1>1, TaskOfType DEF Destroy, SlotPtr
  <2> QED BY <2>1, BeginDestroyTypeInv
<1>2. CASE DestroyDead(x)
  BY <1>2 DEF DestroyDead, NoResult, Corrupt, TypeInv, TypeOK, Places
<1> QED BY <1>1, <1>2

LEMMA ExitTypeInv == TypeInv /\ Exit => TypeInv'
BY BeginDestroyTypeInv DEF Exit, Calling, TypeInv

LEMMA DrainInboxTypeInv == TypeInv /\ DrainInbox => TypeInv'
<1> SUFFICES ASSUME TypeInv, DrainInbox PROVE TypeInv'
  OBVIOUS
<1> USE DEF TypeInv, TypeOK
<1> DEFINE e == mail.inHead[victim]
           t == mail.sender[e]
<1>1. victim \in Slots /\ e \in Envelopes
  BY DEF DrainInbox, Mail, EnvPtr
<1>2. t \in SlotPtr
  BY <1>1 DEF Mail
<1>3. UNCHANGED <<tid, parent, waitQueue, waiter, blocks, bank, current, victim>>
  BY DEF DrainInbox
<1>4. CASE /\ t # NULL
           /\ sched' = AddTask(sched, t)
           /\ mail' = [ReleaseEnvelope(mail, e) EXCEPT !.inHead[victim] = mail.next[e],
                                                       !.outbox[t] = NULL]
           /\ result' = [result EXCEPT ![t] = "TASK_DESTROYED"]
           /\ UNCHANGED pc
  <2>1. t \in Slots
    BY <1>2, <1>4 DEF SlotPtr
  <2>2. mail.next[e] \in EnvPtr
    BY <1>1 DEF Mail
  <2> HIDE DEF e, t
  <2>3. sched' \in Scheduler
    BY <1>4, <2>1, AddTaskType
  <2>4. ReleaseEnvelope(mail, e) \in Mail
    BY <1>1, ReleaseEnvelopeType
  <2>5. mail' \in Mail
    BY <1>4, <2>2, <2>4 DEF Mail, EnvPtr
  <2> QED BY <1>1, <1>3, <1>4, <2>3, <2>5 DEF Results, Places
<1>5. CASE Corrupt /\ UNCHANGED <<sched, mail>>
  BY <1>3, <1>5 DEF Corrupt, Places
<1> QED BY <1>4, <1>5 DEF DrainInbox

LEMMA FinishDestroyTypeInv == TypeInv /\ FinishDestroy => TypeInv'
<1> SUFFICES ASSUME TypeInv, FinishDestroy PROVE TypeInv'
  OBVIOUS
<1> USE DEF TypeInv, TypeOK
<1> DEFINE e == mail.outbox[victim]
           m == IF e = NULL THEN mail ELSE ReleaseEnvelope(mail, e)
<1>1. victim \in Slots
  BY DEF FinishDestroy
<1>2. m \in Mail
  <2>1. e \in EnvPtr
    BY <1>1 DEF Mail
  <2> QED BY <2>1, ReleaseEnvelopeType DEF EnvPtr
<1>3. mail' \in Mail
  <2>1. mail' = [m EXCEPT !.inTail[victim] = NULL, !.outbox[victim] = NULL]
    BY DEF FinishDestroy
  <2> HIDE DEF m
  <2> QED BY <1>2, <2>1 DEF Mail, EnvPtr
<1>4. sched' \in Scheduler /\ bank' \in SlotPtr
  BY <1>1 DEF FinishDestroy, ReturnToBank, Scheduler, SlotPtr
<1> QED BY <1>3, <1>4 DEF FinishDestroy, NoResult, SlotPtr, Places

(* Every variable keeps its type in every reachable state; in particular the
   pointers the kernel dereferences unchecked after a guard are descriptors. *)
LEMMA NextTypeInv == TypeInv /\ [Next]_vars => TypeInv'
<1> SUFFICES ASSUME TypeInv, [Next]_vars PROVE TypeInv'
  OBVIOUS
<1>1. CASE UNCHANGED vars
  BY <1>1 DEF vars, TypeInv, TypeOK
<1>2. CASE Next
  <2>1. CASE Schedule
    BY <2>1, ScheduleTypeInv
  <2>2. CASE \E p \in 0 .. NumPriorities : Create(p)
    BY <2>2, CreateTypeInv
  <2>3. CASE Pass \/ Terminate
    BY <2>3, PassTypeInv
  <2>4. CASE Receive
    BY <2>4, ReceiveTypeInv
  <2>5. CASE \E x \in Tids : Send(x) \/ Reply(x) \/ WaitTid(x) \/ Destroy(x) \/ DestroyDead(x)
    BY <2>5, SendTypeInv, ReplyTypeInv, WaitTidTypeInv, DestroyTypeInv
  <2>6. CASE \E e \in Events : Await(e) \/ Interrupt(e)
    BY <2>6, EventTypeInv
  <2>7. CASE Exit
    BY <2>7, ExitTypeInv
  <2>8. CASE DrainInbox \/ FinishDestroy
    BY <2>8, DrainInboxTypeInv, FinishDestroyTypeInv
  <2> QED BY <1>2, <2>1, <2>2, <2>3, <2>4, <2>5, <2>6, <2>7, <2>8 DEF Next
<1> QED BY <1>1, <1>2

THEOREM TypeInvariant == Spec => []TypeInv
BY InitTypeInv, NextTypeInv, PTL DEF Spec

(* Every variable of the kernel has its type in every reachable state. *)
THEOREM TypeCorrect == Spec => []TypeOK
<1>1. TypeInv => TypeOK
  BY DEF TypeInv
<1> QED BY <1>1, TypeInvariant, PTL

-----------------------------------------------------------------------------
(* What the operations do to the states of the tasks, and what the envelope
   operations do to the inboxes. *)
LEMMA AddTaskState ==
  ASSUME NEW q \in Scheduler, NEW t \in Slots
  PROVE  AddTask(q, t).state = [q.state EXCEPT ![t] = "READY"]
BY DEF AddTask

LEMMA BlockState ==
  ASSUME NEW q \in Scheduler, NEW s
  PROVE  Block(q, s).state = [q.state EXCEPT ![current] = s]
BY DEF Block, Scheduler

LEMMA BootState ==
  ASSUME NEW q \in Scheduler, NEW t \in Slots, NEW p \in 0 .. NumPriorities
  PROVE  Boot(q, t, p).state = [q.state EXCEPT ![t] = "READY"]
BY DEF Boot, AddTask, Scheduler

LEMMA EnqueueInbox ==
  ASSUME NEW m \in Mail, NEW r \in Slots, m.free # NULL, current \in Slots,
         NEW t \in Slots \ {r}
  PROVE  Enqueue(m, r).inHead[t] = m.inHead[t]
<1>1. GetEnvelope(m) \in Mail /\ GetEnvelope(m).inHead = m.inHead
  BY GetEnvelopeType DEF GetEnvelope, Mail
<1> QED BY <1>1 DEF Enqueue, Mail

LEMMA TakeOverInbox ==
  ASSUME NEW m \in Mail, NEW r \in Slots
  PROVE  TakeOver(m, r).inHead = m.inHead
BY DEF TakeOver, Mail

LEMMA ReleaseEnvelopeInbox ==
  ASSUME NEW m \in Mail, NEW e \in Envelopes
  PROVE  ReleaseEnvelope(m, e).inHead = m.inHead
BY DEF ReleaseEnvelope, Mail

(* A step keeps NoSleepingReceiver if whoever it leaves in Receive either was
   there and got no message, or has an empty inbox. *)
LEMMA StillNoSleeper ==
  ASSUME NoSleepingReceiver,
         \A t \in Slots :
           sched'.state[t] = "SEND_BL" =>
             \/ sched.state[t] = "SEND_BL" /\ mail'.inHead[t] = mail.inHead[t]
             \/ mail'.inHead[t] = NULL
  PROVE  NoSleepingReceiver'
BY DEF NoSleepingReceiver, State

LEMMA ScheduleNoSleeper == TypeInv /\ NoSleepingReceiver /\ Schedule => NoSleepingReceiver'
<1> SUFFICES ASSUME TypeInv, NoSleepingReceiver, Schedule PROVE NoSleepingReceiver'
  OBVIOUS
<1> USE DEF TypeInv, TypeOK
<1> DEFINE active == current # NULL /\ State(current) = "ACTIVE"
           q == IF active THEN AddTask(sched, current) ELSE sched
<1>1. q \in Scheduler /\ \A t \in Slots : q.state[t] = "SEND_BL" => sched.state[t] = "SEND_BL"
  <2>1. CASE active
    <3>1. current \in Slots
      BY <2>1 DEF SlotPtr
    <3>2. q \in Scheduler /\ q.state = [sched.state EXCEPT ![current] = "READY"]
      BY <2>1, <3>1, AddTaskType, AddTaskState
    <3>3. sched.state \in [Slots -> TaskState]
      BY DEF Scheduler
    <3> HIDE DEF q
    <3> QED BY <3>1, <3>2, <3>3
  <2> QED BY <2>1
<1>2. sched' = sched \/ sched' = q \/ (q.highest # -1 /\ CanDispatch(q) /\ sched' = Dispatch(q))
  BY DEF Schedule
<1>3. mail' = mail
  BY DEF Schedule
<1> HIDE DEF q
<1>4. CASE q.highest # -1 /\ CanDispatch(q) /\ sched' = Dispatch(q)
  <2>1. First(q) \in Slots /\ sched'.state = [q.state EXCEPT ![First(q)] = "ACTIVE"]
    BY <1>1, <1>4, DispatchType DEF Dispatch
  <2>2. \A t \in Slots : sched'.state[t] = "SEND_BL" => q.state[t] = "SEND_BL"
    BY <1>1, <2>1 DEF Scheduler
  <2> QED BY <1>1, <1>3, <2>2, StillNoSleeper
<1> QED BY <1>1, <1>2, <1>3, <1>4, StillNoSleeper

LEMMA CreateNoSleeper ==
  ASSUME TypeInv, NoSleepingReceiver, NEW p \in 0 .. NumPriorities, Create(p)
  PROVE  NoSleepingReceiver'
<1> USE DEF TypeInv, TypeOK
<1>1. CASE UNCHANGED <<sched, mail>>
  BY <1>1, StillNoSleeper
<1>2. CASE /\ bank # NULL
           /\ sched' = Boot(sched, bank, p)
           /\ mail' = [mail EXCEPT !.inHead[bank] = NULL, !.inTail[bank] = NULL,
                                   !.outbox[bank] = NULL]
  <2>1. bank \in Slots
    BY <1>2 DEF SlotPtr
  <2>2. sched'.state = [sched.state EXCEPT ![bank] = "READY"]
    BY <1>2, <2>1, BootState
  <2>3. \A t \in Slots : t # bank => mail'.inHead[t] = mail.inHead[t]
    BY <1>2 DEF Mail
  <2> QED BY <2>1, <2>2, <2>3, StillNoSleeper DEF Scheduler
<1> QED BY <1>1, <1>2 DEF Create

LEMMA SendNoSleeper ==
  ASSUME TypeInv, NoSleepingReceiver, NEW x \in Tids, Send(x)
  PROVE  NoSleepingReceiver'
<1> USE DEF TypeInv, TypeOK
<1> DEFINE r == TaskOf(x)
<1>1. current \in Slots /\ r \in SlotPtr
  BY TaskOfType DEF Send, Calling
<1> HIDE DEF r
<1>2. CASE UNCHANGED <<sched, mail>>
  BY <1>2, StillNoSleeper
<1>3. ASSUME NEW s \in {"REPL_BL", "RECV_BL"}, r \in Slots,
             sched' = WakeReceiver(Block(sched, s), r)
      PROVE  \A t \in Slots :
               sched'.state[t] = "SEND_BL" => sched.state[t] = "SEND_BL" /\ t # r
  <2>1. Block(sched, s) \in Scheduler /\ Block(sched, s).state = [sched.state EXCEPT ![current] = s]
    BY BlockType, BlockState DEF TaskState
  <2>2. CASE State(r) = "SEND_BL"
    <3>1. sched'.state = [[sched.state EXCEPT ![current] = s] EXCEPT ![r] = "READY"]
      BY <1>3, <2>1, <2>2, AddTaskState DEF WakeReceiver
    <3> QED BY <1>1, <1>3, <3>1 DEF Scheduler
  <2>3. CASE State(r) # "SEND_BL"
    <3>1. sched'.state = [sched.state EXCEPT ![current] = s]
      BY <1>3, <2>1, <2>3 DEF WakeReceiver
    <3> QED BY <1>1, <1>3, <2>3, <3>1 DEF Scheduler, State
  <2> QED BY <2>2, <2>3
<1>4. CASE /\ r # NULL
           /\ mail' = TakeOver(mail, r)
           /\ sched' = WakeReceiver(Block(sched, "REPL_BL"), r)
  <2>1. r \in Slots
    BY <1>1, <1>4 DEF SlotPtr
  <2>2. mail'.inHead = mail.inHead
    BY <1>4, <2>1, TakeOverInbox
  <2>3. \A t \in Slots : sched'.state[t] = "SEND_BL" => sched.state[t] = "SEND_BL"
    BY <1>3, <1>4, <2>1
  <2> QED BY <2>2, <2>3, StillNoSleeper
<1>5. CASE /\ r # NULL /\ mail.free # NULL
           /\ mail' = Enqueue(mail, r)
           /\ sched' = WakeReceiver(Block(sched, "RECV_BL"), r)
  <2>1. r \in Slots
    BY <1>1, <1>5 DEF SlotPtr
  <2>2. \A t \in Slots \ {r} : mail'.inHead[t] = mail.inHead[t]
    BY <1>1, <1>5, <2>1, EnqueueInbox
  <2>3. \A t \in Slots : sched'.state[t] = "SEND_BL" => sched.state[t] = "SEND_BL" /\ t # r
    BY <1>3, <1>5, <2>1
  <2> QED BY <2>2, <2>3, StillNoSleeper
<1> QED BY <1>2, <1>4, <1>5 DEF Send, r

LEMMA ReceiveNoSleeper == TypeInv /\ NoSleepingReceiver /\ Receive => NoSleepingReceiver'
<1> SUFFICES ASSUME TypeInv, NoSleepingReceiver, Receive PROVE NoSleepingReceiver'
  OBVIOUS
<1> USE DEF TypeInv, TypeOK
<1> DEFINE e == mail.inHead[current]
<1>1. current \in Slots
  BY DEF Receive, Calling
<1>2. e \in EnvPtr
  BY <1>1 DEF Mail
<1>3. CASE /\ e = NULL
           /\ sched' = Block(sched, "SEND_BL")
           /\ \/ UNCHANGED mail
              \/ mail.free # NULL
                 /\ mail' = [GetEnvelope(mail) EXCEPT !.sender[mail.free] = NULL,
                                                      !.outbox[current] = mail.free]
  <2>1. mail'.inHead = mail.inHead
    <3>1. CASE mail.free # NULL
               /\ mail' = [GetEnvelope(mail) EXCEPT !.sender[mail.free] = NULL,
                                                    !.outbox[current] = mail.free]
      <4>1. GetEnvelope(mail) \in Mail /\ GetEnvelope(mail).inHead = mail.inHead
        BY <3>1, GetEnvelopeType DEF GetEnvelope, Mail
      <4> QED BY <3>1, <4>1 DEF Mail
    <3> QED BY <1>3, <3>1
  <2>2. sched'.state = [sched.state EXCEPT ![current] = "SEND_BL"]
    BY <1>3, BlockState
  <2> QED BY <1>3, <2>1, <2>2, StillNoSleeper DEF Scheduler
<1>4. CASE /\ e # NULL /\ mail.sender[e] # NULL
           /\ mail' = [mail EXCEPT !.inHead[current] = mail.next[e],
                                   !.next[e] = NULL,
                                   !.inTail[current] = IF mail.next[e] = NULL
                                                       THEN NULL ELSE @]
           /\ sched' = [sched EXCEPT !.state[mail.sender[e]] = "REPL_BL"]
  <2>1. sched.state[current] # "SEND_BL"
    BY <1>1, <1>4 DEF NoSleepingReceiver, State
  <2>2. \A t \in Slots : t # current => mail'.inHead[t] = mail.inHead[t]
    BY <1>4 DEF Mail
  <2>3. \A t \in Slots : sched'.state[t] = "SEND_BL" => sched.state[t] = "SEND_BL"
    BY <1>4 DEF Scheduler
  <2> QED BY <2>1, <2>2, <2>3, StillNoSleeper
<1>5. CASE UNCHANGED <<sched, mail>>
  BY <1>5, StillNoSleeper
<1> QED BY <1>3, <1>4, <1>5 DEF Receive

LEMMA ReplyNoSleeper ==
  ASSUME TypeInv, NoSleepingReceiver, NEW x \in Tids, Reply(x)
  PROVE  NoSleepingReceiver'
<1> USE DEF TypeInv, TypeOK
<1> DEFINE t == TaskOf(x)
<1>1. CASE UNCHANGED <<sched, mail>>
  BY <1>1, StillNoSleeper
<1>2. CASE /\ t # NULL /\ mail.outbox[t] # NULL
           /\ sched' = AddTask(sched, t)
           /\ mail' = [ReleaseEnvelope(mail, mail.outbox[t]) EXCEPT !.outbox[t] = NULL]
  <2>1. t \in Slots
    BY <1>2, TaskOfType DEF SlotPtr
  <2> HIDE DEF t
  <2>2. mail.outbox[t] \in Envelopes
    BY <1>2, <2>1 DEF Mail, EnvPtr
  <2>3. mail'.inHead = mail.inHead
    BY <1>2, <2>2, ReleaseEnvelopeType, ReleaseEnvelopeInbox DEF Mail
  <2>4. sched'.state = [sched.state EXCEPT ![t] = "READY"]
    BY <1>2, <2>1, AddTaskState
  <2> QED BY <2>1, <2>3, <2>4, StillNoSleeper DEF Scheduler
<1> QED BY <1>1, <1>2 DEF Reply

LEMMA EventNoSleeper ==
  ASSUME TypeInv, NoSleepingReceiver,
         \/ \E e \in Events : Await(e) \/ Interrupt(e)
         \/ \E x \in Tids : WaitTid(x)
  PROVE  NoSleepingReceiver'
<1> USE DEF TypeInv, TypeOK
<1>1. CASE \E e \in Events : Await(e)
  <2>1. mail' = mail /\ sched'.state = [sched.state EXCEPT ![current] = "EVENT_BL"]
    BY <1>1, BlockState DEF Await
  <2> QED BY <2>1, StillNoSleeper DEF Scheduler
<1>2. ASSUME NEW e \in Events, Interrupt(e), waiter[e] # NULL
      PROVE  NoSleepingReceiver'
  <2>1. waiter[e] \in Slots
    BY <1>2 DEF SlotPtr
  <2>2. mail' = mail /\ sched'.state = [sched.state EXCEPT ![waiter[e]] = "READY"]
    BY <1>2, <2>1, AddTaskState DEF Interrupt
  <2> QED BY <2>1, <2>2, StillNoSleeper DEF Scheduler
<1>3. ASSUME NEW e \in Events, Interrupt(e), waiter[e] = NULL
      PROVE  NoSleepingReceiver'
  BY <1>3, StillNoSleeper DEF Interrupt
<1>4. CASE \E x \in Tids : WaitTid(x)
  <2>1. mail' = mail /\ sched'.state = [sched.state EXCEPT ![current] = "WAITTID_BL"]
    BY <1>4 DEF WaitTid, Scheduler
  <2> QED BY <2>1, StillNoSleeper DEF Scheduler
<1> QED BY <1>1, <1>2, <1>3, <1>4

LEMMA BeginDestroyNoSleeper ==
  ASSUME TypeInv, NoSleepingReceiver, NEW v \in Slots, BeginDestroy(v)
  PROVE  NoSleepingReceiver'
<1> USE DEF TypeInv, TypeOK
<1> DEFINE q == WakeWaiters(v)
           u == IF q.state[v] = "READY" THEN Unlink(q, v) ELSE q
<1>1. q \in Scheduler
  BY WakeWaitersType
<1>2. \A t \in Slots : q.state[t] = "SEND_BL" => sched.state[t] = "SEND_BL"
  <2>1. CASE waitQueue[v] = NULL
    BY <2>1 DEF WakeWaiters
  <2>2. CASE waitQueue[v] # NULL
    <3>1. waitQueue[v] \in Slots
      BY <2>2 DEF SlotPtr
    <3>2. q.state = [sched.state EXCEPT ![waitQueue[v]] = "READY"]
      BY <2>2, <3>1, AddTaskState DEF WakeWaiters
    <3> HIDE DEF q
    <3> QED BY <3>1, <3>2 DEF Scheduler
  <2> QED BY <2>1, <2>2
<1>3. mail' = mail
  BY DEF BeginDestroy
<1> HIDE DEF q
<1>4. CASE sched' = q
  BY <1>2, <1>3, <1>4, StillNoSleeper
<1>5. CASE /\ q.state[v] = "READY" => CanUnlink(q, v)
           /\ sched' = [u EXCEPT !.state[v] = "FREE", !.prio[v] = 0]
  <2>1. u \in Scheduler /\ u.state = q.state
    BY <1>1, <1>5, UnlinkType DEF Unlink
  <2>2. sched'.state = [q.state EXCEPT ![v] = "FREE"]
    <3> HIDE DEF u
    <3> QED BY <1>5, <2>1 DEF Scheduler
  <2> QED BY <1>1, <1>2, <1>3, <2>2, StillNoSleeper DEF Scheduler
<1> QED BY <1>4, <1>5 DEF BeginDestroy, q

LEMMA DrainNoSleeper ==
  TypeInv /\ NoSleepingReceiver /\ (DrainInbox \/ FinishDestroy) => NoSleepingReceiver'
<1> SUFFICES ASSUME TypeInv, NoSleepingReceiver, DrainInbox \/ FinishDestroy
             PROVE  NoSleepingReceiver'
  OBVIOUS
<1> USE DEF TypeInv, TypeOK
<1>1. victim \in Slots
  BY DEF DrainInbox, FinishDestroy
<1>2. CASE DrainInbox
  <2> DEFINE e == mail.inHead[victim]
             t == mail.sender[e]
  <2>1. e \in Envelopes
    BY <1>1, <1>2 DEF DrainInbox, Mail, EnvPtr
  <2>2. t \in SlotPtr
    BY <2>1 DEF Mail
  <2>3. sched.state[victim] # "SEND_BL"
    BY <1>1, <1>2 DEF DrainInbox, NoSleepingReceiver, State
  <2>4. CASE /\ t # NULL
             /\ sched' = AddTask(sched, t)
             /\ mail' = [ReleaseEnvelope(mail, e) EXCEPT !.inHead[victim] = mail.next[e],
                                                         !.outbox[t] = NULL]
    <3> HIDE DEF e, t
    <3>1. t \in Slots
      BY <2>2, <2>4 DEF SlotPtr
    <3>2. \A s \in Slots \ {victim} : mail'.inHead[s] = mail.inHead[s]
      BY <2>1, <2>4, ReleaseEnvelopeType, ReleaseEnvelopeInbox DEF Mail
    <3>3. sched'.state = [sched.state EXCEPT ![t] = "READY"]
      BY <2>4, <3>1, AddTaskState
    <3> QED BY <2>3, <3>1, <3>2, <3>3, StillNoSleeper DEF Scheduler
  <2>5. CASE UNCHANGED <<sched, mail>>
    BY <2>5, StillNoSleeper
  <2> QED BY <1>2, <2>4, <2>5 DEF DrainInbox
<1>3. CASE FinishDestroy
  <2> DEFINE m == IF mail.outbox[victim] = NULL THEN mail
                  ELSE ReleaseEnvelope(mail, mail.outbox[victim])
  <2>1. m \in Mail /\ m.inHead = mail.inHead
    BY <1>1, ReleaseEnvelopeType, ReleaseEnvelopeInbox DEF Mail, EnvPtr
  <2>2. mail' = [m EXCEPT !.inTail[victim] = NULL, !.outbox[victim] = NULL]
    BY <1>3 DEF FinishDestroy
  <2> HIDE DEF m
  <2>3. mail'.inHead = mail.inHead
    BY <2>1, <2>2 DEF Mail
  <2>4. sched'.state = sched.state
    BY <1>3 DEF FinishDestroy, ReturnToBank, Scheduler
  <2> QED BY <2>3, <2>4, StillNoSleeper
<1> QED BY <1>2, <1>3

(* No task sleeps in Receive beside a message that is in its inbox already, in
   any reachable state: sys_recv blocks only on an empty inbox, and whatever
   sys_send puts there wakes the receiver. *)
THEOREM NoSleepingReceiverCorrect == Spec => []NoSleepingReceiver
<1>1. Init => NoSleepingReceiver
  BY DEF Init, NoSleepingReceiver
<1>2. TypeInv /\ NoSleepingReceiver /\ [Next]_vars => NoSleepingReceiver'
  <2> SUFFICES ASSUME TypeInv, NoSleepingReceiver, [Next]_vars PROVE NoSleepingReceiver'
    OBVIOUS
  <2>1. CASE UNCHANGED <<sched, mail>>
    BY <2>1, StillNoSleeper
  <2>2. CASE Next
    <3>1. CASE Schedule
      BY <3>1, ScheduleNoSleeper
    <3>2. CASE \E p \in 0 .. NumPriorities : Create(p)
      BY <3>2, CreateNoSleeper
    <3>3. CASE Receive
      BY <3>3, ReceiveNoSleeper
    <3>4. CASE \E x \in Tids : Send(x) \/ Reply(x)
      BY <3>4, SendNoSleeper, ReplyNoSleeper
    <3>5. CASE \/ \E e \in Events : Await(e) \/ Interrupt(e)
               \/ \E x \in Tids : WaitTid(x)
      BY <3>5, EventNoSleeper
    <3>6. CASE Exit \/ \E x \in Tids : Destroy(x)
      <4>1. \E v \in Slots : BeginDestroy(v)
        BY <3>6, TaskOfType DEF Exit, Destroy, Calling, TypeInv, SlotPtr
      <4> QED BY <4>1, BeginDestroyNoSleeper
    <3>7. CASE DrainInbox \/ FinishDestroy
      BY <3>7, DrainNoSleeper
    <3>8. CASE Pass \/ Terminate \/ \E x \in Tids : DestroyDead(x)
      BY <2>1, <3>8 DEF Pass, Terminate, DestroyDead
    <3> QED BY <2>2, <3>1, <3>2, <3>3, <3>4, <3>5, <3>6, <3>7, <3>8 DEF Next
  <2> QED BY <2>1, <2>2 DEF vars
<1> QED BY <1>1, <1>2, TypeInvariant, PTL DEF Spec

-----------------------------------------------------------------------------
(* Integer division: a non-zero multiple of N is at least N away from 0, a
   residue is the one there is, and multiples of N do not change it. *)
LEMMA Multiple ==
  ASSUME NEW N \in Nat \ {0}, NEW k \in Int, k # 0
  PROVE  k * N >= N \/ k * N <= -N
<1>1. CASE k >= 1
  BY <1>1
<1>2. CASE k <= -1
  BY <1>2
<1> QED BY <1>1, <1>2

LEMMA ResidueUnique ==
  ASSUME NEW N \in Nat \ {0}, NEW a \in Int, NEW q \in Int, NEW c \in 0 .. N - 1,
         a = q * N + c
  PROVE  a % N = c
<1> DEFINE d == a \div N
           r == a % N
<1>1. d \in Int /\ r \in 0 .. N - 1 /\ a = d * N + r
  OBVIOUS
<1> HIDE DEF d, r
<1>2. (q - d) * N = r - c
  <2>1. (q - d) * N = q * N - d * N
    BY <1>1
  <2>2. q * N \in Int /\ d * N \in Int
    BY <1>1
  <2> QED BY <1>1, <2>1, <2>2
<1>3. q - d \in Int
  BY <1>1
<1>4. q - d = 0
  <2> SUFFICES ASSUME q - d # 0 PROVE FALSE
    OBVIOUS
  <2>1. (q - d) * N >= N \/ (q - d) * N <= -N
    BY <1>3, Multiple
  <2> QED BY <1>1, <1>2, <2>1
<1>5. r = c
  <2>1. 0 * N = 0
    OBVIOUS
  <2> QED BY <1>1, <1>2, <1>4, <2>1
<1> QED BY <1>5 DEF r

LEMMA ResidueOfMultiple ==
  ASSUME NEW N \in Nat \ {0}, NEW a \in Int, NEW k \in Int
  PROVE  (a + k * N) % N = a % N
<1> DEFINE d == a \div N
           r == a % N
<1>1. d \in Int /\ r \in 0 .. N - 1 /\ a = d * N + r
  OBVIOUS
<1> HIDE DEF d, r
<1>2. a + k * N = (d + k) * N + r
  BY <1>1
<1>3. (a + k * N) \in Int /\ d + k \in Int
  BY <1>1
<1>4. (a + k * N) % N = r
  BY <1>1, <1>2, <1>3, ResidueUnique
<1> QED BY <1>4 DEF r

LEMMA SlotResidue ==
  ASSUME NEW t \in Slots
  PROVE  t % NumSlots = t
BY DEF Slots

(* The running task is ACTIVE: nothing but schedule() lets one run. *)
RunningIsActive == pc = "user" => State(current) = "ACTIVE"

LEMMA OnlyScheduleRuns ==
  ASSUME Next, pc' = "user"
  PROVE  Schedule
BY DEF Next, Create, Pass, Terminate, Receive, Send, Reply, WaitTid, Destroy, DestroyDead, Await,
       Interrupt, Exit, DrainInbox, FinishDestroy, BeginDestroy, Calling, NoResult, Complete, Corrupt

LEMMA ScheduleRunsActive ==
  ASSUME TypeInv, Schedule, pc' = "user"
  PROVE  State(current)' = "ACTIVE"
<1> DEFINE active == current # NULL /\ State(current) = "ACTIVE"
           keep   == active /\ sched.prio[current] > sched.highest
           q      == IF active THEN AddTask(sched, current) ELSE sched
<1>1. q \in Scheduler
  BY AddTaskType DEF TypeInv, TypeOK, SlotPtr
<1>2. CASE keep /\ Resume(current) /\ UNCHANGED sched
  BY <1>2 DEF Resume, State
<1>3. CASE CanDispatch(q) /\ Resume(First(q)) /\ sched' = Dispatch(q) /\ q.highest # -1
  <2>1. First(q) \in Slots
    BY <1>1, <1>3 DEF CanDispatch, First, Scheduler, SlotPtr
  <2>2. sched'.state = [q.state EXCEPT ![First(q)] = "ACTIVE"]
    BY <1>3 DEF Dispatch
  <2> QED BY <1>1, <1>3, <2>1, <2>2 DEF Resume, State, Scheduler
<1> QED BY <1>2, <1>3 DEF Schedule, Corrupt

LEMMA RunningIsActiveNext ==
  ASSUME TypeInv, RunningIsActive, [Next]_vars
  PROVE  RunningIsActive'
<1>1. CASE UNCHANGED vars
  BY <1>1 DEF RunningIsActive, vars, State
<1>2. CASE Next
  BY <1>2, OnlyScheduleRuns, ScheduleRunsActive DEF RunningIsActive
<1> QED BY <1>1, <1>2

(* A descriptor becomes free in destroyTaskD only, and gets its next tid there. *)
Stays == UNCHANGED tid /\ \A t \in Slots : ~Over(t)

LEMMA QueuedStays ==
  ASSUME NEW q \in Scheduler, NEW u \in Slots, NEW t \in Slots, q.state[t] # "FREE"
  PROVE  AddTask(q, u).state[t] # "FREE"
BY DEF AddTask, Scheduler

LEMMA OneStateStays ==
  ASSUME TypeInv, UNCHANGED tid, NEW u \in Slots, NEW s, s # "FREE",
         sched'.state = [sched.state EXCEPT ![u] = s]
  PROVE  Stays
BY DEF TypeInv, TypeOK, Scheduler, Stays, Over, State

LEMMA MovesStay ==
  ASSUME TypeInv,
         \/ Schedule \/ (\E p \in 0 .. NumPriorities : Create(p)) \/ Pass \/ Terminate
         \/ \E x \in Tids : WaitTid(x) \/ DestroyDead(x)
         \/ \E e \in Events : Await(e) \/ Interrupt(e)
  PROVE  Stays
<1> USE DEF TypeInv, TypeOK, State, Over, Stays
<1>1. CASE Schedule
  <2> DEFINE active == current # NULL /\ State(current) = "ACTIVE"
             keep   == active /\ sched.prio[current] > sched.highest
             q      == IF active THEN AddTask(sched, current) ELSE sched
  <2>1. /\ q \in Scheduler
        /\ \A t \in Slots : sched.state[t] # "FREE" => q.state[t] # "FREE"
    BY AddTaskType, QueuedStays DEF SlotPtr
  <2>2. UNCHANGED tid
    BY <1>1 DEF Schedule
  <2>3. CASE UNCHANGED sched
    BY <2>2, <2>3
  <2>4. CASE sched' = q
    BY <2>1, <2>2, <2>4
  <2>5. CASE q.highest # -1 /\ sched' = Dispatch(q)
    <3>1. sched'.state = [q.state EXCEPT ![First(q)] = "ACTIVE"]
      BY <2>5 DEF Dispatch
    <3> HIDE DEF q
    <3> QED BY <2>1, <2>2, <3>1 DEF Scheduler
  <2>6. UNCHANGED sched \/ sched' = q \/ (q.highest # -1 /\ sched' = Dispatch(q))
    <3> HIDE DEF TypeInv, TypeOK
    <3> QED BY <1>1 DEF Schedule
  <2> QED BY <2>3, <2>4, <2>5, <2>6
<1>2. ASSUME NEW p \in 0 .. NumPriorities, Create(p) PROVE Stays
  <2>1. UNCHANGED tid /\ (UNCHANGED sched \/ (bank \in Slots /\ sched' = Boot(sched, bank, p)))
    BY <1>2 DEF Create, SlotPtr
  <2>2. CASE UNCHANGED sched
    BY <2>1, <2>2
  <2>3. CASE bank \in Slots /\ sched' = Boot(sched, bank, p)
    <3>1. sched'.state = [sched.state EXCEPT ![bank] = "READY"]
      BY <2>3 DEF Boot, AddTask
    <3> QED BY <2>1, <2>3, <3>1 DEF Scheduler
  <2> QED BY <2>1, <2>2, <2>3
<1>3. CASE Pass \/ Terminate \/ \E x \in Tids : DestroyDead(x)
  BY <1>3 DEF Pass, Terminate, DestroyDead
<1>4. ASSUME NEW x \in Tids, WaitTid(x) PROVE Stays
  <2> DEFINE u == waitQueue[TaskOf(x)]
  <2>1. /\ UNCHANGED tid /\ current \in Slots
        /\ sched' = [sched EXCEPT !.state[current] = "WAITTID_BL", !.next[current] = u]
    BY <1>4 DEF WaitTid, Calling
  <2> HIDE DEF u
  <2>2. sched'.state = [sched.state EXCEPT ![current] = "WAITTID_BL"]
    BY <2>1 DEF Scheduler
  <2> QED BY <2>1, <2>2, OneStateStays
<1>5. ASSUME NEW e \in Events, Await(e) PROVE Stays
  <2>1. UNCHANGED tid /\ sched'.state = [sched.state EXCEPT ![current] = "EVENT_BL"]
    BY <1>5 DEF Await, Block
  <2> QED BY <2>1 DEF Scheduler
<1>6. ASSUME NEW e \in Events, Interrupt(e) PROVE Stays
  <2>1. UNCHANGED tid /\ (UNCHANGED sched \/ (waiter[e] \in Slots /\ sched' = AddTask(sched, waiter[e])))
    BY <1>6 DEF Interrupt, SlotPtr
  <2> QED BY <2>1, QueuedStays
<1> QED BY <1>1, <1>2, <1>3, <1>4, <1>5, <1>6

LEMMA MessagesStay ==
  ASSUME TypeInv,
         \/ Receive \/ DrainInbox \/ \E x \in Tids : Send(x) \/ Reply(x)
  PROVE  Stays
<1> USE DEF TypeInv, TypeOK, State, Over, Stays
<1>1. CASE Receive
  <2>1. UNCHANGED tid
    BY <1>1 DEF Receive
  <2>2. current \in Slots
    BY <1>1 DEF Receive, Calling
  <2> DEFINE e == mail.inHead[current]
  <2>3. CASE UNCHANGED sched
    BY <2>1, <2>3
  <2>4. CASE sched' = Block(sched, "SEND_BL")
    <3>1. sched'.state = [sched.state EXCEPT ![current] = "SEND_BL"]
      BY <2>4 DEF Block, Scheduler
    <3> QED BY <2>1, <2>2, <3>1, OneStateStays
  <2>5. CASE /\ e # NULL /\ mail.sender[e] # NULL
             /\ sched' = [sched EXCEPT !.state[mail.sender[e]] = "REPL_BL"]
    <3>1. mail.sender[e] \in Slots
      BY <2>2, <2>5 DEF Mail, SlotPtr, EnvPtr
    <3>2. sched'.state = [sched.state EXCEPT ![mail.sender[e]] = "REPL_BL"]
      BY <2>5 DEF Scheduler
    <3> QED BY <2>1, <3>1, <3>2, OneStateStays
  <2>6. \/ UNCHANGED sched
        \/ sched' = Block(sched, "SEND_BL")
        \/ /\ e # NULL /\ mail.sender[e] # NULL
           /\ sched' = [sched EXCEPT !.state[mail.sender[e]] = "REPL_BL"]
    <3> HIDE DEF TypeInv, TypeOK
    <3> QED BY <1>1 DEF Receive
  <2> QED BY <2>3, <2>4, <2>5, <2>6
<1>2. CASE DrainInbox
  <2>1. UNCHANGED tid /\ (UNCHANGED sched \/ \E u \in Slots : sched' = AddTask(sched, u))
    BY <1>2 DEF DrainInbox, Mail, SlotPtr, EnvPtr
  <2> QED BY <2>1, QueuedStays
<1>3. ASSUME NEW x \in Tids, Send(x) PROVE Stays
  <2>1. /\ UNCHANGED tid /\ current \in Slots
        /\ \/ UNCHANGED sched
           \/ /\ TaskOf(x) \in Slots
              /\ \E s \in {"REPL_BL", "RECV_BL"} : sched' = WakeReceiver(Block(sched, s), TaskOf(x))
    BY <1>3, TaskOfType DEF Send, Calling, SlotPtr
  <2>2. ASSUME NEW s \in {"REPL_BL", "RECV_BL"}, NEW r \in Slots, sched' = WakeReceiver(Block(sched, s), r)
        PROVE  \A t \in Slots : ~Over(t)
    <3>1. Block(sched, s) \in Scheduler
      BY BlockType DEF TaskState
    <3>2. Block(sched, s).state = [sched.state EXCEPT ![current] = s]
      BY DEF Block, Scheduler
    <3>3. \A t \in Slots : sched.state[t] # "FREE" => Block(sched, s).state[t] # "FREE"
      BY <2>1, <3>2 DEF Scheduler
    <3> QED BY <2>2, <3>1, <3>3, QueuedStays DEF WakeReceiver
  <2> QED BY <2>1, <2>2
<1>4. ASSUME NEW x \in Tids, Reply(x) PROVE Stays
  <2>1. UNCHANGED tid /\ (UNCHANGED sched \/ (TaskOf(x) \in Slots /\ sched' = AddTask(sched, TaskOf(x))))
    BY <1>4, TaskOfType DEF Reply, SlotPtr
  <2> QED BY <2>1, QueuedStays
<1> QED BY <1>1, <1>2, <1>3, <1>4

LEMMA FinishStays ==
  ASSUME TypeInv, FinishDestroy
  PROVE  Stays
<1>1. UNCHANGED tid /\ sched'.state = sched.state
  BY DEF FinishDestroy, ReturnToBank
<1> QED BY <1>1 DEF Stays, Over, State

(* One step of destroyTaskD moves on the tid of the task that it ends. *)
EndsOne(v) == Over(v) /\ tid' = [tid EXCEPT ![v] = NextTid(@)] /\ \A t \in Slots \ {v} : ~Over(t)

LEMMA DestroyEnds ==
  ASSUME TypeInv, NEW v \in Slots, State(v) # "FREE", BeginDestroy(v)
  PROVE  Stays \/ EndsOne(v)
<1> USE DEF TypeInv, TypeOK, State, Over
<1> DEFINE q     == WakeWaiters(v)
           ready == q.state[v] = "READY"
<1>1. q \in Scheduler /\ \A t \in Slots : sched.state[t] # "FREE" => q.state[t] # "FREE"
  BY WakeWaitersType, QueuedStays DEF WakeWaiters, SlotPtr
<1> HIDE DEF q
<1>2. CASE sched' = q /\ UNCHANGED tid
  BY <1>1, <1>2 DEF Stays
<1>3. CASE /\ sched' = [(IF ready THEN Unlink(q, v) ELSE q) EXCEPT !.state[v] = "FREE", !.prio[v] = 0]
           /\ tid' = [tid EXCEPT ![v] = NextTid(@)]
  <2>1. sched'.state = [q.state EXCEPT ![v] = "FREE"]
    BY <1>3 DEF Unlink
  <2>2. Over(v) /\ \A t \in Slots \ {v} : ~Over(t)
    BY <1>1, <2>1 DEF Scheduler
  <2> QED BY <1>3, <2>2 DEF EndsOne
<1> QED BY <1>2, <1>3 DEF BeginDestroy, q

LEMMA TidsMoveOn ==
  ASSUME TypeInv, RunningIsActive, [Next]_vars
  PROVE  Stays \/ \E v \in Slots : EndsOne(v)
<1>1. CASE UNCHANGED vars
  BY <1>1 DEF vars, Stays, Over, State
<1>2. CASE Exit
  <2>1. current \in Slots /\ State(current) # "FREE" /\ BeginDestroy(current)
    BY <1>2 DEF Exit, Calling, TypeInv, RunningIsActive
  <2> QED BY <2>1, DestroyEnds
<1>3. ASSUME NEW x \in Tids, Destroy(x) PROVE Stays \/ \E v \in Slots : EndsOne(v)
  <2>1. TaskOf(x) \in Slots /\ State(TaskOf(x)) # "FREE" /\ BeginDestroy(TaskOf(x))
    BY <1>3, TaskOfType DEF Destroy, SlotPtr, TaskOf
  <2> QED BY <2>1, DestroyEnds
<1> QED BY <1>1, <1>2, <1>3, MovesStay, MessagesStay, FinishStays DEF Next

(* The memory and the descriptor agree: a descriptor's n-th task since its tids
   began again has the n-th of its tids. *)
PastInv ==
  /\ past \in [Slots -> Seq(Tids)]
  /\ \A t \in Slots :
       /\ Len(past[t]) < Generations
       /\ tid[t] = t + NumSlots * Len(past[t])
       /\ \A i \in 1 .. Len(past[t]) : past[t][i] = t + NumSlots * (i - 1)

LEMMA Multiples ==
  ASSUME NEW k \in Nat, NEW a \in Int, NEW b \in Int, a <= b
  PROVE  k * a <= k * b
<1>1. k * (b - a) >= 0
  <2> DEFINE d == b - a
  <2>1. d \in Nat
    OBVIOUS
  <2> HIDE DEF d
  <2>2. k * d >= 0
    BY <2>1
  <2> QED BY <2>2 DEF d
<1>2. k * (b - a) = k * b - k * a
  OBVIOUS
<1> QED BY <1>1, <1>2

LEMMA NextOfNth ==
  ASSUME NEW t \in Slots, NEW n \in Nat, n < Generations
  PROVE  NextTid(t + NumSlots * n) = IF n = Generations - 1 THEN t ELSE t + NumSlots * (n + 1)
<1>1. /\ NumSlots \in Nat \ {0} /\ Generations \in Nat \ {0}
      /\ t \in Nat /\ t < NumSlots
      /\ TidRange = NumSlots * Generations /\ TidRange \in Nat /\ TidRange >= NumSlots
  BY TidRangePositive DEF Slots, TidRange
<1>2. t + NumSlots * n + NumSlots = t + NumSlots * (n + 1)
  BY <1>1
<1>3. CASE n = Generations - 1
  <2>1. t + NumSlots * n + NumSlots = t + 1 * TidRange
    BY <1>1, <1>2, <1>3
  <2>2. (t + 1 * TidRange) % TidRange = t % TidRange
    <3>1. TidRange \in Nat \ {0} /\ t \in Int /\ 1 \in Int
      BY <1>1
    <3> HIDE SchedulerAssumption, KernelAssumption
    <3> QED BY <3>1, ResidueOfMultiple
  <2>3. t % TidRange = t
    BY <1>1
  <2> QED BY <1>3, <2>1, <2>2, <2>3 DEF NextTid
<1>4. CASE n # Generations - 1
  <2>1. NumSlots * (n + 2) <= NumSlots * Generations
    BY <1>1, <1>4, Multiples
  <2>2. NumSlots * (n + 2) = NumSlots * (n + 1) + NumSlots
    BY <1>1
  <2>3. NumSlots * (n + 1) \in Nat
    BY <1>1
  <2> DEFINE x == NumSlots * (n + 1)
             z == NumSlots * n
  <2>4. x \in Nat /\ t + x < TidRange
    BY <1>1, <2>1, <2>2, <2>3
  <2>5. t + z + NumSlots = t + x
    BY <1>2
  <2> HIDE DEF x, z
  <2>6. (t + x) % TidRange = t + x
    BY <1>1, <2>4
  <2>7. NextTid(t + z) = t + x
    BY <2>5, <2>6 DEF NextTid
  <2> QED BY <1>4, <2>7 DEF x, z
<1> QED BY <1>3, <1>4

LEMMA PastKept ==
  ASSUME TypeInv, RunningIsActive, PastInv, HistoryNext
  PROVE  PastInv'
<1> USE DEF TypeInv, TypeOK
<1>1. CASE Stays
  <2>1. past' = past /\ tid' = tid
    BY <1>1 DEF HistoryNext, Remember, Stays, PastInv
  <2> QED BY <2>1 DEF PastInv
<1>2. ASSUME NEW v \in Slots, EndsOne(v) PROVE PastInv'
  <2> DEFINE n == Len(past[v])
  <2>1. /\ n \in Nat /\ n < Generations /\ past[v] \in Seq(Tids)
        /\ tid[v] = v + NumSlots * n /\ tid[v] \in Tids
        /\ tid \in [Slots -> Tids]
    BY DEF PastInv
  <2>2. \A t \in Slots \ {v} : past'[t] = past[t] /\ tid'[t] = tid[t]
    BY <1>2, <2>1 DEF EndsOne, HistoryNext, Remember
  <2>3. past'[v] = IF n = Generations - 1 THEN <<>> ELSE Append(past[v], tid[v])
    BY <1>2 DEF EndsOne, HistoryNext, Remember
  <2>4. tid'[v] = IF n = Generations - 1 THEN v ELSE v + NumSlots * (n + 1)
    BY <1>2, <2>1, NextOfNth DEF EndsOne
  <2>5. past'[v] \in Seq(Tids) /\ past' = [t \in Slots |-> past'[t]]
    BY <2>1, <2>3 DEF HistoryNext, Remember
  <2>6. past' \in [Slots -> Seq(Tids)]
    BY <2>2, <2>5 DEF PastInv
  <2>7. Len(past[v])' < Generations /\ tid'[v] = v + NumSlots * Len(past'[v])
    <3>1. CASE n = Generations - 1
      <4>1. Len(past'[v]) = 0 /\ tid'[v] = v
        BY <3>1, <2>3, <2>4
      <4> QED BY <4>1 DEF Slots
    <3>2. CASE n # Generations - 1
      <4>1. Len(past'[v]) = n + 1 /\ tid'[v] = v + NumSlots * (n + 1)
        BY <3>2, <2>1, <2>3, <2>4
      <4> QED BY <3>2, <4>1, <2>1
    <3> QED BY <3>1, <3>2
  <2>8. \A i \in 1 .. Len(past'[v]) : past'[v][i] = v + NumSlots * (i - 1)
    <3>1. CASE n = Generations - 1
      BY <3>1, <2>3
    <3>2. CASE n # Generations - 1
      <4>1. past'[v] = Append(past[v], tid[v]) /\ Len(past'[v]) = n + 1
        BY <3>2, <2>1, <2>3
      <4>2. \A i \in 1 .. n : past'[v][i] = past[v][i] /\ past[v][i] = v + NumSlots * (i - 1)
        BY <4>1, <2>1 DEF PastInv
      <4>3. past'[v][n + 1] = v + NumSlots * ((n + 1) - 1)
        BY <4>1, <2>1
      <4> HIDE DEF n
      <4>4. \A i \in 1 .. n + 1 : i \in 1 .. n \/ i = n + 1
        BY <2>1
      <4> QED BY <4>1, <4>2, <4>3, <4>4
    <3> QED BY <3>1, <3>2
  <2> QED BY <2>2, <2>6, <2>7, <2>8 DEF PastInv
<1>3. [Next]_vars
  BY DEF HistoryNext
<1> QED BY <1>1, <1>2, <1>3, TidsMoveOn

LEMMA PastFindsNobody == TypeInv /\ PastInv => TidsFindTheirTask
<1> SUFFICES ASSUME TypeInv, PastInv, NEW t \in Slots
             PROVE  /\ TaskOf(tid[t]) = IF State(t) = "FREE" THEN NULL ELSE t
                    /\ \A i \in DOMAIN past[t] : TaskOf(past[t][i]) = NULL
  BY DEF TidsFindTheirTask
<1> DEFINE n == Len(past[t])
<1>1. /\ n \in Nat /\ tid[t] = t + NumSlots * n /\ DOMAIN past[t] = 1 .. n
      /\ t \in Nat /\ NumSlots \in Nat \ {0}
  BY LenProperties DEF PastInv, Slots
<1>2. \A k \in Int : (t + NumSlots * k) % NumSlots = t
  <2> TAKE k \in Int
  <2>1. t + NumSlots * k = t + k * NumSlots
    BY <1>1
  <2>2. (t + k * NumSlots) % NumSlots = t % NumSlots
    <3>1. NumSlots \in Nat \ {0} /\ t \in Int
      BY <1>1
    <3> HIDE SchedulerAssumption, KernelAssumption
    <3> QED BY <3>1, ResidueOfMultiple
  <2> QED BY <2>1, <2>2, SlotResidue
<1>3. tid[t] % NumSlots = t
  <2>1. n \in Int
    BY <1>1
  <2> QED BY <2>1, <1>1, <1>2, Zenon
<1>4. ASSUME NEW i \in 1 .. n PROVE TaskOf(past[t][i]) = NULL
  <2>1. past[t][i] = t + NumSlots * (i - 1)
    BY <1>4 DEF PastInv
  <2>2. past[t][i] % NumSlots = t
    <3>1. i - 1 \in Int
      BY <1>1
    <3> QED BY <2>1, <3>1, <1>2, Zenon
  <2>3. NumSlots * i <= NumSlots * n
    BY <1>1, Multiples
  <2>4. NumSlots * (i - 1) + NumSlots = NumSlots * i
    BY <1>1
  <2>5. NumSlots * i \in Int /\ NumSlots * n \in Int /\ NumSlots * (i - 1) \in Int
    BY <1>1
  <2>6. past[t][i] # tid[t]
    BY <1>1, <2>1, <2>3, <2>4, <2>5
  <2> QED BY <2>2, <2>6 DEF TaskOf
<1> QED BY <1>1, <1>3, <1>4 DEF TaskOf

(* TidsFindTheirTask: whatever the bank's size, the width of a tid and the habits of
   the programs, getTaskByTid finds a living task by its own tid, and nobody by a
   tid that an earlier task of a descriptor had since its tids began again.  That
   takes what destroyTaskD does to a tid, and that it is never done to a
   descriptor that is free already. *)
THEOREM TidsFindTheirTaskCorrect == HistorySpec => []TidsFindTheirTask
<1>1. HistorySpec => Spec
  <2>1. HistoryInit => Init
    BY DEF HistoryInit
  <2>2. [HistoryNext]_<<vars, past>> => [Next]_vars
    BY DEF HistoryNext
  <2> QED BY <2>1, <2>2, PTL DEF HistorySpec, Spec
<1>2. HistoryInit => PastInv /\ RunningIsActive
  <2> SUFFICES ASSUME HistoryInit PROVE PastInv /\ RunningIsActive
    OBVIOUS
  <2>1. \A t \in Slots : past[t] = <<>> /\ tid[t] = t /\ t \in Nat
    BY DEF HistoryInit, Init, Slots
  <2>2. \A t \in Slots : Len(past[t]) = 0 /\ NumSlots * 0 = 0 /\ 0 < Generations
    BY <2>1
  <2>3. past \in [Slots -> Seq(Tids)]
    BY DEF HistoryInit
  <2> QED BY <2>1, <2>2, <2>3 DEF PastInv, RunningIsActive, HistoryInit, Init
<1>3. TypeInv /\ PastInv /\ RunningIsActive /\ [HistoryNext]_<<vars, past>>
        => PastInv' /\ RunningIsActive'
  <2> SUFFICES ASSUME TypeInv, PastInv, RunningIsActive, [HistoryNext]_<<vars, past>>
               PROVE  PastInv' /\ RunningIsActive'
    OBVIOUS
  <2>1. CASE HistoryNext
    BY <2>1, PastKept, RunningIsActiveNext DEF HistoryNext
  <2>2. CASE UNCHANGED <<vars, past>>
    BY <2>2, RunningIsActiveNext DEF PastInv, vars
  <2> QED BY <2>1, <2>2
<1> QED BY <1>1, <1>2, <1>3, TypeInvariant, PastFindsNobody, PTL DEF HistorySpec

-----------------------------------------------------------------------------
(* The kernel's lists: what they hold is where the descriptors' states say.

   The mail as one value: the free list holds the envelopes that no task has, and
   the inbox of r is the list of the envelopes in box[r]. *)
Outs(m) == {m.outbox[t] : t \in Slots} \ {NULL}

FreeSound(m) ==
  /\ IsList(Envelopes, m.next, NULL, m.free, Envelopes \ Outs(m))
  /\ \A t, u \in Slots : m.outbox[t] = m.outbox[u] /\ m.outbox[t] # NULL => t = u

BoxesSound(m, v, box) ==
  /\ box \in [Slots -> SUBSET Envelopes]
  /\ \A r \in Slots : IsList(Envelopes, m.next, NULL, m.inHead[r], box[r])
  /\ \A r \in Slots \ {v} :
       IsQueue(Envelopes, m.next, NULL, m.inHead[r], m.inTail[r], box[r])

SendersSound(m, st, box) ==
  /\ \A r \in Slots : \A e \in box[r] :
       /\ m.sender[e] \in Slots /\ st[m.sender[e]] = "RECV_BL"
       /\ m.outbox[m.sender[e]] = e
  /\ \A t \in Slots : st[t] = "RECV_BL" => \E r \in Slots : m.outbox[t] \in box[r]
  /\ \A r, s \in Slots : r # s => box[r] \cap box[s] = {}

HoldersSound(m, st, res, v) ==
  \A t \in Slots :
    /\ st[t] \in {"RECV_BL", "REPL_BL"} => m.outbox[t] # NULL /\ m.sender[m.outbox[t]] = t
    /\ st[t] = "SEND_BL" => (m.outbox[t] = NULL <=> res[t] = "NO_MORE_ENVELOPES")
    /\ st[t] \notin {"RECV_BL", "REPL_BL", "SEND_BL"} /\ t # v => m.outbox[t] = NULL
    /\ st[t] = "FREE" /\ t # v => m.inHead[t] = NULL

MailWith(m, st, res, v, box) ==
  FreeSound(m) /\ BoxesSound(m, v, box) /\ SendersSound(m, st, box) /\ HoldersSound(m, st, res, v)

LEMMA NullEnvelope == NULL \notin Envelopes
BY DEF Envelopes

(* Whose envelope is in a box: a task that waits for it to be received. *)
LEMMA BoxedEnvelope ==
  ASSUME NEW m \in Mail, NEW st, NEW res, NEW v, NEW box, MailWith(m, st, res, v, box),
         NEW r \in Slots
  PROVE  /\ box[r] \subseteq Envelopes /\ box[r] \cap (Envelopes \ Outs(m)) = {}
         /\ \A t \in Slots : m.outbox[t] \in box[r] => st[t] = "RECV_BL"
<1>1. \A e \in box[r] : e \in Envelopes /\ m.sender[e] \in Slots
                        /\ st[m.sender[e]] = "RECV_BL" /\ m.outbox[m.sender[e]] = e
  BY DEF MailWith, BoxesSound, SendersSound
<1>2. \A e \in box[r] : e \in Outs(m)
  BY <1>1, NullEnvelope DEF Outs
<1>3. ASSUME NEW t \in Slots, m.outbox[t] \in box[r] PROVE st[t] = "RECV_BL"
  <2>1. m.outbox[t] # NULL /\ m.outbox[m.sender[m.outbox[t]]] = m.outbox[t]
    BY <1>1, <1>3, NullEnvelope
  <2>2. m.sender[m.outbox[t]] = t
    BY <1>1, <1>3, <2>1 DEF MailWith, FreeSound
  <2> QED BY <1>1, <1>3, <2>2
<1> QED BY <1>1, <1>2, <1>3

(* The free list: its first envelope is nobody's. *)
LEMMA FreeEnvelope ==
  ASSUME NEW m \in Mail, FreeSound(m), m.free # NULL
  PROVE  m.free \in Envelopes /\ m.free \notin Outs(m) /\ \A t \in Slots : m.outbox[t] # m.free
<1> DEFINE S == Envelopes \ Outs(m)
<1>1. IsList(Envelopes, m.next, NULL, m.free, S)
  BY DEF FreeSound
<1> HIDE DEF S
<1>2. m.free \in S
  BY <1>1, NullEnvelope, ListFacts
<1> QED BY <1>2 DEF S, Outs

(* What is neither a message nor an answer changes nothing for the mail. *)
Awake == {"READY", "ACTIVE", "EVENT_BL", "WAITTID_BL"}

LEMMA MailKeeps ==
  ASSUME NEW m \in Mail, NEW st, NEW st2, NEW res, NEW res2, NEW v, NEW box,
         MailWith(m, st, res, v, box),
         \A t \in Slots : st2[t] = st[t] \/ (st[t] \in Awake /\ st2[t] \in Awake),
         \A t \in Slots : st[t] = "SEND_BL" => res2[t] = res[t]
  PROVE  MailWith(m, st2, res2, v, box)
<1>1. \A t \in Slots : \A s \in {"RECV_BL", "REPL_BL", "SEND_BL", "FREE"} :
        st2[t] = s <=> st[t] = s
  BY DEF Awake
<1>2. SendersSound(m, st2, box)
  BY <1>1 DEF MailWith, SendersSound
<1>3. HoldersSound(m, st2, res2, v)
  BY <1>1 DEF MailWith, HoldersSound
<1> QED BY <1>2, <1>3 DEF MailWith
-----------------------------------------------------------------------------
(* sys_send, case 1. *)
LEMMA TakeOverSound ==
  ASSUME NEW m \in Mail, NEW st \in [Slots -> TaskState], NEW res, NEW v, NEW box,
         MailWith(m, st, res, v, box),
         current \in Slots, st[current] = "ACTIVE", current # v,
         NEW r \in Slots, st[r] = "SEND_BL", m.outbox[r] # NULL,
         NEW st2, st2 = [st EXCEPT ![current] = "REPL_BL", ![r] = "READY"], NEW res2,
         \A t \in Slots \ {r} : res2[t] = res[t]
  PROVE  MailWith(TakeOver(m, r), st2, res2, v, box)
<1> DEFINE n == TakeOver(m, r)
           o == m.outbox[r]
<1>1. /\ n.sender = [m.sender EXCEPT ![o] = current]
      /\ n.outbox = [m.outbox EXCEPT ![r] = NULL, ![current] = o]
      /\ n.next = m.next /\ n.free = m.free /\ n.inHead = m.inHead /\ n.inTail = m.inTail
  BY DEF TakeOver, Mail
<1>2. /\ m.sender \in [Envelopes -> SlotPtr] /\ m.outbox \in [Slots -> EnvPtr]
      /\ o \in Envelopes /\ o # NULL /\ r # current
  BY DEF Mail, EnvPtr
<1>3. m.outbox[current] = NULL
  BY DEF MailWith, HoldersSound
<1> HIDE DEF n
<1>4. /\ n.outbox[r] = NULL /\ n.outbox[current] = o /\ n.outbox[current] # NULL
      /\ \A t \in Slots : t \notin {r, current} => n.outbox[t] = m.outbox[t]
  BY <1>1, <1>2
<1> HIDE DEF o
<1>5. Outs(n) = Outs(m)
  BY <1>2, <1>3, <1>4 DEF Outs, o
<1>6. FreeSound(n)
  <2>1. ASSUME NEW t \in Slots, NEW u \in Slots, n.outbox[t] = n.outbox[u], n.outbox[t] # NULL
        PROVE  t = u
    <3>1. \A x \in Slots : m.outbox[x] = o => x = r
      BY <1>2 DEF MailWith, FreeSound, o
    <3>2. \A x, y \in Slots : m.outbox[x] = m.outbox[y] /\ m.outbox[x] # NULL => x = y
      BY DEF MailWith, FreeSound
    <3> QED BY <1>2, <1>4, <2>1, <3>1, <3>2
  <2> QED BY <1>1, <1>5, <2>1 DEF MailWith, FreeSound
<1>7. BoxesSound(n, v, box)
  BY <1>1 DEF MailWith, BoxesSound
<1>8. \A b \in Slots : o \notin box[b]
  BY BoxedEnvelope DEF o
<1>9. SendersSound(n, st2, box)
  <2>1. ASSUME NEW b \in Slots, NEW e \in box[b]
        PROVE  /\ n.sender[e] \in Slots /\ st2[n.sender[e]] = "RECV_BL"
               /\ n.outbox[n.sender[e]] = e
    <3>1. /\ m.sender[e] \in Slots /\ st[m.sender[e]] = "RECV_BL" /\ m.outbox[m.sender[e]] = e
          /\ e \in Envelopes /\ e # o
      BY <1>8 DEF MailWith, SendersSound, BoxesSound
    <3>2. n.sender[e] = m.sender[e] /\ m.sender[e] \notin {r, current}
      BY <1>1, <1>2, <3>1
    <3> QED BY <1>4, <3>1, <3>2
  <2>2. ASSUME NEW t \in Slots, st2[t] = "RECV_BL" PROVE \E b \in Slots : n.outbox[t] \in box[b]
    <3>1. st[t] = "RECV_BL" /\ t \notin {r, current}
      BY <2>2
    <3> QED BY <1>4, <3>1 DEF MailWith, SendersSound
  <2> QED BY <2>1, <2>2 DEF MailWith, SendersSound
<1>10. HoldersSound(n, st2, res2, v)
  <2> SUFFICES ASSUME NEW t \in Slots
               PROVE  /\ st2[t] \in {"RECV_BL", "REPL_BL"} =>
                           n.outbox[t] # NULL /\ n.sender[n.outbox[t]] = t
                      /\ st2[t] = "SEND_BL" => (n.outbox[t] = NULL <=> res2[t] = "NO_MORE_ENVELOPES")
                      /\ st2[t] \notin {"RECV_BL", "REPL_BL", "SEND_BL"} /\ t # v => n.outbox[t] = NULL
                      /\ st2[t] = "FREE" /\ t # v => n.inHead[t] = NULL
    BY DEF HoldersSound
  <2>1. CASE t = r
    BY <1>2, <1>4, <2>1
  <2>2. CASE t = current
    <3>1. st2[t] = "REPL_BL" /\ n.sender[o] = current
      BY <1>1, <1>2, <2>2
    <3> QED BY <1>4, <2>2, <3>1
  <2>3. CASE t \notin {r, current}
    <3>1. st2[t] = st[t] /\ n.outbox[t] = m.outbox[t] /\ res2[t] = res[t] /\ n.inHead = m.inHead
      BY <1>1, <1>4, <2>3
    <3>2. m.outbox[t] # NULL => m.outbox[t] # o /\ m.outbox[t] \in Envelopes
      BY <1>2, <2>3 DEF MailWith, FreeSound, o, EnvPtr
    <3>3. m.outbox[t] # NULL => n.sender[m.outbox[t]] = m.sender[m.outbox[t]]
      BY <1>1, <1>2, <3>2
    <3> QED BY <3>1, <3>3 DEF MailWith, HoldersSound
  <2> QED BY <2>1, <2>2, <2>3
<1> QED BY <1>6, <1>7, <1>9, <1>10 DEF MailWith, n

(* sys_send, case 2; the receiver is woken if it sleeps without an envelope. *)
LEMMA EnqueueSound ==
  ASSUME NEW m \in Mail, NEW st \in [Slots -> TaskState], NEW res, NEW v, NEW box,
         MailWith(m, st, res, v, box), m.free # NULL,
         current \in Slots, st[current] = "ACTIVE", current # v,
         NEW r \in Slots, r # current, r # v, st[r] # "FREE",
         st[r] = "SEND_BL" => m.outbox[r] = NULL,
         NEW st2, st2 = [t \in Slots |-> IF t = current THEN "RECV_BL"
                                         ELSE IF t = r /\ st[r] = "SEND_BL" THEN "READY" ELSE st[t]]
  PROVE  MailWith(Enqueue(m, r), st2, res, v, [box EXCEPT ![r] = @ \cup {m.free}])
<1> DEFINE n == Enqueue(m, r)
           e == m.free
           box2 == [box EXCEPT ![r] = @ \cup {e}]
<1>1. e \in Envelopes /\ e \notin Outs(m) /\ (\A t \in Slots : m.outbox[t] # e)
  BY FreeEnvelope DEF MailWith
<1>2. /\ m.sender \in [Envelopes -> SlotPtr] /\ m.outbox \in [Slots -> EnvPtr]
      /\ m.next \in [Envelopes -> EnvPtr]
      /\ m.inHead \in [Slots -> EnvPtr] /\ m.inTail \in [Slots -> EnvPtr]
      /\ box \in [Slots -> SUBSET Envelopes]
  BY DEF Mail, MailWith, BoxesSound
<1>3. m.outbox[current] = NULL
  BY DEF MailWith, HoldersSound
<1>4. /\ n.sender = [m.sender EXCEPT ![e] = current]
      /\ n.outbox = [m.outbox EXCEPT ![current] = e]
      /\ n.inHead = [m.inHead EXCEPT ![r] = IF @ = NULL THEN e ELSE @]
      /\ n.inTail = [m.inTail EXCEPT ![r] = e]
      /\ n.free = m.next[e]
      /\ n.next = IF m.inHead[r] # NULL /\ m.inTail[r] # NULL
                  THEN [m.next EXCEPT ![e] = NULL, ![m.inTail[r]] = e]
                  ELSE [m.next EXCEPT ![e] = NULL]
  BY DEF Enqueue, GetEnvelope, Mail
<1>5. IsQueue(Envelopes, m.next, NULL, m.inHead[r], m.inTail[r], box[r])
  BY DEF MailWith, BoxesSound
<1>6. /\ m.inHead[r] = NULL <=> m.inTail[r] = NULL
      /\ m.inTail[r] # NULL => m.inTail[r] \in box[r]
  <2>1. /\ m.inTail[r] = NULL <=> box[r] = {}
        /\ m.inTail[r] # NULL => m.inTail[r] \in box[r]
        /\ IsList(Envelopes, m.next, NULL, m.inHead[r], box[r])
    BY <1>5, NullEnvelope, QueueFacts
  <2>2. m.inHead[r] = NULL <=> box[r] = {}
    BY <2>1, NullEnvelope, ListFacts
  <2> QED BY <2>1, <2>2
<1>7. \A b \in Slots : /\ box[b] \subseteq Envelopes /\ e \notin box[b]
                       /\ box[b] \cap (Envelopes \ Outs(m)) = {}
  BY <1>1, BoxedEnvelope
<1> HIDE DEF n, e, box2
<1>8. /\ n.next[e] = NULL
      /\ m.inTail[r] # NULL => n.next[m.inTail[r]] = e
      /\ \A x \in Envelopes : x # e /\ x # m.inTail[r] => n.next[x] = m.next[x]
  <2>1. m.inTail[r] # NULL => m.inTail[r] # e /\ m.inTail[r] \in Envelopes
    BY <1>6, <1>7
  <2> QED BY <1>1, <1>2, <1>4, <1>6, <2>1
<1>9. /\ n.outbox[current] = e /\ \A t \in Slots : t # current => n.outbox[t] = m.outbox[t]
  BY <1>2, <1>4
<1>10. Outs(n) = Outs(m) \cup {e}
  BY <1>1, <1>3, <1>9, NullEnvelope DEF Outs
<1>11. FreeSound(n)
  <2> DEFINE S == Envelopes \ Outs(m)
  <2>1. IsList(Envelopes, m.next, NULL, e, S) /\ e # NULL
    BY DEF MailWith, FreeSound, e
  <2>2. \A x \in S \ {e} : n.next[x] = m.next[x]
    <3>1. m.inTail[r] \notin S
      BY <1>6, <1>7, NullEnvelope
    <3> QED BY <1>8, <3>1
  <2>3. Envelopes \ Outs(n) = S \ {e}
    BY <1>10
  <2> HIDE DEF S
  <2>4. IsList(Envelopes, n.next, NULL, m.next[e], S \ {e})
    BY <2>1, <2>2, NullEnvelope, ListPop
  <2>5. ASSUME NEW t \in Slots, NEW u \in Slots, n.outbox[t] = n.outbox[u], n.outbox[t] # NULL
        PROVE  t = u
    BY <1>1, <1>9, <2>5 DEF MailWith, FreeSound
  <2> QED BY <1>4, <2>3, <2>4, <2>5 DEF FreeSound
<1>12. BoxesSound(n, v, box2)
  <2>1. box2[r] = box[r] \cup {e} /\ \A b \in Slots : b # r => box2[b] = box[b]
    BY <1>2 DEF box2
  <2>2. box2 \in [Slots -> SUBSET Envelopes]
    BY <1>1, <1>2 DEF box2
  <2>3. IsQueue(Envelopes, n.next, NULL, n.inHead[r], n.inTail[r], box2[r])
    <3> DEFINE old == m.next
               new == n.next
               head == m.inHead[r]
               head2 == n.inHead[r]
               tail == m.inTail[r]
               S == box[r]
    <3>1. Appends(Envelopes, old, new, NULL, head, head2, tail, S, e)
      <4>1. \A x \in S \ {tail} : new[x] = old[x]
        BY <1>7, <1>8
      <4>2. head2 = IF head = NULL THEN e ELSE head
        BY <1>2, <1>4
      <4> QED BY <1>1, <1>5, <1>7, <1>8, <4>1, <4>2, NullEnvelope DEF Appends
    <3>2. n.inTail[r] = e
      BY <1>2, <1>4
    <3> HIDE DEF old, new, head, head2, tail, S
    <3>3. IsQueue(Envelopes, new, NULL, head2, e, S \cup {e})
      BY <3>1, QueueAppend
    <3> QED BY <2>1, <3>2, <3>3 DEF new, head2, S
  <2>4. ASSUME NEW b \in Slots, b # r
        PROVE  /\ IsList(Envelopes, n.next, NULL, n.inHead[b], box2[b])
               /\ b # v => IsQueue(Envelopes, n.next, NULL, n.inHead[b], n.inTail[b], box2[b])
    <3>1. \A x \in box[b] : n.next[x] = m.next[x]
      <4>1. box[b] \cap box[r] = {}
        BY <2>4 DEF MailWith, SendersSound
      <4>2. m.inTail[r] \notin box[b]
        BY <1>6, <1>7, <4>1, NullEnvelope
      <4> QED BY <1>7, <1>8, <4>2
    <3>2. n.inHead[b] = m.inHead[b] /\ n.inTail[b] = m.inTail[b] /\ box2[b] = box[b]
      BY <1>2, <1>4, <2>1, <2>4
    <3>3. IsList(Envelopes, m.next, NULL, m.inHead[b], box[b])
      BY DEF MailWith, BoxesSound
    <3>4. b # v => IsQueue(Envelopes, m.next, NULL, m.inHead[b], m.inTail[b], box[b])
      BY DEF MailWith, BoxesSound
    <3>5. IsList(Envelopes, n.next, NULL, m.inHead[b], box[b])
      BY <3>1, <3>3, ListKeeps
    <3>6. b # v => IsQueue(Envelopes, n.next, NULL, m.inHead[b], m.inTail[b], box[b])
      BY <3>1, <3>4, QueueKeeps
    <3> QED BY <3>2, <3>5, <3>6
  <2>5. IsList(Envelopes, n.next, NULL, n.inHead[r], box2[r])
    BY <2>3, NullEnvelope, QueueFacts
  <2> QED BY <2>2, <2>3, <2>4, <2>5 DEF BoxesSound
<1>13. SendersSound(n, st2, box2)
  <2>1. box2[r] = box[r] \cup {e} /\ \A b \in Slots : b # r => box2[b] = box[b]
    BY <1>2 DEF box2
  <2>2. n.sender[e] = current /\ \A x \in Envelopes : x # e => n.sender[x] = m.sender[x]
    BY <1>1, <1>2, <1>4
  <2>3. ASSUME NEW b \in Slots, NEW x \in box[b]
        PROVE  /\ n.sender[x] \in Slots /\ st2[n.sender[x]] = "RECV_BL"
               /\ n.outbox[n.sender[x]] = x
    <3>1. /\ m.sender[x] \in Slots /\ st[m.sender[x]] = "RECV_BL" /\ m.outbox[m.sender[x]] = x
          /\ x \in Envelopes /\ x # e
      BY <1>7 DEF MailWith, SendersSound
    <3>2. m.sender[x] # current
      BY <3>1
    <3> QED BY <1>9, <2>2, <3>1, <3>2
  <2>4. st2[current] = "RECV_BL" /\ n.outbox[n.sender[e]] = e
    BY <1>9, <2>2
  <2>5. ASSUME NEW t \in Slots, st2[t] = "RECV_BL" PROVE \E b \in Slots : n.outbox[t] \in box2[b]
    <3>1. CASE t = current
      BY <1>9, <2>1, <3>1
    <3>2. CASE t # current
      <4>1. st[t] = "RECV_BL" /\ n.outbox[t] = m.outbox[t]
        BY <1>9, <2>5, <3>2
      <4> QED BY <2>1, <4>1 DEF MailWith, SendersSound
    <3> QED BY <3>1, <3>2
  <2>6. ASSUME NEW a \in Slots, NEW b \in Slots, a # b PROVE box2[a] \cap box2[b] = {}
    <3>1. box[a] \cap box[b] = {}
      BY <2>6 DEF MailWith, SendersSound
    <3> QED BY <1>7, <2>1, <2>6, <3>1
  <2>7. ASSUME NEW b \in Slots, NEW x \in box2[b]
        PROVE  /\ n.sender[x] \in Slots /\ st2[n.sender[x]] = "RECV_BL"
               /\ n.outbox[n.sender[x]] = x
    <3>1. x = e \/ x \in box[b]
      BY <2>1
    <3> QED BY <2>2, <2>3, <2>4, <3>1
  <2> QED BY <2>5, <2>6, <2>7 DEF SendersSound
<1>14. HoldersSound(n, st2, res, v)
  <2> SUFFICES ASSUME NEW t \in Slots
               PROVE  /\ st2[t] \in {"RECV_BL", "REPL_BL"} =>
                           n.outbox[t] # NULL /\ n.sender[n.outbox[t]] = t
                      /\ st2[t] = "SEND_BL" => (n.outbox[t] = NULL <=> res[t] = "NO_MORE_ENVELOPES")
                      /\ st2[t] \notin {"RECV_BL", "REPL_BL", "SEND_BL"} /\ t # v => n.outbox[t] = NULL
                      /\ st2[t] = "FREE" /\ t # v => n.inHead[t] = NULL
    BY DEF HoldersSound
  <2>1. CASE t = current
    <3>1. n.sender[e] = current
      BY <1>1, <1>2, <1>4
    <3> QED BY <1>1, <1>9, <2>1, <3>1, NullEnvelope
  <2>2. CASE t = r /\ st[r] = "SEND_BL"
    BY <1>9, <2>2
  <2>3. CASE t # current /\ ~(t = r /\ st[r] = "SEND_BL")
    <3>1. st2[t] = st[t] /\ n.outbox[t] = m.outbox[t] /\ (st[t] = "FREE" => n.inHead[t] = m.inHead[t])
      BY <1>2, <1>4, <1>9, <2>3
    <3>2. m.outbox[t] # NULL => n.sender[m.outbox[t]] = m.sender[m.outbox[t]]
      BY <1>1, <1>2, <1>4 DEF EnvPtr
    <3> QED BY <3>1, <3>2 DEF MailWith, HoldersSound
  <2> QED BY <2>1, <2>2, <2>3
<1> QED BY <1>11, <1>12, <1>13, <1>14 DEF MailWith, n, box2, e

-----------------------------------------------------------------------------
(* sys_recv on an empty inbox: the caller sleeps, without an envelope if there is
   none, or with the first free one. *)
LEMMA SleepSound ==
  ASSUME NEW m \in Mail, NEW st \in [Slots -> TaskState], NEW res, NEW v, NEW box,
         MailWith(m, st, res, v, box), current \in Slots, st[current] = "ACTIVE", current # v,
         NEW st2, st2 = [st EXCEPT ![current] = "SEND_BL"],
         NEW res2, res2[current] = "NO_MORE_ENVELOPES",
         \A t \in Slots \ {current} : res2[t] = res[t]
  PROVE  MailWith(m, st2, res2, v, box)
<1>1. m.outbox[current] = NULL
  BY DEF MailWith, HoldersSound
<1>2. SendersSound(m, st2, box)
  BY DEF MailWith, SendersSound
<1>3. HoldersSound(m, st2, res2, v)
  <2> SUFFICES ASSUME NEW t \in Slots
               PROVE  /\ st2[t] \in {"RECV_BL", "REPL_BL"} =>
                           m.outbox[t] # NULL /\ m.sender[m.outbox[t]] = t
                      /\ st2[t] = "SEND_BL" => (m.outbox[t] = NULL <=> res2[t] = "NO_MORE_ENVELOPES")
                      /\ st2[t] \notin {"RECV_BL", "REPL_BL", "SEND_BL"} /\ t # v => m.outbox[t] = NULL
                      /\ st2[t] = "FREE" /\ t # v => m.inHead[t] = NULL
    BY DEF HoldersSound
  <2>1. CASE t = current
    BY <1>1, <2>1
  <2>2. CASE t # current
    BY <2>2 DEF MailWith, HoldersSound
  <2> QED BY <2>1, <2>2
<1> QED BY <1>2, <1>3 DEF MailWith

SleepingWith(m) ==
  [GetEnvelope(m) EXCEPT !.sender[m.free] = NULL, !.outbox[current] = m.free]

LEMMA SleepWithSound ==
  ASSUME NEW m \in Mail, NEW st \in [Slots -> TaskState], NEW res, NEW v, NEW box,
         MailWith(m, st, res, v, box), current \in Slots, st[current] = "ACTIVE", current # v,
         m.free # NULL,
         NEW st2, st2 = [st EXCEPT ![current] = "SEND_BL"],
         NEW res2, res2[current] # "NO_MORE_ENVELOPES",
         \A t \in Slots \ {current} : res2[t] = res[t],
         NEW n, n = SleepingWith(m)
  PROVE  MailWith(n, st2, res2, v, box)
<1> DEFINE e == m.free
<1>1. e \in Envelopes /\ e \notin Outs(m) /\ (\A t \in Slots : m.outbox[t] # e)
  BY FreeEnvelope DEF MailWith
<1>2. /\ m.sender \in [Envelopes -> SlotPtr] /\ m.outbox \in [Slots -> EnvPtr]
      /\ m.next \in [Envelopes -> EnvPtr]
  BY DEF Mail
<1>3. m.outbox[current] = NULL
  BY DEF MailWith, HoldersSound
<1>4. /\ n.sender = [m.sender EXCEPT ![e] = NULL]
      /\ n.outbox = [m.outbox EXCEPT ![current] = e]
      /\ n.inHead = m.inHead /\ n.inTail = m.inTail
      /\ n.free = m.next[e] /\ n.next = [m.next EXCEPT ![e] = NULL]
  BY DEF SleepingWith, GetEnvelope, Mail
<1> HIDE DEF e
<1>5. n.outbox[current] = e /\ \A t \in Slots : t # current => n.outbox[t] = m.outbox[t]
  BY <1>2, <1>4
<1>6. Outs(n) = Outs(m) \cup {e}
  BY <1>1, <1>3, <1>5, NullEnvelope DEF Outs
<1>7. FreeSound(n)
  <2> DEFINE S == Envelopes \ Outs(m)
  <2>1. IsList(Envelopes, m.next, NULL, e, S) /\ e # NULL
    BY DEF MailWith, FreeSound, e
  <2>2. \A x \in S \ {e} : n.next[x] = m.next[x]
    BY <1>2, <1>4
  <2>3. Envelopes \ Outs(n) = S \ {e}
    BY <1>6
  <2> HIDE DEF S
  <2>4. IsList(Envelopes, n.next, NULL, m.next[e], S \ {e})
    BY <2>1, <2>2, NullEnvelope, ListPop
  <2>5. ASSUME NEW t \in Slots, NEW u \in Slots, n.outbox[t] = n.outbox[u], n.outbox[t] # NULL
        PROVE  t = u
    BY <1>1, <1>5, <2>5 DEF MailWith, FreeSound
  <2> QED BY <1>4, <2>3, <2>4, <2>5 DEF FreeSound
<1>8. \A b \in Slots : box[b] \subseteq Envelopes /\ e \notin box[b]
  BY <1>1, BoxedEnvelope
<1>9. BoxesSound(n, v, box)
  <2>1. \A b \in Slots : \A x \in box[b] : n.next[x] = m.next[x]
    BY <1>2, <1>4, <1>8
  <2>2. ASSUME NEW b \in Slots
        PROVE  /\ IsList(Envelopes, n.next, NULL, n.inHead[b], box[b])
               /\ b # v => IsQueue(Envelopes, n.next, NULL, n.inHead[b], n.inTail[b], box[b])
    <3>1. IsList(Envelopes, m.next, NULL, m.inHead[b], box[b])
      BY DEF MailWith, BoxesSound
    <3>2. b # v => IsQueue(Envelopes, m.next, NULL, m.inHead[b], m.inTail[b], box[b])
      BY DEF MailWith, BoxesSound
    <3>3. IsList(Envelopes, n.next, NULL, m.inHead[b], box[b])
      BY <2>1, <3>1, ListKeeps
    <3>4. b # v => IsQueue(Envelopes, n.next, NULL, m.inHead[b], m.inTail[b], box[b])
      BY <2>1, <3>2, QueueKeeps
    <3> QED BY <1>4, <3>3, <3>4
  <2> QED BY <2>2 DEF MailWith, BoxesSound
<1>10. SendersSound(n, st2, box)
  <2>1. ASSUME NEW b \in Slots, NEW x \in box[b]
        PROVE  /\ n.sender[x] \in Slots /\ st2[n.sender[x]] = "RECV_BL"
               /\ n.outbox[n.sender[x]] = x
    <3>1. /\ m.sender[x] \in Slots /\ st[m.sender[x]] = "RECV_BL" /\ m.outbox[m.sender[x]] = x
          /\ x \in Envelopes /\ x # e
      BY <1>8 DEF MailWith, SendersSound
    <3>2. m.sender[x] # current /\ n.sender[x] = m.sender[x]
      BY <1>2, <1>4, <3>1
    <3> QED BY <1>5, <3>1, <3>2
  <2>2. ASSUME NEW t \in Slots, st2[t] = "RECV_BL" PROVE \E b \in Slots : n.outbox[t] \in box[b]
    <3>1. st[t] = "RECV_BL" /\ t # current
      BY <2>2
    <3> QED BY <1>5, <3>1 DEF MailWith, SendersSound
  <2> QED BY <2>1, <2>2 DEF MailWith, SendersSound
<1>11. HoldersSound(n, st2, res2, v)
  <2> SUFFICES ASSUME NEW t \in Slots
               PROVE  /\ st2[t] \in {"RECV_BL", "REPL_BL"} =>
                           n.outbox[t] # NULL /\ n.sender[n.outbox[t]] = t
                      /\ st2[t] = "SEND_BL" => (n.outbox[t] = NULL <=> res2[t] = "NO_MORE_ENVELOPES")
                      /\ st2[t] \notin {"RECV_BL", "REPL_BL", "SEND_BL"} /\ t # v => n.outbox[t] = NULL
                      /\ st2[t] = "FREE" /\ t # v => n.inHead[t] = NULL
    BY DEF HoldersSound
  <2>1. CASE t = current
    BY <1>1, <1>5, <2>1, NullEnvelope
  <2>2. CASE t # current
    <3>1. st2[t] = st[t] /\ n.outbox[t] = m.outbox[t] /\ n.inHead = m.inHead /\ res2[t] = res[t]
      BY <1>4, <1>5, <2>2
    <3>2. m.outbox[t] # NULL => n.sender[m.outbox[t]] = m.sender[m.outbox[t]]
      BY <1>1, <1>2, <1>4 DEF EnvPtr
    <3> QED BY <3>1, <3>2 DEF MailWith, HoldersSound
  <2> QED BY <2>1, <2>2
<1> QED BY <1>7, <1>9, <1>10, <1>11 DEF MailWith

LEMMA PoppedBox ==
  ASSUME NEW old, NEW new, NEW head, NEW tail, NEW S,
         IsQueue(Envelopes, old, NULL, head, tail, S), head # NULL,
         \A x \in S \ {head} : new[x] = old[x]
  PROVE  IsQueue(Envelopes, new, NULL, old[head], IF old[head] = NULL THEN NULL ELSE tail,
                 S \ {head})
<1> DEFINE tail2 == IF head = tail THEN NULL ELSE tail
<1>1. Popped(Envelopes, old, new, NULL, head, tail, tail2, S)
  BY NullEnvelope DEF Popped
<1>2. tail2 = IF head = tail THEN NULL ELSE tail
  OBVIOUS
<1> HIDE DEF tail2
<1>3. IsQueue(Envelopes, new, NULL, old[head], tail2, S \ {head})
  BY <1>1, QueuePop
<1>4. tail2 = IF old[head] = NULL THEN NULL ELSE tail
  BY <1>1, QueuePopTail
<1> QED BY <1>3, <1>4

(* Whose message is received first. *)
LEMMA FirstSender ==
  ASSUME NEW m \in Mail, NEW st, NEW res, NEW v, NEW box, MailWith(m, st, res, v, box),
         NEW c \in Slots, m.inHead[c] # NULL
  PROVE  /\ m.inHead[c] \in box[c] /\ m.inHead[c] \in Envelopes
         /\ m.sender[m.inHead[c]] \in Slots /\ st[m.sender[m.inHead[c]]] = "RECV_BL"
         /\ m.outbox[m.sender[m.inHead[c]]] = m.inHead[c]
<1> DEFINE e == m.inHead[c]
<1>1. IsList(Envelopes, m.next, NULL, e, box[c])
  BY DEF MailWith, BoxesSound
<1>2. e \in box[c]
  BY <1>1, NullEnvelope, ListFacts
<1> QED BY <1>2 DEF MailWith, SendersSound, BoxesSound

Taken(m, c, e) ==
  [m EXCEPT !.inHead[c] = m.next[e], !.next[e] = NULL,
            !.inTail[c] = IF m.next[e] = NULL THEN NULL ELSE @]

(* sys_recv of the first message: its sender waits for the answer now. *)
LEMMA TakeSound ==
  ASSUME NEW m \in Mail, NEW st \in [Slots -> TaskState], NEW res, NEW v, NEW box,
         MailWith(m, st, res, v, box), NEW c \in Slots, c # v, NEW e, e = m.inHead[c], e # NULL,
         NEW st2, st2 = [st EXCEPT ![m.sender[e]] = "REPL_BL"],
         NEW n, n = Taken(m, c, e)
  PROVE  /\ MailWith(n, st2, res, v, [box EXCEPT ![c] = @ \ {e}])
         /\ e \in Envelopes /\ m.sender[e] \in Slots /\ st[m.sender[e]] = "RECV_BL"
<1> DEFINE box2 == [box EXCEPT ![c] = @ \ {e}]
           s == m.sender[e]
<1>1. /\ m.sender \in [Envelopes -> SlotPtr] /\ m.outbox \in [Slots -> EnvPtr]
      /\ m.next \in [Envelopes -> EnvPtr]
      /\ m.inHead \in [Slots -> EnvPtr] /\ m.inTail \in [Slots -> EnvPtr]
      /\ box \in [Slots -> SUBSET Envelopes]
  BY DEF Mail, MailWith, BoxesSound
<1>2. IsQueue(Envelopes, m.next, NULL, e, m.inTail[c], box[c])
  BY DEF MailWith, BoxesSound
<1>3. e \in box[c]
  <2>1. IsList(Envelopes, m.next, NULL, e, box[c])
    BY DEF MailWith, BoxesSound
  <2> QED BY <2>1, NullEnvelope, ListFacts
<1>4. e \in Envelopes /\ s \in Slots /\ st[s] = "RECV_BL" /\ m.outbox[s] = e
  <2>1. e \in Envelopes
    BY <1>1, <1>3
  <2> QED BY <1>3, <2>1 DEF MailWith, SendersSound
<1>5. /\ n.sender = m.sender /\ n.outbox = m.outbox /\ n.free = m.free
      /\ n.inHead = [m.inHead EXCEPT ![c] = m.next[e]]
      /\ n.inTail = [m.inTail EXCEPT ![c] = IF m.next[e] = NULL THEN NULL ELSE @]
      /\ n.next = [m.next EXCEPT ![e] = NULL]
  BY DEF Mail, Taken
<1>6. \A b \in Slots : box[b] \subseteq Envelopes /\ box[b] \cap (Envelopes \ Outs(m)) = {}
  BY BoxedEnvelope
<1>7. \A b \in Slots : b # c => e \notin box[b]
  BY <1>3 DEF MailWith, SendersSound
<1>8. box2[c] = box[c] \ {e} /\ \A b \in Slots : b # c => box2[b] = box[b]
  BY <1>1
<1>9. box2 \in [Slots -> SUBSET Envelopes]
  BY <1>1
<1> HIDE DEF box2, s
<1>10. FreeSound(n)
  <2> DEFINE S == Envelopes \ Outs(m)
  <2>1. IsList(Envelopes, m.next, NULL, m.free, S)
    BY DEF MailWith, FreeSound
  <2>2. \A x \in S : n.next[x] = m.next[x]
    BY <1>1, <1>3, <1>5, <1>6
  <2>3. Envelopes \ Outs(n) = S
    BY <1>5 DEF Outs
  <2> HIDE DEF S
  <2>4. IsList(Envelopes, n.next, NULL, m.free, S)
    BY <2>1, <2>2, ListKeeps
  <2>5. \A t, u \in Slots : n.outbox[t] = n.outbox[u] /\ n.outbox[t] # NULL => t = u
    BY <1>5 DEF MailWith, FreeSound
  <2> QED BY <1>5, <2>3, <2>4, <2>5 DEF FreeSound
<1>11. BoxesSound(n, v, box2)
  <2>1. IsQueue(Envelopes, n.next, NULL, n.inHead[c], n.inTail[c], box2[c])
    <3> DEFINE old == m.next
               new == n.next
               tail == m.inTail[c]
               S == box[c]
    <3>1. IsQueue(Envelopes, old, NULL, e, tail, S) /\ \A x \in S \ {e} : new[x] = old[x]
      BY <1>1, <1>2, <1>5, <1>6
    <3>2. /\ n.inHead[c] = old[e] /\ n.inTail[c] = (IF old[e] = NULL THEN NULL ELSE tail)
          /\ box2[c] = S \ {e}
      BY <1>1, <1>5, <1>8
    <3> HIDE DEF S, old, new, tail
    <3>3. IsQueue(Envelopes, new, NULL, old[e], IF old[e] = NULL THEN NULL ELSE tail, S \ {e})
      BY <3>1, PoppedBox
    <3> QED BY <3>2, <3>3 DEF new
  <2>2. ASSUME NEW b \in Slots, b # c
        PROVE  /\ IsList(Envelopes, n.next, NULL, n.inHead[b], box2[b])
               /\ b # v => IsQueue(Envelopes, n.next, NULL, n.inHead[b], n.inTail[b], box2[b])
    <3>1. \A x \in box[b] : n.next[x] = m.next[x]
      BY <1>1, <1>5, <1>6, <1>7, <2>2
    <3>2. n.inHead[b] = m.inHead[b] /\ n.inTail[b] = m.inTail[b] /\ box2[b] = box[b]
      BY <1>1, <1>5, <1>8, <2>2
    <3>3. IsList(Envelopes, m.next, NULL, m.inHead[b], box[b])
      BY DEF MailWith, BoxesSound
    <3>4. b # v => IsQueue(Envelopes, m.next, NULL, m.inHead[b], m.inTail[b], box[b])
      BY DEF MailWith, BoxesSound
    <3>5. IsList(Envelopes, n.next, NULL, m.inHead[b], box[b])
      BY <3>1, <3>3, ListKeeps
    <3>6. b # v => IsQueue(Envelopes, n.next, NULL, m.inHead[b], m.inTail[b], box[b])
      BY <3>1, <3>4, QueueKeeps
    <3> QED BY <3>2, <3>5, <3>6
  <2>3. IsList(Envelopes, n.next, NULL, n.inHead[c], box2[c])
    BY <2>1, NullEnvelope, QueueFacts
  <2> QED BY <1>9, <2>1, <2>2, <2>3 DEF BoxesSound
<1>12. SendersSound(n, st2, box2)
  <2>1. ASSUME NEW b \in Slots, NEW x \in box2[b]
        PROVE  /\ n.sender[x] \in Slots /\ st2[n.sender[x]] = "RECV_BL"
               /\ n.outbox[n.sender[x]] = x
    <3>1. x \in box[b] /\ x # e
      BY <1>7, <1>8
    <3>2. m.sender[x] \in Slots /\ st[m.sender[x]] = "RECV_BL" /\ m.outbox[m.sender[x]] = x
      BY <3>1 DEF MailWith, SendersSound
    <3>3. m.sender[x] # s
      BY <1>4, <3>1, <3>2
    <3> QED BY <1>5, <3>2, <3>3 DEF s
  <2>2. ASSUME NEW t \in Slots, st2[t] = "RECV_BL" PROVE \E b \in Slots : n.outbox[t] \in box2[b]
    <3>1. st[t] = "RECV_BL" /\ t # s
      BY <1>4, <2>2 DEF s
    <3>2. PICK b \in Slots : m.outbox[t] \in box[b]
      BY <3>1 DEF MailWith, SendersSound
    <3>3. m.outbox[t] # e
      BY <1>4, <3>1, NullEnvelope DEF MailWith, FreeSound
    <3> QED BY <1>5, <1>8, <3>2, <3>3
  <2>3. ASSUME NEW a \in Slots, NEW b \in Slots, a # b PROVE box2[a] \cap box2[b] = {}
    <3>1. box[a] \cap box[b] = {}
      BY <2>3 DEF MailWith, SendersSound
    <3> QED BY <1>8, <3>1
  <2> QED BY <2>1, <2>2, <2>3 DEF SendersSound
<1>13. HoldersSound(n, st2, res, v)
  <2> SUFFICES ASSUME NEW t \in Slots
               PROVE  /\ st2[t] \in {"RECV_BL", "REPL_BL"} =>
                           n.outbox[t] # NULL /\ n.sender[n.outbox[t]] = t
                      /\ st2[t] = "SEND_BL" => (n.outbox[t] = NULL <=> res[t] = "NO_MORE_ENVELOPES")
                      /\ st2[t] \notin {"RECV_BL", "REPL_BL", "SEND_BL"} /\ t # v => n.outbox[t] = NULL
                      /\ st2[t] = "FREE" /\ t # v => n.inHead[t] = NULL
    BY DEF HoldersSound
  <2>1. CASE t = s
    BY <1>4, <1>5, <2>1, NullEnvelope DEF s
  <2>2. CASE t # s
    <3>1. st2[t] = st[t]
      BY <2>2 DEF s
    <3>2. n.inHead[t] = m.inHead[t] \/ t = c
      BY <1>1, <1>5
    <3>3. m.inHead[c] # NULL
      OBVIOUS
    <3> QED BY <1>5, <3>1, <3>2, <3>3 DEF MailWith, HoldersSound
  <2> QED BY <2>1, <2>2
<1> QED BY <1>4, <1>10, <1>11, <1>12, <1>13 DEF MailWith, box2, s

-----------------------------------------------------------------------------
(* An envelope goes back to the free list; the task that had it has none. *)
Released(m, n, t, e) ==
  /\ t \in Slots /\ e = m.outbox[t] /\ e # NULL
  /\ n.next = [m.next EXCEPT ![e] = m.free] /\ n.free = e
  /\ n.outbox = [m.outbox EXCEPT ![t] = NULL] /\ n.sender = m.sender

LEMMA ReleasedFree ==
  ASSUME NEW m \in Mail, FreeSound(m), NEW n, NEW t, NEW e, Released(m, n, t, e)
  PROVE  FreeSound(n) /\ e \in Envelopes
<1> USE DEF Released
<1> DEFINE S == Envelopes \ Outs(m)
<1>1. /\ m.outbox \in [Slots -> EnvPtr] /\ m.next \in [Envelopes -> EnvPtr]
      /\ e \in Envelopes /\ e \in Outs(m)
  BY DEF Mail, EnvPtr, Outs
<1>2. IsList(Envelopes, m.next, NULL, m.free, S)
  BY DEF FreeSound
<1>3. /\ n.outbox[t] = NULL /\ \A u \in Slots : u # t => n.outbox[u] = m.outbox[u]
  BY <1>1
<1>4. \A u, x \in Slots : m.outbox[u] = m.outbox[x] /\ m.outbox[u] # NULL => u = x
  BY DEF FreeSound
<1>5. Outs(n) = Outs(m) \ {e}
  BY <1>1, <1>3, <1>4 DEF Outs
<1>6. Envelopes \ Outs(n) = S \cup {e} /\ e \notin S
  BY <1>1, <1>5
<1>7. n.next[e] = m.free /\ \A x \in S : n.next[x] = m.next[x]
  BY <1>1
<1> HIDE DEF S
<1>8. IsList(Envelopes, n.next, NULL, e, S \cup {e})
  BY <1>1, <1>2, <1>6, <1>7, NullEnvelope, ListPush
<1>9. \A u, x \in Slots : n.outbox[u] = n.outbox[x] /\ n.outbox[u] # NULL => u = x
  BY <1>3, <1>4
<1> QED BY <1>1, <1>6, <1>8, <1>9 DEF FreeSound

(* A box whose envelopes' links stay as they are. *)
SameBox(m, n, b, S) ==
  /\ \A x \in S : n.next[x] = m.next[x]
  /\ n.inHead[b] = m.inHead[b] /\ n.inTail[b] = m.inTail[b]

BoxSound(n, v, b, S) ==
  /\ IsList(Envelopes, n.next, NULL, n.inHead[b], S)
  /\ b # v => IsQueue(Envelopes, n.next, NULL, n.inHead[b], n.inTail[b], S)

LEMMA BoxKeeps ==
  ASSUME NEW m, NEW n, NEW v, NEW box, BoxesSound(m, v, box), NEW b \in Slots,
         SameBox(m, n, b, box[b])
  PROVE  BoxSound(n, v, b, box[b])
<1> USE DEF SameBox, BoxSound
<1>1. IsList(Envelopes, m.next, NULL, m.inHead[b], box[b])
  BY DEF BoxesSound
<1>2. b # v => IsQueue(Envelopes, m.next, NULL, m.inHead[b], m.inTail[b], box[b])
  BY DEF BoxesSound
<1>3. IsList(Envelopes, n.next, NULL, m.inHead[b], box[b])
  BY <1>1, ListKeeps
<1>4. b # v => IsQueue(Envelopes, n.next, NULL, m.inHead[b], m.inTail[b], box[b])
  BY <1>2, QueueKeeps
<1> QED BY <1>3, <1>4

(* sys_reply. *)
LEMMA ReplySound ==
  ASSUME NEW m \in Mail, NEW st \in [Slots -> TaskState], NEW res, NEW v, NEW box,
         MailWith(m, st, res, v, box),
         NEW t \in Slots, st[t] = "REPL_BL", m.outbox[t] # NULL,
         NEW st2, st2 = [st EXCEPT ![t] = "READY"], NEW res2,
         \A u \in Slots \ {t} : res2[u] = res[u],
         NEW n, n = [ReleaseEnvelope(m, m.outbox[t]) EXCEPT !.outbox[t] = NULL]
  PROVE  MailWith(n, st2, res2, v, box)
<1> DEFINE e == m.outbox[t]
<1>1. Released(m, n, t, e) /\ n.inHead = m.inHead /\ n.inTail = m.inTail
  BY DEF Released, ReleaseEnvelope, Mail
<1>2. FreeSound(n) /\ e \in Envelopes
  BY <1>1, ReleasedFree DEF MailWith
<1>3. /\ m.next \in [Envelopes -> EnvPtr] /\ m.outbox \in [Slots -> EnvPtr]
  BY DEF Mail
<1>4. \A b \in Slots : box[b] \subseteq Envelopes /\ e \notin box[b]
  BY BoxedEnvelope
<1> HIDE DEF e
<1>5. \A u \in Slots : u # t => n.outbox[u] = m.outbox[u]
  BY <1>1, <1>3 DEF Released
<1>6. BoxesSound(n, v, box)
  <2>1. ASSUME NEW b \in Slots PROVE BoxSound(n, v, b, box[b])
    <3>1. SameBox(m, n, b, box[b])
      BY <1>1, <1>3, <1>4 DEF Released, SameBox
    <3> QED BY <3>1, BoxKeeps DEF MailWith
  <2> QED BY <2>1 DEF MailWith, BoxesSound, BoxSound
<1>7. SendersSound(n, st2, box)
  <2>1. ASSUME NEW b \in Slots, NEW x \in box[b]
        PROVE  /\ n.sender[x] \in Slots /\ st2[n.sender[x]] = "RECV_BL"
               /\ n.outbox[n.sender[x]] = x
    <3>1. m.sender[x] \in Slots /\ st[m.sender[x]] = "RECV_BL" /\ m.outbox[m.sender[x]] = x
      BY DEF MailWith, SendersSound
    <3>2. m.sender[x] # t /\ n.sender = m.sender
      BY <1>1, <3>1 DEF Released
    <3> QED BY <1>5, <3>1, <3>2
  <2>2. ASSUME NEW u \in Slots, st2[u] = "RECV_BL" PROVE \E b \in Slots : n.outbox[u] \in box[b]
    <3>1. st[u] = "RECV_BL" /\ u # t
      BY <2>2
    <3> QED BY <1>5, <3>1 DEF MailWith, SendersSound
  <2> QED BY <2>1, <2>2 DEF MailWith, SendersSound
<1>8. HoldersSound(n, st2, res2, v)
  <2> SUFFICES ASSUME NEW u \in Slots
               PROVE  /\ st2[u] \in {"RECV_BL", "REPL_BL"} =>
                           n.outbox[u] # NULL /\ n.sender[n.outbox[u]] = u
                      /\ st2[u] = "SEND_BL" => (n.outbox[u] = NULL <=> res2[u] = "NO_MORE_ENVELOPES")
                      /\ st2[u] \notin {"RECV_BL", "REPL_BL", "SEND_BL"} /\ u # v => n.outbox[u] = NULL
                      /\ st2[u] = "FREE" /\ u # v => n.inHead[u] = NULL
    BY DEF HoldersSound
  <2>1. CASE u = t
    BY <1>1, <1>3, <2>1 DEF Released
  <2>2. CASE u # t
    <3>1. st2[u] = st[u] /\ n.outbox[u] = m.outbox[u] /\ res2[u] = res[u]
          /\ n.inHead = m.inHead /\ n.sender = m.sender
      BY <1>1, <1>5, <2>2 DEF Released
    <3> QED BY <3>1 DEF MailWith, HoldersSound
  <2> QED BY <2>1, <2>2
<1> QED BY <1>2, <1>6, <1>7, <1>8 DEF MailWith


(* One turn of destroyTaskD's loop over the victim's inbox. *)
Drained(m, v, e, t) ==
  [ReleaseEnvelope(m, e) EXCEPT !.inHead[v] = m.next[e], !.outbox[t] = NULL]

Turn(m, st, st2, res, res2, v, e, t) ==
  /\ st[v] = "FREE" /\ e = m.inHead[v] /\ e # NULL /\ t = m.sender[e]
  /\ st2 = [st EXCEPT ![t] = "READY"] /\ \A u \in Slots \ {t} : res2[u] = res[u]

LEMMA DrainSound ==
  ASSUME NEW m \in Mail, NEW st \in [Slots -> TaskState], NEW res, NEW v \in Slots, NEW box,
         MailWith(m, st, res, v, box), NEW e, NEW t, NEW st2, NEW res2,
         Turn(m, st, st2, res, res2, v, e, t), NEW n, n = Drained(m, v, e, t)
  PROVE  /\ MailWith(n, st2, res2, v, [box EXCEPT ![v] = @ \ {e}])
         /\ e \in Envelopes /\ t \in Slots /\ st[t] = "RECV_BL"
<1> DEFINE box2 == [box EXCEPT ![v] = @ \ {e}]
<1>0. st[v] = "FREE" /\ e = m.inHead[v] /\ e # NULL /\ t = m.sender[e]
  BY DEF Turn
<1>1. /\ m.sender \in [Envelopes -> SlotPtr] /\ m.outbox \in [Slots -> EnvPtr]
      /\ m.next \in [Envelopes -> EnvPtr]
      /\ m.inHead \in [Slots -> EnvPtr] /\ m.inTail \in [Slots -> EnvPtr]
      /\ box \in [Slots -> SUBSET Envelopes]
  BY DEF Mail, MailWith, BoxesSound
<1>2. IsList(Envelopes, m.next, NULL, e, box[v])
  BY <1>0 DEF MailWith, BoxesSound
<1>3. e \in box[v]
  BY <1>0, <1>2, NullEnvelope, ListFacts
<1>4. e \in Envelopes /\ t \in Slots /\ st[t] = "RECV_BL" /\ m.outbox[t] = e /\ t # v
  <2>1. e \in Envelopes
    BY <1>1, <1>3
  <2>2. t \in Slots /\ st[t] = "RECV_BL" /\ m.outbox[t] = e
    BY <1>0, <1>3 DEF MailWith, SendersSound
  <2> QED BY <1>0, <2>1, <2>2
<1>5. /\ n.inTail = m.inTail /\ n.inHead = [m.inHead EXCEPT ![v] = m.next[e]]
      /\ n.next = [m.next EXCEPT ![e] = m.free] /\ n.free = e
      /\ n.outbox = [m.outbox EXCEPT ![t] = NULL] /\ n.sender = m.sender
  BY DEF Mail, Drained, ReleaseEnvelope
<1>6. /\ \A b \in Slots : box[b] \subseteq Envelopes
      /\ n.next[e] = m.free /\ \A x \in Envelopes : x # e => n.next[x] = m.next[x]
  BY <1>1, <1>4, <1>5
<1>7. \A b \in Slots : b # v => e \notin box[b]
  BY <1>3 DEF MailWith, SendersSound
<1>8. box2[v] = box[v] \ {e} /\ \A b \in Slots : b # v => box2[b] = box[b]
  BY <1>1
<1>9. box2 \in [Slots -> SUBSET Envelopes]
  BY <1>1
<1> HIDE DEF box2
<1>10. FreeSound(n)
  <2>1. Released(m, n, t, e)
    BY <1>0, <1>4, <1>5 DEF Released
  <2> QED BY <2>1, ReleasedFree DEF MailWith
<1>11. n.outbox[t] = NULL /\ \A u \in Slots : u # t => n.outbox[u] = m.outbox[u]
  BY <1>1, <1>4, <1>5
<1>12. st2[t] = "READY" /\ \A u \in Slots : u # t => st2[u] = st[u] /\ res2[u] = res[u]
  BY <1>4 DEF Turn
<1>13. BoxesSound(n, v, box2)
  <2>1. IsList(Envelopes, n.next, NULL, n.inHead[v], box2[v])
    <3> DEFINE old == m.next
               new == n.next
               S == box[v]
    <3>1. \A x \in S \ {e} : new[x] = old[x]
      BY <1>6
    <3>2. n.inHead[v] = old[e] /\ box2[v] = S \ {e} /\ IsList(Envelopes, old, NULL, e, S)
      BY <1>1, <1>2, <1>5, <1>8
    <3> HIDE DEF S, old, new
    <3>3. IsList(Envelopes, new, NULL, old[e], S \ {e})
      BY <1>0, <3>1, <3>2, NullEnvelope, ListPop
    <3> QED BY <3>2, <3>3 DEF new
  <2>2. ASSUME NEW b \in Slots, b # v PROVE BoxSound(n, v, b, box2[b])
    <3>1. SameBox(m, n, b, box[b])
      <4>1. \A x \in box[b] : n.next[x] = m.next[x]
        BY <1>6, <1>7, <2>2
      <4>2. n.inHead[b] = m.inHead[b] /\ n.inTail[b] = m.inTail[b]
        BY <1>1, <1>5, <2>2
      <4> QED BY <4>1, <4>2 DEF SameBox
    <3> QED BY <1>8, <2>2, <3>1, BoxKeeps DEF MailWith
  <2> QED BY <1>9, <2>1, <2>2 DEF BoxesSound, BoxSound
<1>14. SendersSound(n, st2, box2)
  <2>1. ASSUME NEW b \in Slots, NEW x \in box2[b]
        PROVE  /\ n.sender[x] \in Slots /\ st2[n.sender[x]] = "RECV_BL"
               /\ n.outbox[n.sender[x]] = x
    <3>1. x \in box[b] /\ x # e
      BY <1>7, <1>8
    <3>2. m.sender[x] \in Slots /\ st[m.sender[x]] = "RECV_BL" /\ m.outbox[m.sender[x]] = x
      BY <3>1 DEF MailWith, SendersSound
    <3>3. m.sender[x] # t
      BY <1>4, <3>1, <3>2
    <3>4. n.sender = m.sender
      BY <1>5
    <3> QED BY <1>11, <1>12, <3>2, <3>3, <3>4
  <2>2. ASSUME NEW u \in Slots, st2[u] = "RECV_BL" PROVE \E b \in Slots : n.outbox[u] \in box2[b]
    <3>1. st[u] = "RECV_BL" /\ u # t
      BY <1>12, <2>2
    <3>2. PICK b \in Slots : m.outbox[u] \in box[b]
      BY <3>1 DEF MailWith, SendersSound
    <3>3. m.outbox[u] # e
      BY <1>4, <3>1, NullEnvelope DEF MailWith, FreeSound
    <3>4. n.outbox[u] = m.outbox[u]
      BY <1>11, <3>1
    <3>5. m.outbox[u] \in box2[b]
      BY <1>8, <3>2, <3>3
    <3> QED BY <3>4, <3>5
  <2>3. ASSUME NEW a \in Slots, NEW b \in Slots, a # b PROVE box2[a] \cap box2[b] = {}
    <3>1. box[a] \cap box[b] = {}
      BY <2>3 DEF MailWith, SendersSound
    <3> QED BY <1>8, <3>1
  <2> QED BY <2>1, <2>2, <2>3 DEF SendersSound
<1>15. HoldersSound(n, st2, res2, v)
  <2> SUFFICES ASSUME NEW u \in Slots
               PROVE  /\ st2[u] \in {"RECV_BL", "REPL_BL"} =>
                           n.outbox[u] # NULL /\ n.sender[n.outbox[u]] = u
                      /\ st2[u] = "SEND_BL" => (n.outbox[u] = NULL <=> res2[u] = "NO_MORE_ENVELOPES")
                      /\ st2[u] \notin {"RECV_BL", "REPL_BL", "SEND_BL"} /\ u # v => n.outbox[u] = NULL
                      /\ st2[u] = "FREE" /\ u # v => n.inHead[u] = NULL
    BY DEF HoldersSound
  <2>1. CASE u = t
    BY <1>11, <1>12, <2>1
  <2>2. CASE u # t
    <3>1. st2[u] = st[u] /\ n.outbox[u] = m.outbox[u] /\ res2[u] = res[u]
          /\ n.sender = m.sender /\ (u # v => n.inHead[u] = m.inHead[u])
      <4>1. u # v => n.inHead[u] = m.inHead[u]
        BY <1>1, <1>5
      <4> QED BY <1>5, <1>11, <1>12, <2>2, <4>1
    <3> QED BY <3>1 DEF MailWith, HoldersSound
  <2> QED BY <2>1, <2>2
<1> QED BY <1>4, <1>10, <1>13, <1>14, <1>15 DEF MailWith, box2

(* The end of destroyTaskD: the victim's own envelope. *)
Finished(m, v) ==
  [(IF m.outbox[v] = NULL THEN m ELSE ReleaseEnvelope(m, m.outbox[v]))
     EXCEPT !.inTail[v] = NULL, !.outbox[v] = NULL]

LEMMA FinishSound ==
  ASSUME NEW m \in Mail, NEW st \in [Slots -> TaskState], NEW res, NEW v \in Slots, NEW box,
         MailWith(m, st, res, v, box), st[v] = "FREE", m.inHead[v] = NULL,
         NEW n, n = Finished(m, v)
  PROVE  MailWith(n, st, res, NULL, box)
<1> DEFINE e == m.outbox[v]
<1>1. /\ m.outbox \in [Slots -> EnvPtr] /\ m.next \in [Envelopes -> EnvPtr]
      /\ m.inTail \in [Slots -> EnvPtr] /\ box \in [Slots -> SUBSET Envelopes]
  BY DEF Mail, MailWith, BoxesSound
<1>2. /\ n.inHead = m.inHead /\ n.inTail = [m.inTail EXCEPT ![v] = NULL]
      /\ n.sender = m.sender /\ n.outbox = [m.outbox EXCEPT ![v] = NULL]
      /\ e = NULL => n.next = m.next /\ n.free = m.free
      /\ e # NULL => n.next = [m.next EXCEPT ![e] = m.free] /\ n.free = e
  BY DEF Mail, Finished, ReleaseEnvelope
<1>3. FreeSound(n)
  <2>1. CASE e # NULL
    <3>1. Released(m, n, v, e) /\ FreeSound(m)
      BY <1>2, <2>1 DEF Released, MailWith
    <3> HIDE DEF e
    <3> QED BY <3>1, ReleasedFree
  <2>2. CASE e = NULL
    <3>1. n.outbox = m.outbox /\ n.next = m.next /\ n.free = m.free
      BY <1>1, <1>2, <2>2
    <3>2. Outs(n) = Outs(m)
      BY <3>1 DEF Outs
    <3> QED BY <3>1, <3>2 DEF MailWith, FreeSound
  <2> QED BY <2>1, <2>2
<1>4. \A b \in Slots : e \notin box[b] /\ box[b] \subseteq Envelopes
  BY BoxedEnvelope
<1>5. \A b \in Slots : \A x \in box[b] : n.next[x] = m.next[x]
  BY <1>1, <1>2, <1>4
<1> HIDE DEF e
<1>6. box[v] = {}
  <2>1. IsList(Envelopes, m.next, NULL, m.inHead[v], box[v])
    BY DEF MailWith, BoxesSound
  <2> QED BY <2>1, NullEnvelope, ListFacts
<1>7. BoxesSound(n, NULL, box)
  <2>1. ASSUME NEW b \in Slots, b # v PROVE BoxSound(n, v, b, box[b])
    <3>1. SameBox(m, n, b, box[b])
      BY <1>1, <1>2, <1>5, <2>1 DEF SameBox
    <3> QED BY <3>1, BoxKeeps DEF MailWith
  <2>2. IsQueue(Envelopes, n.next, NULL, n.inHead[v], n.inTail[v], box[v])
    BY <1>1, <1>2, <1>6, EmptyQueue
  <2>3. IsList(Envelopes, n.next, NULL, n.inHead[v], box[v])
    BY <2>2, NullEnvelope, QueueFacts
  <2> QED BY <1>1, <2>1, <2>2, <2>3 DEF BoxesSound, BoxSound
<1>8. \A u \in Slots : u # v => n.outbox[u] = m.outbox[u]
  BY <1>1, <1>2
<1>9. SendersSound(n, st, box)
  BY <1>2, <1>8 DEF MailWith, SendersSound
<1>10. HoldersSound(n, st, res, NULL)
  <2> SUFFICES ASSUME NEW u \in Slots
               PROVE  /\ st[u] \in {"RECV_BL", "REPL_BL"} =>
                           n.outbox[u] # NULL /\ n.sender[n.outbox[u]] = u
                      /\ st[u] = "SEND_BL" => (n.outbox[u] = NULL <=> res[u] = "NO_MORE_ENVELOPES")
                      /\ st[u] \notin {"RECV_BL", "REPL_BL", "SEND_BL"} => n.outbox[u] = NULL
                      /\ st[u] = "FREE" => n.inHead[u] = NULL
    BY DEF HoldersSound
  <2>1. CASE u = v
    BY <1>1, <1>2, <2>1
  <2>2. CASE u # v
    BY <1>2, <1>8, <2>2 DEF MailWith, HoldersSound
  <2> QED BY <2>1, <2>2
<1> QED BY <1>3, <1>7, <1>9, <1>10 DEF MailWith

(* destroyTaskD up to that loop: no envelope moves yet. *)
Destroyed(st, st2, res, res2, v) ==
  /\ st[v] # "RECV_BL" /\ st2[v] = "FREE"
  /\ \A t \in Slots \ {v} :
       /\ st2[t] = st[t] \/ (st[t] \in Awake /\ st2[t] \in Awake)
       /\ st[t] = "SEND_BL" => res2[t] = res[t]

LEMMA BeginSound ==
  ASSUME NEW m \in Mail, NEW st, NEW res, NEW v \in Slots, NEW box,
         MailWith(m, st, res, NULL, box), NEW st2, NEW res2, Destroyed(st, st2, res, res2, v)
  PROVE  MailWith(m, st2, res2, v, box)
<1> USE DEF Destroyed
<1>1. \A t \in Slots \ {v} : \A s \in {"RECV_BL", "REPL_BL", "SEND_BL", "FREE"} :
        st2[t] = s <=> st[t] = s
  BY DEF Awake
<1>2. BoxesSound(m, v, box)
  <2>1. NULL \notin Slots
    BY NoNull
  <2> QED BY <2>1 DEF MailWith, BoxesSound
<1>3. SendersSound(m, st2, box)
  BY <1>1 DEF MailWith, SendersSound
<1>4. HoldersSound(m, st2, res2, v)
  <2>1. \A t \in Slots : t # NULL
    BY NoNull
  <2> QED BY <1>1, <2>1 DEF MailWith, HoldersSound
<1> QED BY <1>2, <1>3, <1>4 DEF MailWith

Emptied(m, b) == [m EXCEPT !.inHead[b] = NULL, !.inTail[b] = NULL, !.outbox[b] = NULL]

(* createTaskD: a descriptor from the bank has no mail to forget. *)
LEMMA CreateSound ==
  ASSUME NEW m \in Mail, NEW st \in [Slots -> TaskState], NEW res, NEW box,
         MailWith(m, st, res, NULL, box), NEW b \in Slots, st[b] = "FREE",
         NEW st2, st2 = [st EXCEPT ![b] = "READY"],
         NEW n, n = Emptied(m, b)
  PROVE  MailWith(n, st2, res, NULL, box)
<1>1. b # NULL
  BY NoNull
<1>2. m.outbox[b] = NULL /\ m.inHead[b] = NULL
  BY <1>1 DEF MailWith, HoldersSound
<1>3. m.inTail[b] = NULL
  <2>1. IsQueue(Envelopes, m.next, NULL, m.inHead[b], m.inTail[b], box[b])
    BY <1>1 DEF MailWith, BoxesSound
  <2>2. IsList(Envelopes, m.next, NULL, m.inHead[b], box[b])
    BY DEF MailWith, BoxesSound
  <2>3. m.inHead[b] = NULL <=> box[b] = {}
    BY <2>2, NullEnvelope, ListFacts
  <2>4. m.inTail[b] = NULL <=> box[b] = {}
    BY <2>1, NullEnvelope, QueueFacts
  <2> QED BY <1>2, <2>3, <2>4
<1>4. n = m
  <2>1. /\ [m.inHead EXCEPT ![b] = NULL] = m.inHead
        /\ [m.inTail EXCEPT ![b] = NULL] = m.inTail
        /\ [m.outbox EXCEPT ![b] = NULL] = m.outbox
    BY <1>2, <1>3 DEF Mail
  <2>2. n = [sender |-> m.sender, next |-> m.next, free |-> m.free,
             inHead |-> [m.inHead EXCEPT ![b] = NULL],
             inTail |-> [m.inTail EXCEPT ![b] = NULL],
             outbox |-> [m.outbox EXCEPT ![b] = NULL]]
    BY DEF Mail, Emptied
  <2>3. m = [sender |-> m.sender, next |-> m.next, free |-> m.free,
             inHead |-> m.inHead, inTail |-> m.inTail, outbox |-> m.outbox]
    BY DEF Mail
  <2> QED BY <2>1, <2>2, <2>3
<1>5. SendersSound(m, st2, box)
  BY DEF MailWith, SendersSound
<1>6. HoldersSound(m, st2, res, NULL)
  BY <1>2 DEF MailWith, HoldersSound
<1> QED BY <1>4, <1>5, <1>6 DEF MailWith

-----------------------------------------------------------------------------
(* The kernel as a whole.  What it promises of its lists needs two habits of the
   programs, as its checks do: a child is destroyed only in the states that
   destroyTaskD clears up after, and a task that was waited for is not waited for
   again, nor its descriptor reused. *)
CleanHabits ==
  /\ DestroyStates \subseteq {"READY", "SEND_BL", "REPL_BL"}
  /\ WaitOnce \/ "WaitTid" \notin Calls

OneActive == \A t \in Slots : State(t) = "ACTIVE" => t = current

TopRuns ==
  pc = "user" =>
    /\ State(current) = "ACTIVE"
    /\ \A t \in Slots : State(t) = "READY" => sched.prio[t] <= sched.prio[current]

Freed == {t \in Slots : State(t) = "FREE"} \ {victim}

BankHolds ==
  /\ IsList(Slots, sched.next, NULL, bank, Freed)
  /\ blocks + Cardinality(Live) = NumBlocks - 1

(* While the victim's inbox is emptied, its last message stays the last. *)
LastOf(m, v) ==
  m.inHead[v] # NULL =>
    m.inTail[v] \in Met(Envelopes, m.next, NULL, m.inHead[v]) /\ m.next[m.inTail[v]] = NULL

Draining ==
  /\ pc = "drain" <=> victim # NULL
  /\ victim # NULL => State(victim) = "FREE" /\ LastOf(mail, victim)

EventsHold ==
  /\ EventsSound
  /\ \A d, e \in Events : waiter[d] = waiter[e] /\ waiter[d] # NULL => d = e

WaitsHold ==
  /\ \A u \in Live : waitQueue[u] # NULL => State(waitQueue[u]) = "WAITTID_BL"
  /\ \A u, w \in Live : waitQueue[u] = waitQueue[w] /\ waitQueue[u] # NULL => u = w
  /\ \A t \in Slots : State(t) = "WAITTID_BL" => \E u \in Live : waitQueue[u] = t
  /\ ~WaitOnce => \A u \in Slots : waitQueue[u] = NULL

MailHolds == \E box : MailWith(mail, sched.state, result, victim, box)

KernelInv ==
  /\ Queued(sched) /\ OneActive /\ TopRuns /\ Draining
  /\ BankHolds /\ EventsHold /\ WaitsHold /\ MailHolds

(* A step that moves nobody to or from the bank, an event or a wait queue. *)
Calm ==
  /\ UNCHANGED <<bank, blocks, victim, waiter, waitQueue>>
  /\ \A t \in Slots : \A s \in {"FREE", "EVENT_BL", "WAITTID_BL"} :
       State(t)' = s <=> State(t) = s
  /\ \A t \in Slots : State(t) = "FREE" => sched'.next[t] = sched.next[t]

LEMMA BankKeeps ==
  ASSUME TypeInv, BankHolds, UNCHANGED <<bank, blocks, victim>>,
         \A t \in Slots : State(t)' = "FREE" <=> State(t) = "FREE",
         \A t \in Slots : State(t) = "FREE" => sched'.next[t] = sched.next[t]
  PROVE  BankHolds'
<1>1. Freed' = Freed /\ Live' = Live
  BY DEF Freed, Live
<1>2. \A t \in Freed : sched'.next[t] = sched.next[t]
  BY DEF Freed
<1> DEFINE S == Freed
<1>3. IsList(Slots, sched.next, NULL, bank, S) /\ \A t \in S : sched'.next[t] = sched.next[t]
  BY <1>2 DEF BankHolds
<1> HIDE DEF S
<1>4. IsList(Slots, sched'.next, NULL, bank, S)
  BY <1>3, ListKeeps
<1> QED BY <1>1, <1>4 DEF BankHolds, S

LEMMA EventsKeep ==
  ASSUME TypeInv, EventsHold, UNCHANGED waiter,
         \A t \in Slots : State(t)' = "EVENT_BL" <=> State(t) = "EVENT_BL"
  PROVE  EventsHold'
<1>1. \A e \in Events : waiter[e] # NULL => waiter[e] \in Slots
  BY DEF TypeInv, TypeOK, SlotPtr
<1> QED BY <1>1 DEF EventsHold, EventsSound

LEMMA WaitsKeep ==
  ASSUME TypeInv, WaitsHold, UNCHANGED waitQueue,
         \A t \in Slots : State(t)' = "FREE" <=> State(t) = "FREE",
         \A t \in Slots : State(t)' = "WAITTID_BL" <=> State(t) = "WAITTID_BL"
  PROVE  WaitsHold'
<1>1. \A u \in Slots : waitQueue[u] # NULL => waitQueue[u] \in Slots
  BY DEF TypeInv, TypeOK, SlotPtr
<1>2. Live' = Live /\ Live \subseteq Slots
  BY DEF Live
<1> QED BY <1>1, <1>2 DEF WaitsHold

LEMMA CalmKeeps ==
  ASSUME TypeInv, BankHolds, EventsHold, WaitsHold, Calm
  PROVE  BankHolds' /\ EventsHold' /\ WaitsHold'
BY BankKeeps, EventsKeep, WaitsKeep DEF Calm

(* A step after which the kernel schedules. *)
LEMMA TopKeeps ==
  ASSUME Draining, UNCHANGED victim, pc = "user", pc' \in {"schedule", "halted", "corrupt"},
         victim # NULL => State(victim)' = "FREE"
  PROVE  TopRuns' /\ Draining'
BY DEF TopRuns, Draining

(* kernel_main between the tasks. *)
LEMMA MailRests ==
  ASSUME MailHolds, UNCHANGED <<mail, victim>>, TypeInv,
         \A t \in Slots : State(t)' = State(t) \/ (State(t) \in Awake /\ State(t)' \in Awake),
         \A t \in Slots : State(t) = "SEND_BL" => result'[t] = result[t]
  PROVE  MailHolds'
<1>1. PICK box : MailWith(mail, sched.state, result, victim, box)
  BY DEF MailHolds
<1>2. mail \in Mail
  BY DEF TypeInv, TypeOK
<1>3. MailWith(mail, sched'.state, result', victim, box)
  BY <1>1, <1>2, MailKeeps DEF State
<1> QED BY <1>3 DEF MailHolds


LEMMA ScheduleKeeps ==
  ASSUME TypeInv, KernelInv, Schedule
  PROVE  KernelInv' /\ pc' # "corrupt"
<1> USE DEF TypeInv, TypeOK
<1> DEFINE active == current # NULL /\ State(current) = "ACTIVE"
           keep   == active /\ sched.prio[current] > sched.highest
           q      == IF active THEN AddTask(sched, current) ELSE sched
<1>1. Queued(sched) /\ OneActive /\ Draining /\ pc = "schedule" /\ victim = NULL
  BY DEF KernelInv, Schedule, Draining
<1>2. /\ q \in Scheduler /\ Queued(q) /\ q.prio = sched.prio
      /\ \A t \in Slots : q.state[t] # "ACTIVE"
      /\ \A t \in Slots : q.state[t] = State(t) \/ (State(t) = "ACTIVE" /\ q.state[t] = "READY")
      /\ \A t \in Slots : State(t) = "FREE" => q.next[t] = sched.next[t]
  <2>1. CASE active
    <3>1. current \in Slots
      BY <2>1 DEF SlotPtr
    <3>2. Moved(sched, q, current, "READY")
      BY <1>1, <2>1, <3>1, AddTaskMoves DEF State
    <3> HIDE DEF q
    <3> QED BY <1>1, <2>1, <3>1, <3>2 DEF Moved, OneActive, State, Scheduler
  <2>2. CASE ~active
    BY <1>1, <2>2, NoNull DEF OneActive, State
  <2> QED BY <2>1, <2>2
<1>3. CASE keep /\ Resume(current) /\ UNCHANGED sched
  <2>1. current \in Slots /\ current' = current /\ pc' = "user"
    BY <1>3 DEF SlotPtr, Resume
  <2>2. \A t \in Slots : State(t) = "READY" => sched.prio[t] <= sched.prio[current]
    <3>1. \A t \in Slots : State(t) = "READY" => sched.prio[t] <= sched.highest
      BY <1>1, HighestQueue, NoneReady DEF State
    <3>2. \A t \in Slots : sched.prio[t] \in Int /\ sched.highest \in Int
      BY SchedulerAssumption DEF Scheduler, Priorities
    <3> QED BY <1>3, <2>1, <3>1, <3>2
  <2>3. OneActive' /\ TopRuns' /\ Draining' /\ Queued(sched')
    BY <1>1, <1>3, <2>1, <2>2 DEF OneActive, TopRuns, Draining, State, Schedule
  <2>4. Calm
    BY <1>3 DEF Calm, State, Schedule
  <2>5. MailHolds'
    <3>1. \A t \in Slots : State(t) = "SEND_BL" => result'[t] = result[t]
      BY <1>3 DEF Resume
    <3> QED BY <1>3, <3>1, MailRests DEF KernelInv, Schedule, State
  <2> QED BY <2>1, <2>3, <2>4, <2>5, CalmKeeps DEF KernelInv
<1>4. CASE ~keep /\ q.highest = -1 /\ pc' = "halted" /\ sched' = q /\ UNCHANGED <<current, result>>
  <2> HIDE DEF q
  <2>1. OneActive' /\ TopRuns' /\ Draining' /\ Queued(sched')
    BY <1>1, <1>2, <1>4 DEF OneActive, TopRuns, Draining, State, Schedule
  <2>2. Calm
    BY <1>2, <1>4 DEF Calm, State, Schedule
  <2>3. MailHolds'
    BY <1>2, <1>4, MailRests DEF KernelInv, Schedule, State, Awake
  <2> QED BY <1>4, <2>1, <2>2, <2>3, CalmKeeps DEF KernelInv
<1>5. ASSUME q.highest # -1
      PROVE  /\ CanDispatch(q)
             /\ Resume(First(q)) /\ sched' = Dispatch(q) => KernelInv'
  <2> HIDE DEF q
  <2> DEFINE f == First(q)
             r == Dispatch(q)
  <2>1. /\ Moved(q, r, f, "ACTIVE") /\ f \in Slots /\ q.state[f] = "READY" /\ CanDispatch(q)
        /\ \A u \in Slots : q.state[u] = "READY" => q.prio[u] <= q.prio[f]
    BY <1>2, <1>5, DispatchMoves
  <2> HIDE DEF f, r
  <2> SUFFICES ASSUME Resume(f), sched' = r PROVE KernelInv'
    BY <2>1 DEF f, r
  <2>2. /\ \A t \in Slots : t # f => sched'.state[t] = q.state[t]
        /\ sched'.state[f] = "ACTIVE" /\ State(f) \in Awake
        /\ q.state \in [Slots -> TaskState]
    BY <1>2, <2>1 DEF Moved, Scheduler, Awake, State
  <2>3. OneActive' /\ TopRuns' /\ Draining' /\ Queued(sched')
    BY <1>1, <1>2, <2>1, <2>2 DEF Moved, OneActive, TopRuns, Draining, State, Schedule, Resume
  <2>4. Calm
    BY <1>2, <2>1, <2>2 DEF Moved, Calm, State, Schedule, Awake
  <2>5. MailHolds'
    <3>1. \A t \in Slots : State(t) = "SEND_BL" => result'[t] = result[t]
      BY <2>2 DEF Resume, Awake
    <3>2. \A t \in Slots : State(t)' = State(t) \/ (State(t) \in Awake /\ State(t)' \in Awake)
      BY <1>2, <2>2 DEF State, Awake
    <3> QED BY <3>1, <3>2, MailRests DEF KernelInv, Schedule
  <2> QED BY <2>3, <2>4, <2>5, CalmKeeps DEF KernelInv
<1>6. pc' # "corrupt"
  BY <1>3, <1>4, <1>5 DEF Schedule, Resume
<1> QED BY <1>3, <1>4, <1>5, <1>6 DEF Schedule

-----------------------------------------------------------------------------
(* The running task blocks, and the receiver of its message is woken. *)
LEMMA SendMoves ==
  ASSUME TypeInv, Queued(sched), current \in Slots, State(current) = "ACTIVE",
         NEW s \in {"REPL_BL", "RECV_BL"}, NEW r \in Slots, r # current,
         NEW q, q = WakeReceiver(Block(sched, s), r)
  PROVE  /\ q \in Scheduler /\ Queued(q)
         /\ q.state = [t \in Slots |-> IF t = current THEN s
                                       ELSE IF t = r /\ State(r) = "SEND_BL" THEN "READY"
                                       ELSE State(t)]
         /\ \A u \in Slots : State(u) = "FREE" => q.next[u] = sched.next[u]
<1> DEFINE b == Block(sched, s)
<1>1. /\ b \in Scheduler /\ Queued(b) /\ b.state = [sched.state EXCEPT ![current] = s]
      /\ b.next = sched.next
  <2>1. sched \in Scheduler /\ s \in TaskState /\ s # "READY" /\ sched.state[current] # "READY"
    BY DEF TypeInv, TypeOK, TaskState, State
  <2>2. b = [sched EXCEPT !.state[current] = s]
    BY DEF Block
  <2>3. Moved(sched, b, current, s) /\ b.next = sched.next
    BY <2>1, <2>2, StateMoves
  <2> QED BY <2>3 DEF Moved
<1> HIDE DEF b
<1>2. sched.state \in [Slots -> TaskState] /\ b.state \in [Slots -> TaskState]
  BY <1>1 DEF TypeInv, TypeOK, Scheduler
<1>3. CASE State(r) = "SEND_BL"
  <2>1. q = AddTask(b, r) /\ b.state[r] # "READY"
    BY <1>1, <1>2, <1>3 DEF WakeReceiver, b, State
  <2>2. Moved(b, q, r, "READY")
    BY <1>1, <2>1, AddTaskMoves
  <2>3. \A u \in Slots : State(u) = "FREE" => u # r /\ u # current /\ b.state[u] # "READY"
    BY <1>1, <1>2, <1>3 DEF State
  <2> QED BY <1>1, <1>2, <1>3, <2>2, <2>3 DEF Moved, State
<1>4. CASE State(r) # "SEND_BL"
  <2>1. q = b
    BY <1>4 DEF WakeReceiver, b
  <2> QED BY <1>1, <1>2, <1>4, <2>1 DEF State
<1> QED BY <1>3, <1>4

(* The caller of a system call. *)
LEMMA Caller ==
  ASSUME TypeInv, KernelInv, pc = "user"
  PROVE  /\ current \in Slots /\ State(current) = "ACTIVE" /\ victim = NULL /\ current # victim
         /\ Queued(sched) /\ OneActive /\ Draining
         /\ sched \in Scheduler /\ mail \in Mail /\ sched.state \in [Slots -> TaskState]
BY NoNull DEF TypeInv, TypeOK, KernelInv, TopRuns, Draining, Scheduler

(* What a system call that does not touch the bank, the events or the wait queues
   has to show. *)
LEMMA CalmCall ==
  ASSUME TypeInv, KernelInv, pc = "user", pc' = "schedule", Calm, UNCHANGED current,
         Queued(sched'), MailHolds',
         \A t \in Slots : State(t)' = "ACTIVE" => State(t) = "ACTIVE"
  PROVE  KernelInv' /\ pc' # "corrupt"
<1>1. OneActive'
  BY DEF KernelInv, OneActive
<1>2. TopRuns' /\ Draining'
  <2>1. UNCHANGED victim /\ (victim # NULL => State(victim)' = "FREE")
    BY DEF Calm, KernelInv, Draining
  <2> QED BY <2>1, TopKeeps DEF KernelInv
<1> QED BY <1>1, <1>2, CalmKeeps DEF KernelInv

LEMMA IdleCall ==
  ASSUME TypeInv, KernelInv, pc = "user", pc' \in {"schedule", "halted", "corrupt"},
         UNCHANGED <<sched, mail, waitQueue, result, waiter, blocks, bank, current, victim>>
  PROVE  KernelInv'
<1>1. Calm /\ Queued(sched') /\ OneActive' /\ TopRuns' /\ Draining' /\ MailHolds'
  BY DEF Calm, KernelInv, State, OneActive, TopRuns, Draining, MailHolds
<1> QED BY <1>1, CalmKeeps DEF KernelInv

LEMMA SendKeeps ==
  ASSUME TypeInv, KernelInv, NEW x \in Tids, Send(x)
  PROVE  KernelInv' /\ pc' # "corrupt"
<1> DEFINE r      == TaskOf(x)
           direct == r # NULL /\ State(r) = "SEND_BL" /\ mail.outbox[r] # NULL
<1>1. /\ current \in Slots /\ State(current) = "ACTIVE" /\ victim = NULL /\ current # victim
      /\ Queued(sched) /\ sched \in Scheduler /\ mail \in Mail
      /\ sched.state \in [Slots -> TaskState] /\ pc = "user"
  BY Caller DEF Send, Calling
<1>2. PICK box : MailWith(mail, sched.state, result, victim, box)
  BY DEF KernelInv, MailHolds
<1>3. r \in SlotPtr /\ (r # NULL => State(r) # "FREE")
  BY TaskOfType DEF TaskOf
<1>4. UNCHANGED <<bank, blocks, victim, waiter, waitQueue, current>> /\ pc' = "schedule"
  BY DEF Send, NoResult, Complete
<1> HIDE DEF r
<1>5. CASE NoResult /\ UNCHANGED <<sched, mail>>
  BY <1>1, <1>4, <1>5, IdleCall DEF NoResult
<1>6. CASE /\ direct
           /\ mail' = TakeOver(mail, r)
           /\ sched' = WakeReceiver(Block(sched, "REPL_BL"), r)
           /\ Complete(r, "ok")
  <2>1. r \in Slots /\ r # current /\ State(r) = "SEND_BL" /\ mail.outbox[r] # NULL
    BY <1>1, <1>3, <1>6 DEF SlotPtr
  <2>2. /\ sched' \in Scheduler /\ Queued(sched')
        /\ sched'.state = [t \in Slots |-> IF t = current THEN "REPL_BL"
                                           ELSE IF t = r /\ State(r) = "SEND_BL" THEN "READY"
                                           ELSE State(t)]
        /\ \A u \in Slots : State(u) = "FREE" => sched'.next[u] = sched.next[u]
    BY <1>1, <1>6, <2>1, SendMoves
  <2>3. sched'.state = [sched.state EXCEPT ![current] = "REPL_BL", ![r] = "READY"]
    BY <1>1, <2>1, <2>2 DEF State
  <2>4. Calm /\ \A t \in Slots : State(t)' = "ACTIVE" => State(t) = "ACTIVE"
    BY <1>1, <1>4, <2>1, <2>2 DEF Calm, State
  <2>5. MailWith(TakeOver(mail, r), sched'.state, result', victim, box)
    <3>1. \A t \in Slots \ {r} : result'[t] = result[t]
      BY <1>6 DEF Complete
    <3> QED BY <1>1, <1>2, <2>1, <2>3, <3>1, TakeOverSound DEF State
  <2>6. MailHolds'
    BY <1>4, <1>6, <2>5 DEF MailHolds
  <2> QED BY <1>1, <1>4, <2>2, <2>4, <2>6, CalmCall
<1>7. CASE /\ r \notin {NULL, current} /\ ~direct /\ mail.free # NULL
           /\ mail' = Enqueue(mail, r)
           /\ sched' = WakeReceiver(Block(sched, "RECV_BL"), r)
           /\ NoResult
  <2>1. /\ r \in Slots /\ r # current /\ State(r) # "FREE" /\ r # victim
        /\ State(r) = "SEND_BL" => mail.outbox[r] = NULL
    BY <1>1, <1>3, <1>7, NoNull DEF SlotPtr
  <2>2. /\ sched' \in Scheduler /\ Queued(sched')
        /\ sched'.state = [t \in Slots |-> IF t = current THEN "RECV_BL"
                                           ELSE IF t = r /\ State(r) = "SEND_BL" THEN "READY"
                                           ELSE State(t)]
        /\ \A u \in Slots : State(u) = "FREE" => sched'.next[u] = sched.next[u]
    BY <1>1, <1>7, <2>1, SendMoves
  <2>3. Calm /\ \A t \in Slots : State(t)' = "ACTIVE" => State(t) = "ACTIVE"
    BY <1>1, <1>4, <2>1, <2>2 DEF Calm, State
  <2>4. MailWith(Enqueue(mail, r), sched'.state, result, victim,
                 [box EXCEPT ![r] = @ \cup {mail.free}])
    BY <1>1, <1>2, <1>7, <2>1, <2>2, EnqueueSound DEF State
  <2>5. MailHolds'
    BY <1>4, <1>7, <2>4 DEF MailHolds, NoResult
  <2> QED BY <1>1, <1>4, <2>2, <2>3, <2>5, CalmCall
<1> QED BY <1>5, <1>6, <1>7 DEF Send, r


LEMMA ReceiveKeeps ==
  ASSUME TypeInv, KernelInv, Receive
  PROVE  KernelInv' /\ pc' # "corrupt"
<1> DEFINE e == mail.inHead[current]
<1>1. /\ current \in Slots /\ State(current) = "ACTIVE" /\ victim = NULL /\ current # victim
      /\ Queued(sched) /\ sched \in Scheduler /\ mail \in Mail
      /\ sched.state \in [Slots -> TaskState] /\ pc = "user"
  BY Caller DEF Receive, Calling
<1>2. PICK box : MailWith(mail, sched.state, result, victim, box)
  BY DEF KernelInv, MailHolds
<1>3. UNCHANGED <<bank, blocks, victim, waiter, waitQueue, current>>
  BY DEF Receive
<1>4. mail.inHead[current] \in EnvPtr
  BY <1>1 DEF Mail
<1>5. ASSUME sched' = Block(sched, "SEND_BL"), pc' = "schedule", MailHolds'
      PROVE  KernelInv' /\ pc' # "corrupt"
  <2>1. Moved(sched, sched', current, "SEND_BL") /\ sched'.next = sched.next
    BY <1>1, <1>5, StateMoves DEF Block, State, TaskState
  <2>2. Calm /\ \A t \in Slots : State(t)' = "ACTIVE" => State(t) = "ACTIVE"
    BY <1>1, <1>3, <2>1 DEF Moved, Calm, State
  <2> QED BY <1>1, <1>3, <1>5, <2>1, <2>2, CalmCall DEF Moved
<1>6. sched' = Block(sched, "SEND_BL") => sched'.state = [sched.state EXCEPT ![current] = "SEND_BL"]
  BY <1>1, BlockState
<1>7. CASE /\ sched' = Block(sched, "SEND_BL")
           /\ Complete(current, "NO_MORE_ENVELOPES")
           /\ UNCHANGED mail
  <2>1. result'[current] = "NO_MORE_ENVELOPES"
    BY <1>1, <1>7 DEF Complete, TypeInv, TypeOK
  <2>2. \A t \in Slots \ {current} : result'[t] = result[t]
    BY <1>7 DEF Complete
  <2>3. MailWith(mail, sched'.state, result', victim, box)
    BY <1>1, <1>2, <1>6, <1>7, <2>1, <2>2, SleepSound DEF State
  <2>4. MailHolds' /\ pc' = "schedule"
    BY <1>3, <1>7, <2>3 DEF MailHolds, Complete
  <2> QED BY <1>5, <1>7, <2>4
<1>8. CASE /\ mail.free # NULL
           /\ sched' = Block(sched, "SEND_BL")
           /\ mail' = [GetEnvelope(mail) EXCEPT !.sender[mail.free] = NULL,
                                                !.outbox[current] = mail.free]
           /\ Complete(current, "NO_AVAILABLE_MESSAGES")
  <2>1. result'[current] # "NO_MORE_ENVELOPES"
    BY <1>1, <1>8 DEF Complete, TypeInv, TypeOK
  <2>2. \A t \in Slots \ {current} : result'[t] = result[t]
    BY <1>8 DEF Complete
  <2>3. MailWith(mail', sched'.state, result', victim, box)
    <3>1. sched'.state = [sched.state EXCEPT ![current] = "SEND_BL"] /\ sched.state[current] = "ACTIVE"
      BY <1>1, <1>6, <1>8 DEF State
    <3>2. mail' = SleepingWith(mail)
      BY <1>8 DEF SleepingWith
    <3> QED BY <1>1, <1>2, <1>8, <2>1, <2>2, <3>1, <3>2, SleepWithSound
  <2>4. MailHolds' /\ pc' = "schedule"
    BY <1>3, <1>8, <2>3 DEF MailHolds, Complete
  <2> QED BY <1>5, <1>8, <2>4
<1>9. e # NULL => /\ e \in Envelopes /\ mail.sender[e] \in Slots /\ mail.sender[e] # NULL
                  /\ State(mail.sender[e]) = "RECV_BL"
  BY <1>1, <1>2, FirstSender, NoNull DEF State
<1>10. CASE /\ e # NULL
            /\ mail' = [mail EXCEPT !.inHead[current] = mail.next[e],
                                    !.next[e] = NULL,
                                    !.inTail[current] = IF mail.next[e] = NULL
                                                        THEN NULL ELSE @]
            /\ sched' = [sched EXCEPT !.state[mail.sender[e]] = "REPL_BL"]
            /\ NoResult
  <2> DEFINE s == mail.sender[e]
  <2>1. s \in Slots /\ State(s) = "RECV_BL"
    BY <1>9, <1>10
  <2> HIDE DEF s
  <2>2. Moved(sched, sched', s, "REPL_BL") /\ sched'.next = sched.next
    BY <1>1, <1>10, <2>1, StateMoves DEF State, TaskState, s
  <2>3. Calm /\ \A t \in Slots : State(t)' = "ACTIVE" => State(t) = "ACTIVE"
    BY <1>1, <1>3, <2>1, <2>2 DEF Moved, Calm, State
  <2>4. MailWith(mail', sched'.state, result, victim, [box EXCEPT ![current] = @ \ {e}])
    <3>1. sched'.state = [sched.state EXCEPT ![mail.sender[e]] = "REPL_BL"]
      BY <2>2 DEF Moved, s
    <3>2. mail' = Taken(mail, current, e)
      BY <1>10 DEF Taken
    <3> QED BY <1>1, <1>2, <1>10, <3>1, <3>2, TakeSound
  <2>5. MailHolds' /\ pc' = "schedule"
    BY <1>3, <1>10, <2>4 DEF MailHolds, NoResult
  <2> QED BY <1>1, <1>3, <2>2, <2>3, <2>5, CalmCall DEF Moved
<1> QED BY <1>7, <1>8, <1>9, <1>10 DEF Receive

LEMMA ReplyKeeps ==
  ASSUME TypeInv, KernelInv, NEW x \in Tids, Reply(x)
  PROVE  KernelInv' /\ pc' # "corrupt"
<1> DEFINE t == TaskOf(x)
<1>1. /\ current \in Slots /\ State(current) = "ACTIVE" /\ victim = NULL /\ current # victim
      /\ Queued(sched) /\ sched \in Scheduler /\ mail \in Mail
      /\ sched.state \in [Slots -> TaskState] /\ pc = "user"
  BY Caller DEF Reply, Calling
<1>2. PICK box : MailWith(mail, sched.state, result, victim, box)
  BY DEF KernelInv, MailHolds
<1>3. UNCHANGED <<bank, blocks, victim, waiter, waitQueue, current>> /\ pc' = "schedule"
  BY DEF Reply, NoResult, Complete
<1>4. t \in SlotPtr
  BY TaskOfType
<1> HIDE DEF t
<1>5. CASE NoResult /\ UNCHANGED <<sched, mail>>
  BY <1>1, <1>3, <1>5, IdleCall DEF NoResult
<1>6. CASE /\ t # NULL /\ State(t) = "REPL_BL" /\ mail.outbox[t] # NULL
           /\ sched' = AddTask(sched, t)
           /\ mail' = [ReleaseEnvelope(mail, mail.outbox[t]) EXCEPT !.outbox[t] = NULL]
           /\ Complete(t, "ok")
  <2>1. t \in Slots
    BY <1>4, <1>6 DEF SlotPtr
  <2>2. Moved(sched, sched', t, "READY")
    BY <1>1, <1>6, <2>1, AddTaskMoves DEF State
  <2>3. Calm /\ \A u \in Slots : State(u)' = "ACTIVE" => State(u) = "ACTIVE"
    BY <1>1, <1>3, <1>6, <2>1, <2>2 DEF Moved, Calm, State
  <2>4. \A u \in Slots \ {t} : result'[u] = result[u]
    BY <1>6 DEF Complete
  <2>5. MailWith(mail', sched'.state, result', victim, box)
    BY <1>1, <1>2, <1>6, <2>1, <2>2, <2>4, ReplySound DEF State, Moved
  <2>6. MailHolds'
    BY <1>3, <2>5 DEF MailHolds
  <2> QED BY <1>1, <1>3, <2>2, <2>3, <2>6, CalmCall DEF Moved
<1> QED BY <1>5, <1>6 DEF Reply, t
-----------------------------------------------------------------------------
(* As CalmCall, when the call changes one of the lists. *)
LEMMA AnyCall ==
  ASSUME TypeInv, KernelInv, pc = "user", pc' = "schedule", UNCHANGED <<current, victim>>,
         Queued(sched'), BankHolds', EventsHold', WaitsHold', MailHolds',
         \A t \in Slots : State(t)' = "ACTIVE" => State(t) = "ACTIVE"
  PROVE  KernelInv' /\ pc' # "corrupt"
<1>1. victim = NULL
  BY DEF KernelInv, Draining
<1>2. OneActive' /\ TopRuns' /\ Draining'
  BY <1>1 DEF KernelInv, OneActive, TopRuns, Draining
<1> QED BY <1>2 DEF KernelInv

LEMMA AwaitKeeps ==
  ASSUME TypeInv, KernelInv, NEW e \in Events, Await(e)
  PROVE  KernelInv' /\ pc' # "corrupt"
<1>1. /\ current \in Slots /\ State(current) = "ACTIVE" /\ Queued(sched) /\ sched \in Scheduler
      /\ sched.state \in [Slots -> TaskState] /\ pc = "user"
      /\ waiter \in [Events -> SlotPtr] /\ waiter[e] = NULL
  BY Caller DEF Await, Calling, TypeInv, TypeOK
<1>2. /\ UNCHANGED <<bank, blocks, victim, waitQueue, current, mail, result>> /\ pc' = "schedule"
      /\ waiter' = [waiter EXCEPT ![e] = current]
  BY DEF Await, NoResult
<1>3. Moved(sched, sched', current, "EVENT_BL") /\ sched'.next = sched.next
  BY <1>1, StateMoves DEF Await, Block, State, TaskState
<1>4. /\ sched'.state[current] = "EVENT_BL"
      /\ \A t \in Slots : t # current => sched'.state[t] = State(t)
  BY <1>1, <1>3 DEF Moved, State
<1>5. BankHolds'
  BY <1>1, <1>2, <1>3, <1>4, BankKeeps DEF KernelInv, State
<1>6. WaitsHold'
  BY <1>1, <1>2, <1>4, WaitsKeep DEF KernelInv, State
<1>7. MailHolds'
  BY <1>1, <1>2, <1>4, MailRests DEF KernelInv, Awake, State
<1>8. EventsHold'
  <2>1. \A d \in Events : waiter[d] # NULL => waiter[d] \in Slots /\ State(waiter[d]) = "EVENT_BL"
    BY <1>1 DEF KernelInv, EventsHold, EventsSound, SlotPtr
  <2>2. waiter'[e] = current /\ \A d \in Events : d # e => waiter'[d] = waiter[d]
    BY <1>1, <1>2
  <2>3. \A d \in Events : waiter[d] # current
    BY <1>1, <2>1, NoNull
  <2>4. \A d \in Events : waiter'[d] # NULL => sched'.state[waiter'[d]] = "EVENT_BL"
    BY <1>4, <2>1, <2>2, <2>3
  <2>5. \A t \in Slots : sched'.state[t] = "EVENT_BL" => \E d \in Events : waiter'[d] = t
    <3>1. \A t \in Slots : State(t) = "EVENT_BL" => \E d \in Events : waiter[d] = t
      BY DEF KernelInv, EventsHold, EventsSound
    <3>2. ASSUME NEW t \in Slots, sched'.state[t] = "EVENT_BL", t # current
          PROVE  \E d \in Events : waiter'[d] = t
      <4>1. PICK d \in Events : waiter[d] = t
        BY <1>4, <3>1, <3>2
      <4> QED BY <1>1, <2>2, <3>2, <4>1, NoNull
    <3> QED BY <2>2, <3>2
  <2>6. \A c, d \in Events : waiter'[c] = waiter'[d] /\ waiter'[c] # NULL => c = d
    BY <2>2, <2>3 DEF KernelInv, EventsHold
  <2> QED BY <2>4, <2>5, <2>6 DEF EventsHold, EventsSound, State
<1>9. Queued(sched') /\ \A t \in Slots : State(t)' = "ACTIVE" => State(t) = "ACTIVE"
  BY <1>1, <1>3, <1>4 DEF Moved, State
<1> QED BY <1>1, <1>2, <1>5, <1>6, <1>7, <1>8, <1>9, AnyCall

LEMMA InterruptKeeps ==
  ASSUME TypeInv, KernelInv, NEW e \in Events, Interrupt(e)
  PROVE  KernelInv' /\ pc' # "corrupt"
<1>1. /\ current \in Slots /\ State(current) = "ACTIVE" /\ Queued(sched) /\ sched \in Scheduler
      /\ sched.state \in [Slots -> TaskState] /\ pc = "user"
      /\ waiter \in [Events -> SlotPtr]
  BY Caller DEF Interrupt, TypeInv, TypeOK
<1>2. CASE waiter[e] = NULL
  BY <1>1, <1>2, IdleCall DEF Interrupt
<1>3. CASE waiter[e] # NULL
  <2> DEFINE w == waiter[e]
  <2>1. w \in Slots /\ State(w) = "EVENT_BL"
    BY <1>1, <1>3 DEF SlotPtr, KernelInv, EventsHold, EventsSound
  <2>2. /\ UNCHANGED <<bank, blocks, victim, waitQueue, current, mail>> /\ pc' = "schedule"
        /\ waiter' = [waiter EXCEPT ![e] = NULL] /\ result' = [result EXCEPT ![w] = "ok"]
        /\ sched' = AddTask(sched, w)
    BY <1>3 DEF Interrupt, Complete, ClearEntry
  <2> HIDE DEF w
  <2>3. Moved(sched, sched', w, "READY")
    BY <1>1, <2>1, <2>2, AddTaskMoves DEF State
  <2>4. sched'.state[w] = "READY" /\ \A t \in Slots : t # w => sched'.state[t] = State(t)
    BY <1>1, <2>1, <2>3 DEF Moved, State
  <2>5. BankHolds'
    <3>1. \A t \in Slots : State(t) = "FREE" => sched'.next[t] = sched.next[t]
      BY <2>1, <2>3 DEF Moved, State
    <3> QED BY <2>1, <2>2, <2>4, <3>1, BankKeeps DEF KernelInv, State
  <2>6. WaitsHold'
    BY <2>1, <2>2, <2>4, WaitsKeep DEF KernelInv, State
  <2>7. MailHolds'
    <3>1. \A t \in Slots : State(t) = "SEND_BL" => result'[t] = result[t]
      BY <2>1, <2>2
    <3> QED BY <2>1, <2>2, <2>4, <3>1, MailRests DEF KernelInv, Awake, State
  <2>8. EventsHold'
    <3>1. waiter'[e] = NULL /\ \A d \in Events : d # e => waiter'[d] = waiter[d]
      BY <1>1, <2>2
    <3>2. \A d \in Events : d # e => waiter[d] # w
      BY <1>3 DEF KernelInv, EventsHold, w
    <3>3. \A d \in Events : waiter[d] # NULL => waiter[d] \in Slots /\ State(waiter[d]) = "EVENT_BL"
      BY <1>1 DEF KernelInv, EventsHold, EventsSound, SlotPtr
    <3>4. \A d \in Events : waiter'[d] # NULL => sched'.state[waiter'[d]] = "EVENT_BL"
      BY <2>4, <3>1, <3>2, <3>3
    <3>5. ASSUME NEW t \in Slots, sched'.state[t] = "EVENT_BL" PROVE \E d \in Events : waiter'[d] = t
      <4>1. t # w /\ State(t) = "EVENT_BL"
        BY <2>4, <3>5
      <4>2. PICK d \in Events : waiter[d] = t
        BY <4>1 DEF KernelInv, EventsHold, EventsSound
      <4> QED BY <3>1, <4>1, <4>2 DEF w
    <3>6. \A c, d \in Events : waiter'[c] = waiter'[d] /\ waiter'[c] # NULL => c = d
      BY <3>1 DEF KernelInv, EventsHold
    <3> QED BY <3>4, <3>5, <3>6 DEF EventsHold, EventsSound, State
  <2>9. Queued(sched') /\ \A t \in Slots : State(t)' = "ACTIVE" => State(t) = "ACTIVE"
    BY <2>1, <2>3, <2>4 DEF Moved, State
  <2> QED BY <1>1, <2>2, <2>5, <2>6, <2>7, <2>8, <2>9, AnyCall
<1> QED BY <1>1, <1>2, <1>3, IdleCall DEF Interrupt


LEMMA WaitTidKeeps ==
  ASSUME CleanHabits, TypeInv, KernelInv, NEW x \in Tids, WaitTid(x)
  PROVE  KernelInv' /\ pc' # "corrupt"
<1> DEFINE u == TaskOf(x)
<1>1. /\ current \in Slots /\ State(current) = "ACTIVE" /\ Queued(sched) /\ sched \in Scheduler
      /\ sched.state \in [Slots -> TaskState] /\ pc = "user" /\ current # NULL
      /\ waitQueue \in [Slots -> SlotPtr]
  BY Caller, NoNull DEF WaitTid, Calling, TypeInv, TypeOK
<1>2. /\ WaitOnce /\ u \in Slots /\ u \in Live /\ waitQueue[u] = NULL
  <2>1. u \in Slots /\ State(u) # "FREE"
    BY TaskOfType DEF TaskOf, WaitTid, SlotPtr
  <2>2. WaitOnce
    BY DEF CleanHabits, WaitTid, Calling
  <2> QED BY <2>1, <2>2 DEF WaitTid, Live
<1> HIDE DEF u
<1>3. /\ UNCHANGED <<bank, blocks, victim, waiter, current, mail, result>> /\ pc' = "schedule"
      /\ waitQueue' = [waitQueue EXCEPT ![u] = current]
      /\ sched' = [sched EXCEPT !.state[current] = "WAITTID_BL", !.next[current] = waitQueue[u]]
  BY DEF WaitTid, NoResult, u
<1>4. /\ sched'.state = [sched.state EXCEPT ![current] = "WAITTID_BL"]
      /\ sched'.next = [sched.next EXCEPT ![current] = waitQueue[u]]
      /\ sched'.prio = sched.prio /\ sched'.head = sched.head /\ sched'.tail = sched.tail
      /\ sched'.avail = sched.avail /\ sched'.highest = sched.highest
  BY <1>1, <1>3 DEF Scheduler
<1>5. /\ sched'.state[current] = "WAITTID_BL"
      /\ \A t \in Slots : t # current => sched'.state[t] = State(t) /\ sched'.next[t] = sched.next[t]
  BY <1>1, <1>4 DEF State, Scheduler
<1>6. Queued(sched')
  <2>1. SameQueues(sched, sched')
    BY <1>1, <1>4, <1>5 DEF SameQueues, State
  <2> QED BY <1>1, <2>1, QueuedKeeps
<1>7. BankHolds'
  BY <1>1, <1>3, <1>5, BankKeeps DEF KernelInv, State
<1>8. EventsHold'
  BY <1>1, <1>3, <1>5, EventsKeep DEF KernelInv, State
<1>9. MailHolds'
  BY <1>1, <1>3, <1>5, MailRests DEF KernelInv, Awake, State
<1>10. WaitsHold'
  <2>1. Live' = Live /\ Live \subseteq Slots
    BY <1>1, <1>5 DEF Live, State
  <2>2. waitQueue'[u] = current /\ \A w \in Slots : w # u => waitQueue'[w] = waitQueue[w]
    BY <1>1, <1>2, <1>3
  <2>3. \A w \in Live : waitQueue[w] # NULL =>
          waitQueue[w] \in Slots /\ State(waitQueue[w]) = "WAITTID_BL" /\ waitQueue[w] # current
    BY <1>1, <2>1 DEF KernelInv, WaitsHold, SlotPtr
  <2>4. \A w \in Live : waitQueue'[w] # NULL => sched'.state[waitQueue'[w]] = "WAITTID_BL"
    BY <1>5, <2>1, <2>2, <2>3
  <2>5. \A w, y \in Live : waitQueue'[w] = waitQueue'[y] /\ waitQueue'[w] # NULL => w = y
    <3>1. \A w, y \in Live : waitQueue[w] = waitQueue[y] /\ waitQueue[w] # NULL => w = y
      BY DEF KernelInv, WaitsHold
    <3> QED BY <1>1, <2>1, <2>2, <2>3, <3>1
  <2>6. ASSUME NEW t \in Slots, sched'.state[t] = "WAITTID_BL"
        PROVE  \E w \in Live : waitQueue'[w] = t
    <3>1. CASE t = current
      BY <1>2, <2>2, <3>1
    <3>2. CASE t # current
      <4>1. State(t) = "WAITTID_BL"
        BY <1>5, <2>6, <3>2
      <4>2. PICK w \in Live : waitQueue[w] = t
        BY <4>1 DEF KernelInv, WaitsHold
      <4> QED BY <1>2, <2>1, <2>2, <4>2, NoNull
    <3> QED BY <3>1, <3>2
  <2> QED BY <1>2, <2>1, <2>4, <2>5, <2>6 DEF WaitsHold, State
<1>11. \A t \in Slots : State(t)' = "ACTIVE" => State(t) = "ACTIVE"
  BY <1>1, <1>5 DEF State
<1> QED BY <1>1, <1>3, <1>6, <1>7, <1>8, <1>9, <1>10, <1>11, AnyCall

(* The tasks in use are counted by what they leave in the bank. *)
LEMMA SlotsFinite == IsFiniteSet(Slots)
<1> DEFINE n == NumSlots - 1
<1>1. 0 \in Int /\ n \in Int
  OBVIOUS
<1> HIDE DEF n
<1>2. IsFiniteSet(0 .. n)
  BY <1>1, FS_Interval
<1> QED BY <1>2 DEF Slots, n

(* A new task joins the queue of its priority. *)
LEMMA BootMoves ==
  ASSUME NEW q \in Scheduler, Queued(q), NEW t \in Slots, q.state[t] # "READY",
         NEW p \in 0 .. NumPriorities, NEW r, r = Boot(q, t, p)
  PROVE  /\ r \in Scheduler /\ Queued(r) /\ r.state = [q.state EXCEPT ![t] = "READY"]
         /\ \A u \in Slots : u # t /\ q.state[u] # "READY" => r.next[u] = q.next[u]
<1> DEFINE capped == IF p >= NumPriorities THEN NumPriorities - 1 ELSE p
           c == [q EXCEPT !.prio[t] = capped]
<1>1. /\ c \in Scheduler /\ c.state = q.state /\ c.next = q.next
      /\ c.head = q.head /\ c.tail = q.tail
      /\ c.avail = q.avail /\ c.highest = q.highest
      /\ \A u \in Slots : u # t => c.prio[u] = q.prio[u]
  <2>1. capped \in Priorities
    BY DEF Priorities
  <2> HIDE DEF capped
  <2> QED BY <2>1 DEF Scheduler
<1>2. r = AddTask(c, t)
  BY DEF Boot
<1> HIDE DEF c
<1>3. Queued(c)
  <2>1. SameQueues(q, c)
    BY <1>1 DEF SameQueues
  <2> QED BY <2>1, QueuedKeeps
<1>4. Moved(c, r, t, "READY")
  BY <1>1, <1>2, <1>3, AddTaskMoves
<1> QED BY <1>1, <1>4 DEF Moved

LEMMA CreateKeeps ==
  ASSUME TypeInv, KernelInv, NEW p \in 0 .. NumPriorities, Create(p)
  PROVE  KernelInv'
<1>1. /\ current \in Slots /\ State(current) = "ACTIVE" /\ victim = NULL /\ Queued(sched)
      /\ sched \in Scheduler /\ mail \in Mail
      /\ sched.state \in [Slots -> TaskState] /\ pc = "user" /\ bank \in SlotPtr
      /\ waitQueue \in [Slots -> SlotPtr] /\ blocks \in Nat
  BY Caller DEF Create, Calling, TypeInv, TypeOK
<1>2. UNCHANGED <<tid, waitQueue, waiter, current, victim>>
  BY DEF Create
<1>3. CASE (NoResult \/ Corrupt) /\ UNCHANGED <<sched, mail, parent, blocks, bank>>
  BY <1>1, <1>2, <1>3, IdleCall DEF NoResult, Corrupt
<1>4. CASE /\ bank # NULL /\ blocks > 0
           /\ sched' = Boot(sched, bank, p)
           /\ mail' = [mail EXCEPT !.inHead[bank] = NULL, !.inTail[bank] = NULL,
                                   !.outbox[bank] = NULL]
           /\ bank' = sched.next[bank]
           /\ blocks' = blocks - 1
           /\ NoResult
  <2> DEFINE b == bank
             F == Freed
  <2>1. IsList(Slots, sched.next, NULL, b, F) /\ b \in F /\ F = {t \in Slots : State(t) = "FREE"}
    <3>1. IsList(Slots, sched.next, NULL, b, F)
      BY DEF KernelInv, BankHolds
    <3>2. F = {t \in Slots : State(t) = "FREE"}
      BY <1>1, NoNull DEF Freed
    <3> HIDE DEF F
    <3> QED BY <1>4, <3>1, <3>2, NoNull, ListFacts
  <2>2. b \in Slots /\ State(b) = "FREE"
    BY <2>1
  <2> HIDE DEF F
  <2>3. sched' = Boot(sched, b, p)
    BY <1>4
  <2> HIDE DEF b
  <2>4. /\ Queued(sched') /\ sched'.state = [sched.state EXCEPT ![b] = "READY"]
        /\ \A u \in Slots : u # b /\ sched.state[u] # "READY" => sched'.next[u] = sched.next[u]
    <3>1. sched.state[b] # "READY"
      BY <2>2 DEF State
    <3> QED BY <1>1, <2>2, <2>3, <3>1, BootMoves
  <2>5. sched'.state[b] = "READY" /\ \A t \in Slots : t # b => sched'.state[t] = State(t)
    BY <1>1, <2>2, <2>4 DEF State
  <2>6. BankHolds'
    <3>1. Freed' = F \ {b}
      BY <1>1, <1>2, <2>1, <2>5, NoNull DEF Freed, State
    <3>2. \A t \in F \ {b} : sched'.next[t] = sched.next[t]
      BY <2>1, <2>4 DEF State
    <3>3. IsList(Slots, sched'.next, NULL, sched.next[b], F \ {b})
      BY <2>1, <2>2, <3>2, NoNull, ListPop
    <3>4. blocks' + Cardinality(Live') = NumBlocks - 1
      <4>1. Live' = Live \cup {b} /\ b \notin Live /\ Live \subseteq Slots
        BY <2>2, <2>5 DEF Live, State
      <4>2. IsFiniteSet(Live)
        BY <4>1, SlotsFinite, FS_Subset
      <4>3. Cardinality(Live') = Cardinality(Live) + 1 /\ Cardinality(Live) \in Nat
        BY <4>1, <4>2, FS_AddElement, FS_CardinalityType
      <4>4. blocks + Cardinality(Live) = NumBlocks - 1
        BY DEF KernelInv, BankHolds
      <4> QED BY <1>1, <1>4, <4>3, <4>4
    <3> QED BY <1>4, <3>1, <3>3, <3>4 DEF BankHolds, b
  <2>7. EventsHold'
    BY <1>1, <1>2, <2>2, <2>5, EventsKeep DEF KernelInv, State
  <2>8. WaitsHold'
    <3>1. waitQueue[b] = NULL
      BY <1>1, <1>4, <2>2 DEF Create, KernelInv, WaitsHold, b
    <3>2. Live' = Live \cup {b} /\ Live \subseteq Slots
      BY <2>2, <2>5 DEF Live, State
    <3>3. \A w \in Live : waitQueue[w] # NULL =>
            waitQueue[w] \in Slots /\ State(waitQueue[w]) = "WAITTID_BL"
      BY <1>1, <3>2 DEF KernelInv, WaitsHold, SlotPtr
    <3>4. \A w \in Live' : waitQueue[w] # NULL => sched'.state[waitQueue[w]] = "WAITTID_BL"
      BY <2>2, <2>5, <3>1, <3>2, <3>3
    <3>5. \A w, y \in Live' : waitQueue[w] = waitQueue[y] /\ waitQueue[w] # NULL => w = y
      BY <3>1, <3>2 DEF KernelInv, WaitsHold
    <3>6. \A t \in Slots : sched'.state[t] = "WAITTID_BL" => \E w \in Live' : waitQueue[w] = t
      BY <2>5, <3>2 DEF KernelInv, WaitsHold
    <3>7. ~WaitOnce => \A w \in Slots : waitQueue[w] = NULL
      BY DEF KernelInv, WaitsHold
    <3> QED BY <1>2, <3>4, <3>5, <3>6, <3>7 DEF WaitsHold, State
  <2>9. MailHolds'
    <3>1. PICK box : MailWith(mail, sched.state, result, NULL, box)
      BY <1>1 DEF KernelInv, MailHolds
    <3>2. mail' = Emptied(mail, b) /\ sched'.state = [sched.state EXCEPT ![b] = "READY"]
      BY <1>4, <2>4 DEF Emptied, b
    <3>3. MailWith(mail', sched'.state, result, NULL, box)
      BY <1>1, <2>2, <3>1, <3>2, CreateSound DEF State
    <3> QED BY <1>1, <1>2, <1>4, <3>3 DEF MailHolds, NoResult
  <2>10. Queued(sched') /\ \A t \in Slots : State(t)' = "ACTIVE" => State(t) = "ACTIVE"
    BY <2>2, <2>4, <2>5 DEF State
  <2> QED BY <1>1, <1>2, <1>4, <2>6, <2>7, <2>8, <2>9, <2>10, AnyCall DEF NoResult
<1> QED BY <1>3, <1>4 DEF Create

LEMMA CreateHasBlock ==
  ASSUME TypeInv, KernelInv, MaxTasks < NumBlocks, NEW p \in 0 .. NumPriorities, Create(p)
  PROVE  pc' # "corrupt"
<1>1. blocks + Cardinality(Live) = NumBlocks - 1 /\ blocks \in Nat /\ Cardinality(Live) < MaxTasks
  BY DEF KernelInv, BankHolds, TypeInv, TypeOK, Create
<1>2. Cardinality(Live) \in Nat
  <2>1. Live \subseteq Slots
    BY DEF Live
  <2>2. IsFiniteSet(Live)
    BY <2>1, SlotsFinite, FS_Subset
  <2> QED BY <2>2, FS_CardinalityType
<1>3. blocks # 0
  BY <1>1, <1>2
<1> QED BY <1>3 DEF Create, NoResult

-----------------------------------------------------------------------------
(* destroyTaskD wakes the first of the tasks that wait for the victim. *)
LEMMA WakeMoves ==
  ASSUME TypeInv, KernelInv, NEW v \in Slots, State(v) # "FREE",
         NEW w, w = waitQueue[v], NEW q, q = WakeWaiters(v)
  PROVE  /\ q \in Scheduler /\ Queued(q)
         /\ w # NULL => w \in Slots /\ State(w) = "WAITTID_BL"
         /\ q.state = [t \in Slots |-> IF t = w THEN "READY" ELSE State(t)]
         /\ \A u \in Slots : State(u) = "FREE" => q.next[u] = sched.next[u]
<1>1. /\ sched \in Scheduler /\ Queued(sched) /\ sched.state \in [Slots -> TaskState]
      /\ w \in SlotPtr
  BY DEF TypeInv, TypeOK, KernelInv, Scheduler
<1>2. w # NULL => w \in Slots /\ State(w) = "WAITTID_BL"
  <2>1. v \in Live
    BY DEF Live
  <2> QED BY <1>1, <2>1 DEF KernelInv, WaitsHold, SlotPtr
<1>3. CASE w = NULL
  <2>1. q = sched /\ \A t \in Slots : t # w
    BY <1>3, NoNull DEF WakeWaiters
  <2> QED BY <1>1, <1>2, <2>1 DEF State
<1>4. CASE w # NULL
  <2>1. q = AddTask(sched, w) /\ sched.state[w] # "READY" /\ w \in Slots
    BY <1>2, <1>4 DEF WakeWaiters, State
  <2>2. Moved(sched, q, w, "READY")
    BY <1>1, <2>1, AddTaskMoves
  <2> QED BY <1>1, <1>2, <1>4, <2>2 DEF Moved, State
<1> QED BY <1>3, <1>4

(* destroyTaskD takes the victim out of the ready queue it may be in. *)
Condemned(q, v) == Cleared(IF q.state[v] = "READY" THEN Unlink(q, v) ELSE q, v)

LEMMA VictimMoves ==
  ASSUME NEW q \in Scheduler, Queued(q), NEW v \in Slots, NEW r, r = Condemned(q, v)
  PROVE  /\ q.state[v] = "READY" => CanUnlink(q, v)
         /\ r \in Scheduler /\ Queued(r) /\ r.state = [q.state EXCEPT ![v] = "FREE"]
         /\ \A u \in Slots : q.state[u] # "READY" => r.next[u] = q.next[u]
<1>1. CASE q.state[v] = "READY"
  <2>1. CanUnlink(q, v)
    <3> DEFINE p == q.prio[v]
    <3>1. p \in Priorities /\ v \in ReadyAt(q, p)
      BY <1>1 DEF Scheduler, ReadyAt
    <3>2. ListFrom(q, q.head[p]) = ReadyAt(q, p) /\ q.avail = {o \in Priorities : ReadyAt(q, o) # {}}
      BY <3>1, QueuedFacts DEF Queued
    <3> QED BY <3>1, <3>2 DEF CanUnlink
  <2>2. r = Cleared(Unlink(q, v), v)
    BY <1>1 DEF Condemned
  <2> QED BY <1>1, <2>1, <2>2, QueuedUnlink
<1>2. CASE q.state[v] # "READY"
  <2>1. r = Cleared(q, v)
    BY <1>2 DEF Condemned
  <2>2. /\ r \in Scheduler /\ r.state = [q.state EXCEPT ![v] = "FREE"] /\ r.next = q.next
        /\ r.prio = [q.prio EXCEPT ![v] = 0] /\ r.head = q.head /\ r.tail = q.tail
        /\ r.avail = q.avail /\ r.highest = q.highest
    <3>1. \A u : r = Cleared(u, v) /\ u \in Scheduler =>
            /\ r \in Scheduler /\ r.state = [u.state EXCEPT ![v] = "FREE"] /\ r.next = u.next
            /\ r.prio = [u.prio EXCEPT ![v] = 0] /\ r.head = u.head /\ r.tail = u.tail
            /\ r.avail = u.avail /\ r.highest = u.highest
      BY ClearedFields
    <3> QED BY <2>1, <3>1
  <2>3. SameQueues(q, r)
    BY <1>2, <2>2 DEF SameQueues, Scheduler
  <2> QED BY <1>2, <2>2, <2>3, QueuedKeeps
<1> QED BY <1>1, <1>2

(* EnvSet as the lists see it. *)
LEMMA EnvSetMet ==
  ASSUME NEW m, NEW from
  PROVE  EnvSet(m, from) = Met(Envelopes, m.next, NULL, from)
BY DEF EnvSet, Met

(* destroyTaskD up to its loop over the inbox. *)
LEMMA BeginKeeps ==
  ASSUME TypeInv, KernelInv, pc = "user", NEW v \in Slots,
         State(v) \in {"ACTIVE", "READY", "SEND_BL", "REPL_BL"}, BeginDestroy(v)
  PROVE  KernelInv' /\ pc' # "corrupt"
<1> DEFINE q == WakeWaiters(v)
           w == waitQueue[v]
           r == Condemned(q, v)
<1>1. /\ victim = NULL /\ OneActive /\ sched.state \in [Slots -> TaskState] /\ mail \in Mail
      /\ blocks \in Nat /\ waitQueue \in [Slots -> SlotPtr]
  BY Caller DEF TypeInv, TypeOK
<1>2. /\ q \in Scheduler /\ Queued(q)
      /\ w # NULL => w \in Slots /\ State(w) = "WAITTID_BL"
      /\ q.state = [t \in Slots |-> IF t = w THEN "READY" ELSE State(t)]
      /\ \A u \in Slots : State(u) = "FREE" => q.next[u] = sched.next[u]
  BY WakeMoves
<1>3. /\ w # v
      /\ \A t \in Slots : t = w => State(t) = "WAITTID_BL"
  BY <1>2, NoNull
<1>4. /\ q.state[v] = "READY" => CanUnlink(q, v)
      /\ r \in Scheduler /\ Queued(r) /\ r.state = [q.state EXCEPT ![v] = "FREE"]
      /\ \A u \in Slots : q.state[u] # "READY" => r.next[u] = q.next[u]
  <2> HIDE DEF q
  <2> QED BY <1>2, VictimMoves
<1>5. /\ sched' = r /\ blocks' = blocks + 1 /\ victim' = v /\ pc' = "drain"
      /\ UNCHANGED <<mail, waitQueue, waiter, bank, current>>
      /\ result' = [t \in Slots |-> IF t = v THEN "none" ELSE IF t = w THEN "ok" ELSE result[t]]
  BY <1>4 DEF BeginDestroy, Condemned, Cleared
<1> HIDE DEF q, r
<1>6. /\ sched'.state[v] = "FREE" /\ \A t \in Slots : t = w => sched'.state[t] = "READY"
      /\ \A t \in Slots : t \notin {v, w} => sched'.state[t] = State(t)
      /\ \A u \in Slots : State(u) = "FREE" => sched'.next[u] = sched.next[u]
  <2>1. \A t \in Slots : sched'.state[t] = IF t = v THEN "FREE" ELSE IF t = w THEN "READY" ELSE State(t)
    BY <1>2, <1>4, <1>5
  <2>2. \A u \in Slots : State(u) = "FREE" => q.state[u] # "READY"
    BY <1>2, <1>3
  <2> QED BY <1>2, <1>3, <1>4, <1>5, <2>1, <2>2
<1> HIDE DEF w
<1>7. BankHolds'
  <2>1. Freed' = Freed
    BY <1>1, <1>2, <1>5, <1>6, NoNull DEF Freed, State
  <2>2. IsList(Slots, sched'.next, NULL, bank, Freed)
    <3> DEFINE F == Freed
    <3>1. IsList(Slots, sched.next, NULL, bank, F) /\ \A t \in F : sched'.next[t] = sched.next[t]
      BY <1>6 DEF KernelInv, BankHolds, Freed
    <3> HIDE DEF F
    <3>2. IsList(Slots, sched'.next, NULL, bank, F)
      BY <3>1, ListKeeps
    <3> QED BY <3>2 DEF F
  <2>3. blocks' + Cardinality(Live') = NumBlocks - 1
    <3>1. Live' = Live \ {v} /\ v \in Live /\ Live \subseteq Slots
      BY <1>1, <1>3, <1>6 DEF Live, State
    <3>2. IsFiniteSet(Live)
      BY <3>1, SlotsFinite, FS_Subset
    <3>3. Cardinality(Live') = Cardinality(Live) - 1 /\ Cardinality(Live) \in Nat
      BY <3>1, <3>2, FS_RemoveElement, FS_CardinalityType
    <3>4. blocks + Cardinality(Live) = NumBlocks - 1
      BY DEF KernelInv, BankHolds
    <3> QED BY <1>1, <1>5, <3>3, <3>4
  <2> QED BY <1>5, <2>1, <2>2, <2>3 DEF BankHolds
<1>8. EventsHold'
  <2>1. \A t \in Slots : State(t)' = "EVENT_BL" <=> State(t) = "EVENT_BL"
    BY <1>3, <1>6 DEF State
  <2> QED BY <1>5, <2>1, EventsKeep DEF KernelInv
<1>9. WaitsHold'
  <2>1. Live' = Live \ {v} /\ v \in Live /\ Live \subseteq Slots
    BY <1>1, <1>3, <1>6 DEF Live, State
  <2>2. \A u \in Live : waitQueue[u] # NULL =>
          waitQueue[u] \in Slots /\ State(waitQueue[u]) = "WAITTID_BL"
    BY <1>1, <2>1 DEF KernelInv, WaitsHold, SlotPtr
  <2>3. \A u, y \in Live : waitQueue[u] = waitQueue[y] /\ waitQueue[u] # NULL => u = y
    BY DEF KernelInv, WaitsHold
  <2>4. ASSUME NEW u \in Live', waitQueue[u] # NULL PROVE sched'.state[waitQueue[u]] = "WAITTID_BL"
    <3>1. u # v /\ waitQueue[u] # w /\ waitQueue[u] # v
      BY <2>1, <2>2, <2>3, <2>4 DEF w
    <3> QED BY <1>6, <2>1, <2>2, <2>4, <3>1
  <2>5. ASSUME NEW t \in Slots, sched'.state[t] = "WAITTID_BL"
        PROVE  \E u \in Live' : waitQueue[u] = t
    <3>1. t # v /\ t # w /\ State(t) = "WAITTID_BL"
      BY <1>6, <2>5, NoNull
    <3>2. PICK u \in Live : waitQueue[u] = t
      BY <3>1 DEF KernelInv, WaitsHold
    <3> QED BY <2>1, <3>1, <3>2 DEF w
  <2>6. ~WaitOnce => \A u \in Slots : waitQueue[u] = NULL
    BY DEF KernelInv, WaitsHold
  <2>7. \A u, y \in Live' : waitQueue[u] = waitQueue[y] /\ waitQueue[u] # NULL => u = y
    BY <2>1, <2>3
  <2> QED BY <1>5, <2>4, <2>5, <2>6, <2>7 DEF WaitsHold, State
<1>10. PICK box : MailWith(mail, sched.state, result, NULL, box)
  BY <1>1 DEF KernelInv, MailHolds
<1>11. MailHolds'
  <2>1. \A t \in Slots \ {v} :
          sched'.state[t] = sched.state[t] \/ (sched.state[t] \in Awake /\ sched'.state[t] \in Awake)
    BY <1>3, <1>6 DEF State, Awake
  <2>2. \A t \in Slots \ {v} : sched.state[t] = "SEND_BL" => result'[t] = result[t]
    BY <1>3, <1>5 DEF State
  <2>3. sched.state[v] # "RECV_BL" /\ sched'.state[v] = "FREE"
    BY <1>6 DEF State
  <2>4. Destroyed(sched.state, sched'.state, result, result', v)
    BY <2>1, <2>2, <2>3 DEF Destroyed
  <2>5. MailWith(mail, sched'.state, result', v, box)
    BY <1>1, <1>10, <2>4, BeginSound
  <2> QED BY <1>5, <2>5 DEF MailHolds
<1>12. LastOf(mail, v)
  <2>1. IsQueue(Envelopes, mail.next, NULL, mail.inHead[v], mail.inTail[v], box[v])
    BY <1>10, NoNull DEF MailWith, BoxesSound
  <2>2. /\ IsList(Envelopes, mail.next, NULL, mail.inHead[v], box[v])
        /\ mail.inTail[v] = NULL <=> box[v] = {}
        /\ mail.inTail[v] # NULL => mail.inTail[v] \in box[v] /\ mail.next[mail.inTail[v]] = NULL
    BY <2>1, NullEnvelope, QueueFacts
  <2>3. /\ mail.inHead[v] = NULL <=> box[v] = {}
        /\ Met(Envelopes, mail.next, NULL, mail.inHead[v]) = box[v]
    BY <2>2, NullEnvelope, ListFacts
  <2> QED BY <2>2, <2>3 DEF LastOf
<1>13. OneActive' /\ TopRuns' /\ Draining' /\ Queued(sched')
  <2>1. \A t \in Slots : sched'.state[t] = "ACTIVE" => t = current
    BY <1>1, <1>6, NoNull DEF OneActive, State
  <2> QED BY <1>4, <1>5, <1>6, <1>12, <2>1, NoNull DEF OneActive, TopRuns, Draining, State
<1> QED BY <1>5, <1>7, <1>8, <1>9, <1>11, <1>13 DEF KernelInv

LEMMA ExitKeeps ==
  ASSUME TypeInv, KernelInv, Exit
  PROVE  KernelInv' /\ pc' # "corrupt"
<1>1. pc = "user" /\ current \in Slots /\ State(current) = "ACTIVE" /\ BeginDestroy(current)
  BY Caller DEF Exit, Calling
<1> QED BY <1>1, BeginKeeps

LEMMA DestroyKeeps ==
  ASSUME CleanHabits, TypeInv, KernelInv, NEW x \in Tids, Destroy(x)
  PROVE  KernelInv' /\ pc' # "corrupt"
<1>1. /\ pc = "user" /\ TaskOf(x) \in Slots /\ BeginDestroy(TaskOf(x))
      /\ State(TaskOf(x)) \in {"READY", "SEND_BL", "REPL_BL"}
  BY TaskOfType DEF Destroy, Calling, SlotPtr, CleanHabits
<1> QED BY <1>1, BeginKeeps

-----------------------------------------------------------------------------
(* A turn of the loop over the victim's inbox. *)
LEMMA DrainKeeps ==
  ASSUME TypeInv, KernelInv, DrainInbox
  PROVE  KernelInv' /\ pc' # "corrupt"
<1> DEFINE v == victim
           e == mail.inHead[v]
           t == mail.sender[e]
<1>1. /\ v \in Slots /\ State(v) = "FREE" /\ LastOf(mail, v) /\ Queued(sched) /\ OneActive
      /\ sched \in Scheduler /\ mail \in Mail /\ sched.state \in [Slots -> TaskState]
      /\ pc = "drain" /\ e # NULL
  BY DEF DrainInbox, KernelInv, Draining, TypeInv, TypeOK, SlotPtr, Scheduler
<1>2. PICK box : MailWith(mail, sched.state, result, v, box)
  BY DEF KernelInv, MailHolds
<1>3. /\ e \in Envelopes /\ t \in Slots /\ State(t) = "RECV_BL" /\ t # NULL
  BY <1>1, <1>2, FirstSender, NoNull DEF State
<1>4. /\ sched' = AddTask(sched, t) /\ mail' = Drained(mail, v, e, t)
      /\ result' = [result EXCEPT ![t] = "TASK_DESTROYED"]
      /\ UNCHANGED <<waitQueue, waiter, blocks, bank, current, victim, pc>>
  BY <1>3 DEF DrainInbox, Drained
<1> HIDE DEF t, e, v
<1>5. Moved(sched, sched', t, "READY")
  BY <1>1, <1>3, <1>4, AddTaskMoves DEF State
<1>6. sched'.state[t] = "READY" /\ \A u \in Slots : u # t => sched'.state[u] = State(u)
  BY <1>1, <1>3, <1>5 DEF Moved, State
<1>7. Calm
  BY <1>3, <1>4, <1>5, <1>6 DEF Moved, Calm, State
<1>8. MailWith(mail', sched'.state, result', v, [box EXCEPT ![v] = @ \ {e}])
  <2>1. \A u \in Slots \ {t} : result'[u] = result[u]
    BY <1>4
  <2>2. sched'.state = [sched.state EXCEPT ![t] = "READY"] /\ sched.state[v] = "FREE"
    BY <1>1, <1>5 DEF Moved, State
  <2>3. Turn(mail, sched.state, sched'.state, result, result', v, e, t)
    BY <1>1, <2>1, <2>2 DEF Turn, e, t
  <2> QED BY <1>1, <1>2, <1>4, <2>3, DrainSound
<1>9. MailHolds'
  BY <1>4, <1>8 DEF MailHolds, v
<1>10. LastOf(mail', v)
  <2> DEFINE S == box[v]
             last == mail.inTail[v]
  <2>1. /\ mail.next \in [Envelopes -> EnvPtr] /\ mail.inHead \in [Slots -> EnvPtr]
        /\ box \in [Slots -> SUBSET Envelopes]
        /\ e = mail.inHead[v]
    BY <1>1, <1>2 DEF Mail, MailWith, BoxesSound, e
  <2>2. /\ mail'.inTail = mail.inTail /\ mail'.inHead = [mail.inHead EXCEPT ![v] = mail.next[e]]
        /\ mail'.next = [mail.next EXCEPT ![e] = mail.free]
    BY <1>1, <1>4 DEF Mail, Drained, ReleaseEnvelope
  <2>3. IsList(Envelopes, mail.next, NULL, e, S)
    BY <1>1, <1>2, <2>1 DEF MailWith, BoxesSound
  <2>4. IsList(Envelopes, mail'.next, NULL, mail'.inHead[v], S \ {e})
    <3>1. [box EXCEPT ![v] = @ \ {e}][v] = S \ {e}
      BY <1>1, <2>1
    <3> QED BY <1>1, <1>8, <3>1 DEF MailWith, BoxesSound
  <2> HIDE DEF S
  <2>5. Met(Envelopes, mail.next, NULL, e) = S /\ S \subseteq Envelopes
    BY <2>3, NullEnvelope, ListFacts
  <2>6. Met(Envelopes, mail'.next, NULL, mail'.inHead[v]) = S \ {e}
    BY <2>4, NullEnvelope, ListFacts
  <2>7. last \in S /\ mail.next[last] = NULL
    BY <1>1, <2>1, <2>5 DEF LastOf
  <2>8. mail'.inHead[v] # NULL => last # e
    BY <1>1, <2>1, <2>2, <2>7
  <2>9. mail'.inHead[v] # NULL => last \in S \ {e} /\ mail'.next[last] = NULL
    BY <2>1, <2>2, <2>5, <2>7, <2>8
  <2> QED BY <2>2, <2>6, <2>9 DEF LastOf
<1>11. OneActive' /\ TopRuns' /\ Draining' /\ Queued(sched')
  <2>1. \A u \in Slots : sched'.state[u] = "ACTIVE" => u = current
    BY <1>1, <1>6 DEF OneActive, State
  <2>2. sched'.state[v] = "FREE" /\ v' = v
    BY <1>1, <1>3, <1>4, <1>6 DEF v
  <2> QED BY <1>1, <1>4, <1>5, <1>10, <2>1, <2>2, NoNull DEF Moved, OneActive, TopRuns, Draining, State, v
<1> QED BY <1>1, <1>4, <1>7, <1>9, <1>11, CalmKeeps DEF KernelInv

(* The end of destroyTaskD: the descriptor is back in the bank. *)
LEMMA FinishKeeps ==
  ASSUME TypeInv, KernelInv, FinishDestroy
  PROVE  KernelInv' /\ pc' # "corrupt"
<1> DEFINE v == victim
<1>1. /\ v \in Slots /\ State(v) = "FREE" /\ Queued(sched) /\ OneActive
      /\ sched \in Scheduler /\ mail \in Mail /\ sched.state \in [Slots -> TaskState]
      /\ pc = "drain" /\ v # NULL
  BY NoNull DEF FinishDestroy, KernelInv, Draining, TypeInv, TypeOK, SlotPtr, Scheduler
<1>2. PICK box : MailWith(mail, sched.state, result, v, box)
  BY DEF KernelInv, MailHolds
<1>3. /\ sched' = [sched EXCEPT !.next[v] = bank] /\ bank' = v
      /\ current' = (IF current = v THEN NULL ELSE current) /\ victim' = NULL
      /\ pc' = "schedule" /\ UNCHANGED <<result, waitQueue, waiter, blocks>>
      /\ mail.inHead[v] = NULL /\ mail' = Finished(mail, v)
  BY DEF FinishDestroy, ReturnToBank, NoResult, Finished
<1> HIDE DEF v
<1>4. /\ sched'.state = sched.state /\ sched'.prio = sched.prio
      /\ sched'.next = [sched.next EXCEPT ![v] = bank]
      /\ sched'.head = sched.head /\ sched'.tail = sched.tail
      /\ sched'.avail = sched.avail /\ sched'.highest = sched.highest
  BY <1>3 DEF Scheduler, TypeInv, TypeOK
<1>5. sched'.next[v] = bank /\ \A u \in Slots : u # v => sched'.next[u] = sched.next[u]
  BY <1>1, <1>4 DEF Scheduler
<1>6. Queued(sched')
  <2>1. SameQueues(sched, sched')
    BY <1>1, <1>4, <1>5 DEF SameQueues, State
  <2> QED BY <1>1, <2>1, QueuedKeeps
<1>7. BankHolds'
  <2> DEFINE F == Freed
  <2>1. IsList(Slots, sched.next, NULL, bank, F) /\ blocks + Cardinality(Live) = NumBlocks - 1
    BY DEF KernelInv, BankHolds
  <2>2. v \notin F /\ Freed' = F \cup {v} /\ Live' = Live /\ \A u \in F : sched'.next[u] = sched.next[u]
    BY <1>1, <1>3, <1>4, <1>5, NoNull DEF Freed, Live, State, v
  <2> HIDE DEF F
  <2>3. IsList(Slots, sched'.next, NULL, v, F \cup {v})
    BY <1>1, <1>5, <2>1, <2>2, NoNull, ListPush
  <2> QED BY <1>3, <2>1, <2>2, <2>3 DEF BankHolds
<1>8. EventsHold' /\ WaitsHold'
  <2>1. \A u \in Slots : State(u)' = State(u)
    BY <1>4 DEF State
  <2> QED BY <1>3, <2>1, EventsKeep, WaitsKeep DEF KernelInv
<1>9. MailHolds'
  <2>1. MailWith(mail', sched.state, result, NULL, box)
    BY <1>1, <1>2, <1>3, FinishSound DEF State
  <2> QED BY <1>3, <1>4, <2>1 DEF MailHolds
<1>10. OneActive' /\ TopRuns' /\ Draining'
  <2>1. \A u \in Slots : State(u) = "ACTIVE" => u = current /\ u # v
    BY <1>1 DEF OneActive
  <2> QED BY <1>1, <1>3, <1>4, <2>1 DEF OneActive, TopRuns, Draining, State
<1> QED BY <1>3, <1>6, <1>7, <1>8, <1>9, <1>10 DEF KernelInv

LEMMA IdleKeeps ==
  ASSUME TypeInv, KernelInv, Pass \/ Terminate \/ \E x \in Tids : DestroyDead(x)
  PROVE  KernelInv' /\ (pc' = "corrupt" => "DestroyDead" \in Calls)
<1>1. /\ pc = "user" /\ pc' \in {"schedule", "halted", "corrupt"}
      /\ UNCHANGED <<sched, mail, waitQueue, result, waiter, blocks, bank, current, victim>>
      /\ pc' = "corrupt" => "DestroyDead" \in Calls
  BY DEF Pass, Terminate, DestroyDead, Calling, NoResult, Corrupt
<1> QED BY <1>1, IdleCall

-----------------------------------------------------------------------------
(* The state boot() leaves. *)
LEMMA InitialQueued == Queued(InitialScheduler)
<1> DEFINE q == InitialScheduler
<1>1. /\ q.state = [t \in Slots |-> "FREE"] /\ q.avail = {} /\ q.highest = -1
      /\ q.head = [p \in Priorities |-> NULL] /\ q.tail = [p \in Priorities |-> NULL]
  BY DEF InitialScheduler
<1> HIDE DEF q
<1>2. \A p : ReadyAt(q, p) = {}
  BY <1>1 DEF ReadyAt
<1>3. ASSUME NEW p \in Priorities PROVE QueuedAt(q, p)
  <2>1. q.head[p] = NULL /\ q.tail[p] = NULL
    BY <1>1
  <2> QED BY <1>2, <2>1, EmptyQueue DEF QueuedAt
<1> QED BY <1>1, <1>2, <1>3 DEF Queued, HighestOf, q

(* The list of the numbers from a to b, each linked to the next, and from b to a. *)
LEMMA ListUp ==
  ASSUME NEW a \in Nat, NEW b \in Nat, a <= b, NEW D, a .. b \subseteq D, NEW nil, NEW next,
         \A x \in a .. b : next[x] = IF x < b THEN x + 1 ELSE nil
  PROVE  IsList(D, next, nil, a, a .. b)
<1> DEFINE n == b - a + 1
           s == [i \in 1 .. n |-> a + i - 1]
<1>1. n \in Nat /\ n >= 1 /\ \A i \in 1 .. n : a + i - 1 \in a .. b
  OBVIOUS
<1>2. s \in Seq(D) /\ Len(s) = n
  <2>1. s \in [1 .. n -> D]
    BY <1>1
  <2> HIDE DEF s, n
  <2>2. DOMAIN s = 1 .. n
    BY <2>1
  <2>3. s \in Seq(D)
    BY <1>1, <2>1, SeqDef
  <2> QED BY <1>1, <2>2, <2>3, LenProperties
<1>3. \A i \in 1 .. n : s[i] = a + i - 1
  OBVIOUS
<1> HIDE DEF s
<1>4. Elements(s) = a .. b
  <2>1. \A x \in a .. b : \E i \in 1 .. n : s[i] = x
    <3>1. \A x \in a .. b : x - a + 1 \in 1 .. n /\ s[x - a + 1] = x
      BY <1>3
    <3> QED BY <3>1
  <2>2. \A i \in 1 .. n : s[i] \in a .. b
    BY <1>1, <1>3
  <2>3. Elements(s) = {s[i] : i \in 1 .. n}
    BY <1>2 DEF Elements
  <2> QED BY <2>1, <2>2, <2>3
<1>5. Linked(next, nil, a, s)
  <2>1. s # <<>> /\ s[1] = a
    BY <1>1, <1>2, <1>3
  <2>2. ASSUME NEW i \in 1 .. n PROVE next[s[i]] = IF i < n THEN s[i + 1] ELSE nil
    <3>1. s[i] \in a .. b /\ s[i] = a + i - 1 /\ (i < n => s[i + 1] = a + i)
      BY <1>1, <1>3
    <3>2. s[i] < b <=> i < n
      BY <3>1
    <3> QED BY <3>1, <3>2
  <2>3. \A i, j \in 1 .. n : s[i] = s[j] => i = j
    BY <1>3
  <2> QED BY <1>2, <2>1, <2>2, <2>3 DEF Linked
<1> QED BY <1>2, <1>4, <1>5 DEF IsList

LEMMA ListDown ==
  ASSUME NEW b \in Nat, NEW nil, NEW next,
         \A x \in 0 .. b : next[x] = IF x = 0 THEN nil ELSE x - 1
  PROVE  IsList(0 .. b, next, nil, b, 0 .. b)
<1> DEFINE n == b + 1
           s == [i \in 1 .. n |-> n - i]
<1>1. n \in Nat /\ n >= 1 /\ \A i \in 1 .. n : n - i \in 0 .. b
  OBVIOUS
<1>2. s \in Seq(0 .. b) /\ Len(s) = n
  <2>1. s \in [1 .. n -> 0 .. b]
    BY <1>1
  <2> HIDE DEF s, n
  <2>2. DOMAIN s = 1 .. n
    BY <2>1
  <2>3. s \in Seq(0 .. b)
    BY <1>1, <2>1, SeqDef
  <2> QED BY <1>1, <2>2, <2>3, LenProperties
<1>3. \A i \in 1 .. n : s[i] = n - i
  OBVIOUS
<1> HIDE DEF s
<1>4. Elements(s) = 0 .. b
  <2>1. \A x \in 0 .. b : \E i \in 1 .. n : s[i] = x
    <3>1. \A x \in 0 .. b : n - x \in 1 .. n /\ s[n - x] = x
      BY <1>3
    <3> QED BY <3>1
  <2>2. \A i \in 1 .. n : s[i] \in 0 .. b
    BY <1>1, <1>3
  <2>3. Elements(s) = {s[i] : i \in 1 .. n}
    BY <1>2 DEF Elements
  <2> QED BY <2>1, <2>2, <2>3
<1>5. Linked(next, nil, b, s)
  <2>1. s # <<>> /\ s[1] = b
    BY <1>1, <1>2, <1>3
  <2>2. ASSUME NEW i \in 1 .. n PROVE next[s[i]] = IF i < n THEN s[i + 1] ELSE nil
    <3>1. s[i] \in 0 .. b /\ s[i] = n - i /\ (i < n => s[i + 1] = n - i - 1)
      BY <1>1, <1>3
    <3>2. s[i] = 0 <=> ~(i < n)
      BY <3>1
    <3> QED BY <3>1, <3>2
  <2>3. \A i, j \in 1 .. n : s[i] = s[j] => i = j
    BY <1>3
  <2> QED BY <1>2, <2>1, <2>2, <2>3 DEF Linked
<1> QED BY <1>2, <1>4, <1>5 DEF IsList

LEMMA InitMail ==
  ASSUME Init
  PROVE  MailWith(mail, sched.state, result, NULL, [r \in Slots |-> {}])
         \/ \E t \in Slots : State(t) \notin {"FREE", "READY"}
<1> SUFFICES ASSUME \A t \in Slots : State(t) \in {"FREE", "READY"}
             PROVE  MailWith(mail, sched.state, result, NULL, [r \in Slots |-> {}])
  OBVIOUS
<1> DEFINE box == [r \in Slots |-> {}]
<1>1. /\ mail.next = [e \in Envelopes |-> IF e = 0 THEN NULL ELSE e - 1]
      /\ mail.free = NumEnvelopes - 1
      /\ \A t \in Slots : /\ mail.inHead[t] = NULL /\ mail.inTail[t] = NULL
                          /\ mail.outbox[t] = NULL
  BY DEF Init
<1>2. FreeSound(mail)
  <2>1. Outs(mail) = {}
    BY <1>1 DEF Outs
  <2>2. IsList(Envelopes, mail.next, NULL, mail.free, Envelopes)
    <3> DEFINE b == NumEnvelopes - 1
               next == mail.next
    <3>1. b \in Nat /\ Envelopes = 0 .. b /\ \A x \in 0 .. b : next[x] = IF x = 0 THEN NULL ELSE x - 1
      BY <1>1 DEF Envelopes
    <3> HIDE DEF b, next
    <3>2. IsList(0 .. b, next, NULL, b, 0 .. b)
      BY <3>1, ListDown
    <3> QED BY <1>1, <3>1, <3>2 DEF b, next
  <2> QED BY <1>1, <2>1, <2>2 DEF FreeSound
<1>3. BoxesSound(mail, NULL, box)
  <2>1. IsQueue(Envelopes, mail.next, NULL, NULL, NULL, {})
    BY EmptyQueue
  <2>2. IsList(Envelopes, mail.next, NULL, NULL, {})
    BY <2>1, NullEnvelope, QueueFacts
  <2> QED BY <1>1, <2>1, <2>2 DEF BoxesSound
<1>4. SendersSound(mail, sched.state, box) /\ HoldersSound(mail, sched.state, result, NULL)
  BY <1>1 DEF SendersSound, HoldersSound, State
<1> QED BY <1>2, <1>3, <1>4 DEF MailWith

LEMMA InitKernelInv == Init => KernelInv
<1> SUFFICES ASSUME Init PROVE KernelInv
  OBVIOUS
<1> DEFINE q == InitialScheduler
           r == Boot(q, FirstTask, FirstPriority)
           lowest == 0
<1>1. FirstTask \in Slots /\ NullTask \in Slots /\ FirstTask # NullTask
      /\ FirstPriority \in 0 .. NumPriorities /\ lowest \in 0 .. NumPriorities
  BY DEF FirstTask, NullTask, Slots, Priorities
<1>2. /\ q \in Scheduler /\ Queued(q) /\ q.state = [t \in Slots |-> "FREE"]
      /\ q.next = [t \in Slots |-> IF t < NumSlots - 1 THEN t + 1 ELSE NULL]
  BY InitialSchedulerType, InitialQueued DEF InitialScheduler
<1> HIDE DEF q
<1>3. /\ r \in Scheduler /\ Queued(r) /\ r.state = [q.state EXCEPT ![FirstTask] = "READY"]
      /\ \A u \in Slots : u # FirstTask /\ q.state[u] # "READY" => r.next[u] = q.next[u]
  BY <1>1, <1>2, BootMoves
<1>4. sched = Boot(r, NullTask, lowest)
  BY DEF Init, q
<1> HIDE DEF r, lowest
<1>5. r.state[NullTask] # "READY"
  BY <1>1, <1>2, <1>3
<1>6. /\ Queued(sched) /\ sched.state = [r.state EXCEPT ![NullTask] = "READY"]
      /\ \A u \in Slots : u # NullTask /\ r.state[u] # "READY" => sched.next[u] = r.next[u]
  <2>1. r \in Scheduler /\ Queued(r)
    BY <1>3
  <2> QED BY <1>1, <1>4, <1>5, <2>1, BootMoves
<1>7. \A t \in Slots : /\ State(t) = IF t \in {FirstTask, NullTask} THEN "READY" ELSE "FREE"
                       /\ t \notin {FirstTask, NullTask} => sched.next[t] = q.next[t]
  <2>1. \A t \in Slots : r.state[t] = IF t = FirstTask THEN "READY" ELSE "FREE"
    BY <1>2, <1>3
  <2> QED BY <1>2, <1>3, <1>6, <2>1 DEF State
<1>8. victim = NULL /\ current = NULL /\ pc = "schedule"
  BY DEF Init
<1>9. OneActive /\ TopRuns /\ Draining
  BY <1>7, <1>8 DEF OneActive, TopRuns, Draining
<1>10. BankHolds
  <2>1. Freed = 2 .. NumSlots - 1
    BY <1>7, <1>8, NoNull DEF Freed, FirstTask, NullTask, Slots
  <2>2. IsList(Slots, sched.next, NULL, bank, Freed)
    <3>1. CASE NumSlots > 2
      <4> DEFINE b == NumSlots - 1
                 next == sched.next
      <4>1. /\ b \in Nat /\ 2 <= b /\ 2 .. b \subseteq Slots /\ bank = 2
            /\ \A x \in 2 .. b : next[x] = IF x < b THEN x + 1 ELSE NULL
        BY <1>2, <1>7, <3>1 DEF FirstTask, NullTask, Slots, Init
      <4> HIDE DEF b, next
      <4>2. IsList(Slots, next, NULL, 2, 2 .. b)
        BY <4>1, ListUp
      <4> QED BY <2>1, <4>1, <4>2 DEF b, next
    <3>2. CASE ~(NumSlots > 2)
      <4>1. bank = NULL /\ Freed = {}
        BY <2>1, <3>2 DEF Init
      <4>2. IsQueue(Slots, sched.next, NULL, NULL, NULL, {})
        BY EmptyQueue
      <4>3. IsList(Slots, sched.next, NULL, NULL, {})
        BY <4>2, NoNull, QueueFacts
      <4> QED BY <4>1, <4>3
    <3> QED BY <3>1, <3>2
  <2>3. Live = {FirstTask, NullTask}
    BY <1>1, <1>7 DEF Live
  <2>4. Cardinality({FirstTask, NullTask}) = 2
    <3> DEFINE S == {FirstTask}
    <3>1. IsFiniteSet(S) /\ Cardinality(S) = 1
      BY FS_Singleton
    <3>2. {FirstTask, NullTask} = S \cup {NullTask} /\ NullTask \notin S
      BY <1>1
    <3> HIDE DEF S
    <3>3. Cardinality(S \cup {NullTask}) = 2
      <4>1. Cardinality(S \cup {NullTask}) = Cardinality(S) + 1
        BY <3>1, <3>2, FS_AddElement
      <4> QED BY <3>1, <4>1
    <3> QED BY <3>2, <3>3
  <2>5. blocks = NumBlocks - 3
    BY DEF Init
  <2> QED BY <2>2, <2>3, <2>4, <2>5 DEF BankHolds
<1>11. EventsHold /\ WaitsHold
  BY <1>7 DEF Init, EventsHold, EventsSound, WaitsHold, Live
<1>12. MailHolds
  BY <1>7, <1>8, InitMail DEF MailHolds
<1> QED BY <1>6, <1>9, <1>10, <1>11, <1>12 DEF KernelInv

-----------------------------------------------------------------------------
LEMMA NextKernelInv ==
  ASSUME CleanHabits, TypeInv, KernelInv, [Next]_vars
  PROVE  KernelInv'
<1>1. CASE UNCHANGED vars
  <2>1. /\ UNCHANGED <<mail, result, waitQueue, waiter, blocks, bank, current, victim, pc>>
        /\ sched' = sched
    BY <1>1 DEF vars
  <2>2. Calm /\ MailHolds'
    BY <2>1 DEF Calm, State, KernelInv, MailHolds
  <2>3. Queued(sched') /\ OneActive' /\ TopRuns' /\ Draining'
    BY <2>1 DEF KernelInv, OneActive, TopRuns, Draining, State
  <2> QED BY <2>2, <2>3, CalmKeeps DEF KernelInv
<1>2. CASE Next
  <2>1. CASE Schedule
    BY <2>1, ScheduleKeeps
  <2>2. CASE \E p \in 0 .. NumPriorities : Create(p)
    BY <2>2, CreateKeeps
  <2>3. CASE Pass \/ Terminate \/ \E x \in Tids : DestroyDead(x)
    BY <2>3, IdleKeeps
  <2>4. CASE Receive
    BY <2>4, ReceiveKeeps
  <2>5. CASE \E x \in Tids : Send(x) \/ Reply(x) \/ WaitTid(x) \/ Destroy(x)
    BY <2>5, SendKeeps, ReplyKeeps, WaitTidKeeps, DestroyKeeps
  <2>6. CASE \E e \in Events : Await(e) \/ Interrupt(e)
    BY <2>6, AwaitKeeps, InterruptKeeps
  <2>7. CASE Exit
    BY <2>7, ExitKeeps
  <2>8. CASE DrainInbox \/ FinishDestroy
    BY <2>8, DrainKeeps, FinishKeeps
  <2> QED BY <1>2, <2>1, <2>2, <2>3, <2>4, <2>5, <2>6, <2>7, <2>8 DEF Next
<1> QED BY <1>1, <1>2

LEMMA NextNotCorrupt ==
  ASSUME CleanHabits, "DestroyDead" \notin Calls, MaxTasks < NumBlocks,
         TypeInv, KernelInv, NeverCorrupt, [Next]_vars
  PROVE  NeverCorrupt'
<1> USE DEF NeverCorrupt
<1>1. CASE UNCHANGED vars
  BY <1>1 DEF vars
<1>2. CASE Next
  <2>1. CASE Schedule
    BY <2>1, ScheduleKeeps
  <2>2. CASE \E p \in 0 .. NumPriorities : Create(p)
    BY <2>2, CreateHasBlock
  <2>3. CASE Pass \/ Terminate \/ \E x \in Tids : DestroyDead(x)
    BY <2>3, IdleKeeps
  <2>4. CASE Receive
    BY <2>4, ReceiveKeeps
  <2>5. CASE \E x \in Tids : Send(x) \/ Reply(x) \/ WaitTid(x) \/ Destroy(x)
    BY <2>5, SendKeeps, ReplyKeeps, WaitTidKeeps, DestroyKeeps
  <2>6. CASE \E e \in Events : Await(e) \/ Interrupt(e)
    BY <2>6, AwaitKeeps, InterruptKeeps
  <2>7. CASE Exit
    BY <2>7, ExitKeeps
  <2>8. CASE DrainInbox \/ FinishDestroy
    BY <2>8, DrainKeeps, FinishKeeps
  <2> QED BY <1>2, <2>1, <2>2, <2>3, <2>4, <2>5, <2>6, <2>7, <2>8 DEF Next
<1> QED BY <1>1, <1>2

(* What the checked invariants say follows from what the steps keep. *)
LEMMA KernelDescriptors ==
  ASSUME TypeInv, KernelInv
  PROVE  DescriptorsSound
<1>1. ReadyQueuesSound
  <2>1. Queued(sched)
    BY DEF KernelInv
  <2>2. ASSUME NEW p \in Priorities
        PROVE  /\ ListFrom(sched, sched.head[p]) = ReadyAt(sched, p)
               /\ Ends(sched, sched.head[p])
               /\ sched.tail[p] = NULL <=> sched.head[p] = NULL
               /\ sched.tail[p] # NULL => sched.tail[p] \in ReadyAt(sched, p)
                                          /\ sched.next[sched.tail[p]] = NULL
               /\ p \in sched.avail <=> sched.head[p] # NULL
    BY <2>1, QueuedFacts DEF Queued
  <2>3. sched.highest = HighestOf(sched.avail)
    BY <2>1 DEF Queued
  <2> QED BY <2>2, <2>3 DEF ReadyQueuesSound, ReadyAt, State
<1>2. BankSound
  <2> DEFINE F == Freed
  <2>1. IsList(Slots, sched.next, NULL, bank, F) /\ blocks + Cardinality(Live) = NumBlocks - 1
    BY DEF KernelInv, BankHolds
  <2> HIDE DEF F
  <2>2. /\ Met(Slots, sched.next, NULL, bank) = F
        /\ bank = NULL \/ \E t \in F : sched.next[t] = NULL
    BY <2>1, NoNull, ListFacts
  <2>3. ListFrom(sched, bank) = F /\ Ends(sched, bank)
    BY <2>2, ListFromMet DEF Ends
  <2> QED BY <2>1, <2>3 DEF BankSound, F, Freed
<1>3. EventsSound
  BY DEF KernelInv, EventsHold
<1> QED BY <1>1, <1>2, <1>3 DEF DescriptorsSound

LEMMA KernelMail ==
  ASSUME TypeInv, KernelInv
  PROVE  MailSound
<1>1. PICK box : MailWith(mail, sched.state, result, victim, box)
  BY DEF KernelInv, MailHolds
<1>2. EnvelopesSound
  <2> DEFINE S == Envelopes \ Outs(mail)
  <2>1. IsList(Envelopes, mail.next, NULL, mail.free, S)
    BY <1>1 DEF MailWith, FreeSound
  <2> HIDE DEF S
  <2>2. /\ Met(Envelopes, mail.next, NULL, mail.free) = S
        /\ mail.free = NULL \/ \E x \in S : mail.next[x] = NULL
    BY <2>1, NullEnvelope, ListFacts
  <2>3. EnvSet(mail, mail.free) = S /\ Acyclic(mail, mail.free)
    BY <2>2, EnvSetMet DEF Acyclic
  <2> QED BY <1>1, <2>3 DEF EnvelopesSound, MailWith, FreeSound, S, Outs, Outboxes
<1>3. ASSUME NEW r \in Slots
      PROVE  EnvSet(mail, mail.inHead[r]) = box[r] /\ Acyclic(mail, mail.inHead[r])
  <2> DEFINE S == box[r]
  <2>1. IsList(Envelopes, mail.next, NULL, mail.inHead[r], S)
    BY <1>1 DEF MailWith, BoxesSound
  <2> HIDE DEF S
  <2>2. /\ Met(Envelopes, mail.next, NULL, mail.inHead[r]) = S
        /\ mail.inHead[r] = NULL \/ \E x \in S : mail.next[x] = NULL
    BY <2>1, NullEnvelope, ListFacts
  <2> QED BY <2>2, EnvSetMet DEF Acyclic, S
<1>4. ASSUME NEW r \in Slots, box[r] # {}
      PROVE  mail.inTail[r] \in box[r] /\ mail.next[mail.inTail[r]] = NULL
  <2> DEFINE S == box[r]
  <2>1. CASE r = victim
    <3>1. LastOf(mail, r)
      BY <2>1, NoNull DEF KernelInv, Draining
    <3>2. IsList(Envelopes, mail.next, NULL, mail.inHead[r], S)
      BY <1>1 DEF MailWith, BoxesSound
    <3>3. S # {}
      BY <1>4
    <3> HIDE DEF S
    <3>4. Met(Envelopes, mail.next, NULL, mail.inHead[r]) = S /\ mail.inHead[r] # NULL
      BY <3>2, <3>3, NullEnvelope, ListFacts
    <3> QED BY <3>1, <3>4 DEF LastOf, S
  <2>2. CASE r # victim
    <3>1. IsQueue(Envelopes, mail.next, NULL, mail.inHead[r], mail.inTail[r], S)
      BY <1>1, <2>2 DEF MailWith, BoxesSound
    <3>2. S # {}
      BY <1>4
    <3> HIDE DEF S
    <3>3. mail.inTail[r] \in S /\ mail.next[mail.inTail[r]] = NULL
      BY <3>1, <3>2, NullEnvelope, QueueFacts
    <3> QED BY <3>3 DEF S
  <2> QED BY <2>1, <2>2
<1>5. InboxesSound
  <2>1. \A r \in Slots : \A e \in box[r] :
          /\ mail.sender[e] \in Slots /\ mail.sender[e] # NULL
          /\ State(mail.sender[e]) = "RECV_BL" /\ mail.outbox[mail.sender[e]] = e
    BY <1>1, NoNull DEF MailWith, SendersSound, State
  <2>2. \A t \in Slots : State(t) = "RECV_BL" => \E r \in Slots : mail.outbox[t] \in box[r]
    BY <1>1 DEF MailWith, SendersSound, State
  <2>3. \A r, s \in Slots : r # s => box[r] \cap box[s] = {}
    BY <1>1 DEF MailWith, SendersSound
  <2> DEFINE inbox == [r \in Slots |-> EnvSet(mail, mail.inHead[r])]
  <2>4. \A r \in Slots : inbox[r] = box[r]
    BY <1>3
  <2> HIDE DEF inbox
  <2>5. /\ \A r \in Slots :
             /\ Acyclic(mail, mail.inHead[r])
             /\ \A e \in inbox[r] : /\ mail.sender[e] # NULL
                                    /\ State(mail.sender[e]) = "RECV_BL"
                                    /\ mail.outbox[mail.sender[e]] = e
             /\ inbox[r] # {} => mail.inTail[r] \in inbox[r] /\ mail.next[mail.inTail[r]] = NULL
             /\ \A s \in Slots \ {r} : inbox[r] \cap inbox[s] = {}
        /\ \A t \in Slots : State(t) = "RECV_BL" => \E r \in Slots : mail.outbox[t] \in inbox[r]
    BY <1>3, <1>4, <2>1, <2>2, <2>3, <2>4
  <2> QED BY <2>5 DEF InboxesSound, inbox
<1>6. BlockedTasksHoldTheirEnvelope
  BY <1>1 DEF BlockedTasksHoldTheirEnvelope, MailWith, HoldersSound, State
<1> QED BY <1>2, <1>5, <1>6 DEF MailSound

LEMMA KernelRunsHighest ==
  ASSUME TypeInv, KernelInv
  PROVE  RunsHighest
BY DEF TypeInv, KernelInv, OneActive, TopRuns, RunsHighest

LEMMA KernelWaiters ==
  ASSUME TypeInv, KernelInv
  PROVE  WaitersCanReturn
<1> SUFFICES ASSUME NEW t \in Slots, State(t) = "WAITTID_BL"
             PROVE  \E u \in Live : t \in ListFrom(sched, waitQueue[u])
  BY DEF WaitersCanReturn
<1>1. PICK u \in Live : waitQueue[u] = t
  BY DEF KernelInv, WaitsHold
<1>2. t \in ListFrom(sched, t)
  BY NoNull DEF ListFrom
<1> QED BY <1>1, <1>2

(* Whatever tasks do within these habits, the ready queues, the bank, the inboxes
   and the free list that addTask, schedule, sys_send, sys_recv, sys_reply and
   destroyTaskD thread through the descriptors and envelopes are lists without
   loops that share nothing, with the heads, tails and mask kept beside them. *)
THEOREM KernelInvariant == CleanHabits => (Spec => []KernelInv)
<1> SUFFICES ASSUME CleanHabits PROVE Spec => []KernelInv
  OBVIOUS
<1>1. TypeInv /\ TypeInv' /\ KernelInv /\ [Next]_vars => KernelInv'
  BY NextKernelInv
<1> QED BY <1>1, InitKernelInv, TypeInvariant, PTL DEF Spec

(* Whatever tasks are created, send, receive, wait, exit and are destroyed, the
   ready queues, the bank of free descriptors, the memory blocks and the interrupt
   table stay what addTask, schedule, createTaskD, destroyTaskD and
   addInterruptListener take them to be. *)
THEOREM DescriptorsSoundCorrect == CleanHabits => (Spec => []DescriptorsSound)
<1> SUFFICES ASSUME CleanHabits PROVE Spec => []DescriptorsSound
  OBVIOUS
<1>1. TypeInv /\ KernelInv => DescriptorsSound
  BY KernelDescriptors
<1>2. Spec => []KernelInv
  BY KernelInvariant
<1> QED BY <1>1, <1>2, TypeInvariant, PTL

(* Each envelope is in one place, the one its task's state says: sys_send,
   sys_recv, sys_reply and destroyTaskD lose none and hand none out twice, for any
   number of tasks and envelopes. *)
THEOREM MailSoundCorrect == CleanHabits => (Spec => []MailSound)
<1> SUFFICES ASSUME CleanHabits PROVE Spec => []MailSound
  OBVIOUS
<1>1. TypeInv /\ KernelInv => MailSound
  BY KernelMail
<1>2. Spec => []KernelInv
  BY KernelInvariant
<1> QED BY <1>1, <1>2, TypeInvariant, PTL

(* While a task runs it is the only ACTIVE one, and no READY task has a higher
   priority than it: what schedule promises. *)
THEOREM RunsHighestCorrect == CleanHabits => (Spec => []RunsHighest)
<1> SUFFICES ASSUME CleanHabits PROVE Spec => []RunsHighest
  OBVIOUS
<1>1. TypeInv /\ KernelInv => RunsHighest
  BY KernelRunsHighest
<1>2. Spec => []KernelInv
  BY KernelInvariant
<1> QED BY <1>1, <1>2, TypeInvariant, PTL

(* A task blocked in WaitTid is on the wait queue of a task that has yet to exit,
   as long as a task is waited for by one task only. *)
THEOREM WaitersCanReturnCorrect == CleanHabits => (Spec => []WaitersCanReturn)
<1> SUFFICES ASSUME CleanHabits PROVE Spec => []WaitersCanReturn
  OBVIOUS
<1>1. TypeInv /\ KernelInv => WaitersCanReturn
  BY KernelWaiters
<1>2. Spec => []KernelInv
  BY KernelInvariant
<1> QED BY <1>1, <1>2, TypeInvariant, PTL

(* The kernel never follows a null pointer, nor clears a bit of availableQueues
   that is not set, provided that nobody destroys a tid that no task has and that
   fewer tasks are in use than there are stacks. *)
THEOREM NeverCorruptCorrect ==
  CleanHabits /\ "DestroyDead" \notin Calls /\ MaxTasks < NumBlocks => (Spec => []NeverCorrupt)
<1> SUFFICES ASSUME CleanHabits, "DestroyDead" \notin Calls, MaxTasks < NumBlocks
             PROVE  Spec => []NeverCorrupt
  OBVIOUS
<1>1. Init => NeverCorrupt
  BY DEF Init, NeverCorrupt
<1>2. TypeInv /\ KernelInv /\ NeverCorrupt /\ [Next]_vars => NeverCorrupt'
  BY NextNotCorrupt
<1>3. Spec => []KernelInv
  BY KernelInvariant
<1> QED BY <1>1, <1>2, <1>3, TypeInvariant, PTL DEF Spec

(* A call finds a free envelope. *)
EnvelopesLast == pc = "user" => mail.free # NULL

(* With an envelope for each descriptor, as in the code (64 and 64), sys_send and
   sys_recv never have to say that there are none left: who runs holds none, and
   nobody holds two. *)
THEOREM EnvelopesLastCorrect ==
  CleanHabits /\ NumEnvelopes >= NumSlots => (Spec => []EnvelopesLast)
<1> SUFFICES ASSUME CleanHabits, NumEnvelopes >= NumSlots PROVE Spec => []EnvelopesLast
  OBVIOUS
<1>1. TypeInv /\ KernelInv => EnvelopesLast
  <2> SUFFICES ASSUME TypeInv, KernelInv, pc = "user", mail.free = NULL PROVE FALSE
    BY DEF EnvelopesLast
  <2>1. /\ mail \in Mail /\ current \in Slots /\ State(current) = "ACTIVE" /\ current # victim
    BY NoNull DEF TypeInv, TypeOK, KernelInv, TopRuns, Draining
  <2>2. PICK box : MailWith(mail, sched.state, result, victim, box)
    BY DEF KernelInv, MailHolds
  <2>3. mail.outbox[current] = NULL
    BY <2>1, <2>2 DEF MailWith, HoldersSound, State
  <2> DEFINE Others == Slots \ {current}
             holder == [e \in Envelopes |-> CHOOSE t \in Others : mail.outbox[t] = e]
  <2>4. \A e \in Envelopes : \E t \in Others : mail.outbox[t] = e
    <3> DEFINE S == Envelopes \ Outs(mail)
    <3>1. IsList(Envelopes, mail.next, NULL, mail.free, S)
      BY <2>2 DEF MailWith, FreeSound
    <3>2. S = {}
      <4> HIDE DEF S
      <4> QED BY <3>1, ListFacts, NullEnvelope
    <3> QED BY <2>3, <3>2, NullEnvelope DEF Outs
  <2>5. holder \in [Envelopes -> Others] /\ \A e \in Envelopes : mail.outbox[holder[e]] = e
    BY <2>4
  <2>6. IsFiniteSet(Envelopes) /\ Cardinality(Envelopes) = NumEnvelopes
    <3>1. 0 \in Int /\ NumEnvelopes - 1 \in Int /\ NumEnvelopes \in Nat \ {0}
      BY DEF KernelAssumption
    <3>2. /\ IsFiniteSet(0 .. NumEnvelopes - 1)
          /\ Cardinality(0 .. NumEnvelopes - 1)
               = IF 0 > NumEnvelopes - 1 THEN 0 ELSE (NumEnvelopes - 1) - 0 + 1
      BY <3>1, FS_Interval
    <3> QED BY <3>1, <3>2 DEF Envelopes
  <2>7. IsFiniteSet(Others) /\ Cardinality(Others) = NumSlots - 1
    <3>1. 0 \in Int /\ NumSlots - 1 \in Int /\ NumSlots \in Nat \ {0}
      BY DEF SchedulerAssumption
    <3>2. /\ IsFiniteSet(0 .. NumSlots - 1)
          /\ Cardinality(0 .. NumSlots - 1)
               = IF 0 > NumSlots - 1 THEN 0 ELSE (NumSlots - 1) - 0 + 1
      BY <3>1, FS_Interval
    <3>3. IsFiniteSet(Slots) /\ Cardinality(Slots) = NumSlots
      BY <3>1, <3>2 DEF Slots
    <3> QED BY <2>1, <3>3, FS_RemoveElement
  <2>8. Cardinality(Others) < Cardinality(Envelopes)
    BY <2>6, <2>7 DEF SchedulerAssumption, KernelAssumption
  <2> HIDE DEF Others, holder
  <2>9. \E e, f \in Envelopes : e # f /\ holder[e] = holder[f]
    BY <2>5, <2>6, <2>7, <2>8, FS_PigeonHole
  <2> QED BY <2>5, <2>9
<1>2. Spec => []KernelInv
  BY KernelInvariant
<1> QED BY <1>1, <1>2, TypeInvariant, PTL
=============================================================================
